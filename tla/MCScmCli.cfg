SPECIFICATION FairSpec
CONSTANTS
  Suppliers <- MCSuppliers
  Requests <- MCRequests
  Main = "main"
  Urls <- MCUrls
  Commands <- MCCommands
  Limit = 1
  MaxBody = 2
  Concurrency = 1
  MaxCaBundle = 1
INVARIANTS
  TokenStaysHome
  AnswersAreWhole
  OnlyConfigured
  ExitTellsTheWorst
  NobodyIsSilent
PROPERTIES
  CliExits
CHECK_DEADLOCK FALSE
