SPECIFICATION Spec
CONSTANTS
  Parts <- MCParts
  Coded <- MCCoded
  Listings <- MCListings
  Models <- MCModels
  AsAsked <- MCAsAsked
  Keywords <- Keyword
  Suppliers <- Supplier
  Limits <- MCLimits
CHECK_DEADLOCK FALSE
INVARIANTS
  NothingFoundIsLost
  FallbacksInOrder
  OnceAtItsBest
