SPECIFICATION FairSpec
CONSTANTS
  s1 = s1
  s2 = s2
  s3 = s3
  RustCalls = {r}
  PythonCalls = {p}
  Names <- MCNames
  Known <- MCKnown
  Lists <- MCLists
  Defaults <- MCDefaults
  Window = 1
  Threads = 1
  Answers <- MCAnswers
  MaxList <- MCLongest
INVARIANTS ResultsAreAnswers WindowBooks
PROPERTIES CallsReturn ContractSafety
CHECK_DEADLOCK FALSE
