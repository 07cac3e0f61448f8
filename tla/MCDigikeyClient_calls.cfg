SPECIFICATION FairSpec
CONSTANTS
  MinInterval = 1
  InitialWait = 1
  Buffer = 20
  RequestTimeout = 2
  TokenTimeout = 1
  Lifetimes <- MCLifetimes
  RetryAfters <- MCRetryAfters
  MaxCalls = 2
  MaxGap = 2
INVARIANTS
  TokenLiveWhenSent
  PoliteSpacing
PROPERTIES
  CallsReturn
  RetryAfterHeard
CHECK_DEADLOCK FALSE
