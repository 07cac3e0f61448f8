SPECIFICATION LoopSpec
CONSTANTS
  Streams = {s1, s2}
  Workers = {w1, w2}
  Idle = Idle
  Answers <- MCOk
  MaxTargets = 2
  Suppliers <- MCSuppliers
  Names <- MCNames
  AllSuppliers <- MCAllSuppliers
  Requests <- MCFewRequests
  Limits <- MCFinite
PROPERTIES
  SlowDoesNotBlockFast
CHECK_DEADLOCK FALSE
