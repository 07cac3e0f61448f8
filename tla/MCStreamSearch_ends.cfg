SPECIFICATION LoopSpec
CONSTANTS
  Streams = {s1, s2}
  Workers = {w1}
  Idle = Idle
  Answers <- MCOk
  MaxTargets = 2
  Suppliers <- MCSuppliers
  Names <- MCNames
  AllSuppliers <- MCAllSuppliers
  Requests <- MCBlank
  Limits <- MCFires
PROPERTIES
  StreamEnds
  PoolIsGivenBack
  ContractSpec
CHECK_DEADLOCK FALSE
