SPECIFICATION Spec
CONSTANTS
  Streams = {s1, s2}
  Workers = {w1, w2}
  Idle = Idle
  Answers <- MCAnswers
  MaxTargets = 2
  Suppliers <- MCSuppliers
  Names <- MCNames
  AllSuppliers <- MCAllSuppliers
  Requests <- MCRequests
  Limits <- MCFires
SYMMETRY MCSymmetry
INVARIANTS
  EventsTellTheTruth
  PoolAccounts
PROPERTIES
  ContractSafety
CHECK_DEADLOCK FALSE
