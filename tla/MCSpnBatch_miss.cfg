SPECIFICATION Spec
CONSTANTS
  Spns <- MCSpns
  Blank = Blank
  Requests <- MCRequests
  Suppliers <- MCSuppliers
  Size <- MCSize
INVARIANTS
  FailureIsNotNotFound
CHECK_DEADLOCK FALSE
