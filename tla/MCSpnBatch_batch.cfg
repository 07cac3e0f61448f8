SPECIFICATION Spec
CONSTANTS
  Spns <- MCSpns
  Blank = Blank
  Requests <- MCRequests
  Suppliers <- MCSuppliers
  Size <- MCSize
INVARIANTS
  ItemsAligned
  AgreesWithSingle
  FailuresStayInTheirChunk
  EnvelopeSpeaksForAll
  UpstreamBounded
  ServerErrorsHaveACause
CHECK_DEADLOCK FALSE
