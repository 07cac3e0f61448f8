SPECIFICATION Spec
CONSTANTS
  Roots <- MCRoots
  MaxHops = 1
INVARIANTS
  CodecsAgree
CHECK_DEADLOCK FALSE
