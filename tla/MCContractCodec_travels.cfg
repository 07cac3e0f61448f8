SPECIFICATION Spec
CONSTANTS
  Roots <- MCRoots
  MaxHops = 5
INVARIANTS
  OnceVettedAlwaysVetted
  NothingChangesOnTheWay
  StreamEventIsOneThing
  DifferOnlyOnNumbersAndTimes
CHECK_DEADLOCK FALSE
