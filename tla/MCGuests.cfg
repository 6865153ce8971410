SPECIFICATION FairSpec
CONSTANTS
  Guests = {g1, g2, g3, g4}
  Pids = {p1, p2, p3}
  AnyChild = AnyChild
  None = None
  MaxFds = 22
INVARIANTS TypeOK Isolated NoSurvivor
PROPERTY DestroyReturns
CHECK_DEADLOCK FALSE
