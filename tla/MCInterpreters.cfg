SPECIFICATION Spec
CONSTANTS
  g1 = g1 g2 = g2
  n1 = n1 n2 = n2
  f1 = f1 f2 = f2
  a1 = a1 a2 = a2
  Guests = {g1, g2}
  Names = {n1, n2}
  Functions = {f1, f2}
  Addresses = {a1, a2}
  MaxEntries = 2
  MaxDepth = 3
  Room = 2
  MaxArguments = 0
SYMMETRY MCSymmetry
INVARIANTS TypeOK EngineUp  RightFunction OverflowHasCause ErrorsHeard
CHECK_DEADLOCK FALSE
