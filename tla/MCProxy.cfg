SPECIFICATION Spec
CONSTANTS
  Names = {add, log}
  NoName = NoName
  MaxTime = 1
  PipeCap = 3
  MaxOps = 3
SYMMETRY NameSymmetry
INVARIANTS TypeOK IInv InFrame KnownCallback StaleHasCause
PROPERTY SessionKept
CHECK_DEADLOCK FALSE
