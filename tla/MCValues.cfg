SPECIFICATION Spec
CONSTANTS
  Cells = {c1, c2, c3, c4, c5}
  Data = {d1, d2}
  Nothing = Nothing
  Mask = 0
  MaxLength = 2
SYMMETRY Symmetry
INVARIANTS TypeOK InRoom OwnedOnce NoLeak
PROPERTY AreTrees
CHECK_DEADLOCK FALSE
