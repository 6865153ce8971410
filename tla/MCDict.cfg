SPECIFICATION Spec
CONSTANTS
  Keys = {0, 1, 8}
  Data = {d1, d2}
  NoData = NoData
  Hash <- MCHash
  Floor = 4
  Sizes = {0, 1}
  MaxEntries = 4
SYMMETRY DataSymmetry
INVARIANTS TypeOK CountRight
PROPERTIES GrowsEnough IsMultimap
