SPECIFICATION FairSpec
CONSTANTS
  Names = {add}
  NoName = NoName
  MaxTime = 1
  PipeCap = 2
  MaxOps = 3
PROPERTY CallReturns
CHECK_DEADLOCK FALSE
