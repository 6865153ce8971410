SPECIFICATION Spec
CONSTANTS
  Names = {add}
  NoName = NoName
  MaxTime = 1
  PipeCap = 3
  MaxOps = 2
INVARIANT LogsPassedBack
CHECK_DEADLOCK FALSE
