SPECIFICATION Spec
CONSTANTS
  MaxSeconds = 2
  MaxDepth = 3
  MaxCalls = 4
INVARIANTS TypeOK NoLateAlarm HandlerRestored
CHECK_DEADLOCK FALSE
