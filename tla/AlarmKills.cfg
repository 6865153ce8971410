SPECIFICATION Spec
CONSTANTS
  MaxSeconds = 2
  MaxDepth = 3
  MaxCalls = 4
INVARIANT LimitAborts
CHECK_DEADLOCK FALSE
