SPECIFICATION FairSpec
CONSTANTS
  Values <- MCValues
  MAX_STRING_SIZE = 2
  MAX_ARRAY_SIZE = 3
INVARIANTS RoundTrip RefusedForCause Limited
PROPERTY ReadEnds
CHECK_DEADLOCK FALSE
