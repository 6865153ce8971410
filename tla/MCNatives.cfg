SPECIFICATION Spec
CONSTANTS
  Signatures <- MCSignatures
  Arguments = {}
  Values <- MCValues
  Returned <- MCReturned
  Literals <- MCLiterals
  Calls <- MCCalls
  StackRoom = 3
  FixnumBits = 31
  Numerals <- MCNumerals
INVARIANTS TypeOK Delivered InBounds  
PROPERTY ArrivesExactly
CHECK_DEADLOCK FALSE
