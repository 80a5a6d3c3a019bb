SPECIFICATION Spec
CONSTANTS
  WordBits = 6
  NumThreads = 4
  Active = {1, 2}
  UserValue <- DocumentedBitsAlike
  MaxCalls = 1
  None = None
INVARIANT ValuesAreNotMarkers
CHECK_DEADLOCK FALSE
