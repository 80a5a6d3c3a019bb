SPECIFICATION Spec
CONSTANTS
  WordBits = 6
  NumThreads = 7
  Active = {6, 7}
  UserValue <- ReservedBitsAlike
  MaxCalls = 5
  None = None
INVARIANT OperationsApart
CHECK_DEADLOCK FALSE
