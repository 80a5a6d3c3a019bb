SPECIFICATION Spec
CONSTANTS
  WordBits = 6
  NumThreads = 7
  Active = {6, 7}
  UserValue <- ReservedBitsAlike
  MaxCalls = 4
  None = None
INVARIANTS ValuesAreNotMarkers StagesReadBack MarkersNameOperations OperationsApart EncodingInv
CHECK_DEADLOCK FALSE
