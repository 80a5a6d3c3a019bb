SPECIFICATION WrappedSpec
CONSTANTS
  t1 = t1
  t2 = t2
  t3 = t3
  a = a
  b = b
  c = c
  v0 = v0
  v1 = v1
  v2 = v2
  v3 = v3
  Null = Null
  c1 = c1
  c2 = c2
  c3 = c3
  NoOne = NoOne
  Client = {c1, c2, c3}
  Thread = {t1, t2}
  NumWords = 2
  Address = {a, b, c}
  Value = {v0, v1, v2, v3}
  IllegalValue = {}
  Zero = v0
  InitialMemory <- AllZero
  Program <- RepeatProgram
  Stalled = {}
INVARIANTS TypeOK NoImpossibleError ProtocolInv NextMarkerIsFresh
PROPERTIES StageProtocol ReportsTheDecision DecisionNeedsEveryClaim ImplementsKCas
SYMMETRY ClientSymmetry
