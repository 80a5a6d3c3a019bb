SPECIFICATION Spec
CONSTANTS
  Client = {c1, c2, c3}
  NumThreads = 2
  NoOne = NoOne
INVARIANTS CountsTheWrappers
