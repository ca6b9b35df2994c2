CONSTANTS
  Procs = {p1, p2, p3}
  Kernel = Kernel
  Nobody = Nobody
  Chunks = {"a", "b"}
  MaxChunks = 2
SPECIFICATION Spec
INVARIANTS
  ExecutedOnce
  SameAnswer
PROPERTIES
  CloseReturns
CHECK_DEADLOCK FALSE
