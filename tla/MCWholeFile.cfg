CONSTANTS
  Procs = {p1, p2}
  Kernel = Kernel
  Nobody = Nobody
  Chunks = {"a", "b"}
  MaxChunks = 2
SPECIFICATION Spec
INVARIANTS
  WholeFile
CHECK_DEADLOCK FALSE
