CONSTANTS
  Callers = {a, b, c}
  Free = free
  Runner = runner
  MaxEvents = 2
SPECIFICATION Spec
INVARIANTS
  EndShows
  RunOutlived
PROPERTIES
  KeepsPromise
CHECK_DEADLOCK FALSE
