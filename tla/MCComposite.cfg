CONSTANTS
  Orders <- MCOrders
  Callers = {a, b}
  Local = {"input"}
SPECIFICATION Spec
INVARIANTS
  CloseComplete
  NothingForgotten
PROPERTIES
  KeepsPromise
CHECK_DEADLOCK FALSE
