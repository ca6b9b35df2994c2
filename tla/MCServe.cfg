CONSTANTS
  Orders <- MCOrders
  Local = {"input"}
  Callers = {"main"}
  Main = "main"
  Modes = {"serve", "mount", "mcp"}
  Requests = {r1, r2}
  Givens <- MCGivens
SPECIFICATION LaunchSpec
INVARIANTS
  ServeTypeOK
  NoBackendLeft
  ClosedWhileIdle
  ResultHonest
  
  ValidatedStarts
PROPERTIES
  EndExits
CHECK_DEADLOCK FALSE
