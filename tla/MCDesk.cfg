CONSTANTS
  Kinds = {"command", "ssh", "kwin", "windows", "macos"}
  Callers = {"c1", "c2"}
  MaxMissing = 1
  Width = 8
  Beyond <- MCBeyond
  Narrow = 4
  Far = 6
  MaxTurn = 7
  Finest = 15
  Requests <- MCRequests
  Picture <- MCPicture
  Layouts <- MCLayouts
SPECIFICATION DeskSpec
INVARIANTS
  ClosedShows
  ErrorShows
  AuthorizedOnly
  FrontsAgree
  CropsServed
  PointsLand
PROPERTIES
  CallsEnd
  KeepsPromise
CHECK_DEADLOCK FALSE
