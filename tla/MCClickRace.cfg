CONSTANTS
  Clients = {c1, c2}
  Points = {"a", "b"}
  Spots = {"A", "B"}
  NoSpot = "nowhere"
  MapPoint <- MCMapPoint
  Buttons = {"left"}
  NoButton = "none"
  Left = "left"
  Keys = {}
  TypedKeys = {}
  Requests <- MCRaceRequests
  NoRequest = NoRequest
  AtomicButton = FALSE
  Outcomes <- MCNoFailures
SPECIFICATION Spec
PROPERTIES
  ClickLands
