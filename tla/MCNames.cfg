CONSTANTS
  Clients = {c1}
  Points = {"a"}
  Spots = {"A"}
  NoSpot = "nowhere"
  MapPoint <- MCMapPoint
  Buttons <- CanonicalButtons
  NoButton = "none"
  Left = "BTN_LEFT"
  Keys = {}
  TypedKeys = {}
  Requests <- MCRequests
  NoRequest = NoRequest
  AtomicButton = TRUE
  Outcomes <- MCOutcomes
SPECIFICATION Spec
PROPERTIES
  NeverRefused
