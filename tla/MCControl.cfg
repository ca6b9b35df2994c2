CONSTANTS
  Clients = {c1, c2}
  Points = {"a", "b", "off"}
  Spots = {"A", "B"}
  NoSpot = "nowhere"
  MapPoint <- MCMapPoint
  Buttons = {"left"}
  NoButton = "none"
  Left = "left"
  Keys = {"ctrl", "l"}
  TypedKeys = {"l"}
  Requests <- MCRequests
  NoRequest = NoRequest
  AtomicButton = FALSE
  Outcomes <- MCOutcomes
SPECIFICATION Spec
INVARIANTS
  NothingStuck
  HeldWhileOwed
  HonestReply
PROPERTIES
  EveryRequestAnswered
