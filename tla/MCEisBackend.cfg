CONSTANTS
  Devices = {"mouse", "tablet", "keys"}
  Caps <- MCCaps
  NoDevice = "none"
  MaxEvents = 5
SPECIFICATION Spec
INVARIANTS
  DevicesOwned
  StatusFollows
PROPERTIES
  NewAnswers
  KeepsPromise
CHECK_DEADLOCK FALSE
