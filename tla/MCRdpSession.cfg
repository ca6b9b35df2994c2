CONSTANTS
  Attempts = 2
  BlankLimit = 2
  Sizes <- MCSizes
  Callers <- MCCallers
  Calls <- MCCalls
  Starter = "starter"
SPECIFICATION Spec
INVARIANTS
  TypeOK
  ClientsHandedBack
  PictureHonest
PROPERTIES
  StartAnswers
  KeepsPromise
CHECK_DEADLOCK FALSE
