SPECIFICATION Spec
CONSTANTS
  Numer = 3
  Denom = 2
  TickNs = 4
  MayFail = TRUE
  MaxTime = 10
  MaxStep = 5
  MaxFrames = 4

PROPERTY DtSinceLastCall
CHECK_DEADLOCK FALSE
