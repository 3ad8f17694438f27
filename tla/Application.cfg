SPECIFICATION ApplicationSpec
CONSTANTS
  Numer = 3
  Denom = 2
  TickNs = 4
  MayFail = TRUE
  MaxTime = 7
  MaxStep = 4
  MaxFrames = 3
  MaxQueued = 2
INVARIANTS IInv TicksCatchUp NoTickEarly OnlyFramesLeftOut FramesUseLive FinalisersUseLive
PROPERTY IterationReturns
