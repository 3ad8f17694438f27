SPECIFICATION FairSpec
CONSTANTS
  Threads = {TRUE, FALSE}
  WaitOnFence = TRUE
  QueueCapacity = 12
  ScriptMayFail = TRUE
  UI = {ui1}
  MaxFrames = 4
  MaxTicks = 2
  MaxStrings = 2
INVARIANT IInv
INVARIANT NotifiedOnce
INVARIANT AdvancesOncePerFrame
INVARIANT ScriptKeepsUp
INVARIANT InitComesFirst
INVARIANT DestroyTakesTwo
INVARIANT StringsCarriedOnce
PROPERTY FenceWaitEnds
PROPERTY DestroyReturns
