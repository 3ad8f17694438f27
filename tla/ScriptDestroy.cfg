SPECIFICATION Spec
CONSTANTS
  Threads = {FALSE}
  WaitOnFence = TRUE
  QueueCapacity = 12
  ScriptMayFail = FALSE
  UI = {ui1}
  MaxFrames = 4
  MaxTicks = 2
  MaxStrings = 2
INVARIANT DestroyHandled
