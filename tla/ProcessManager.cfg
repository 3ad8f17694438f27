SPECIFICATION Spec
CONSTANTS
  UINT32_MAX = 9
  Process = {p1, p2, p3}
  NoProcess = NoProcess
  NumProcesses = 3
SYMMETRY Contexts
INVARIANT IInv
PROPERTY CalledOnce
PROPERTY CallsRegistered
