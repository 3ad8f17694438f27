SPECIFICATION Spec
CONSTANTS
  e1 = e1
  e2 = e2
  tickFn = tickFn
  advanceFn = advanceFn
  Event = {e1, e2}
  Fn = {f1}
  Component = {c1, c2}
  Name = {n1, n2, n3}
  HandlerOf <- Handlers
  NoFn = NoFn
  NoComponent = NoComponent
  NoName = NoName
  MaxSubscriptions = 3
  MaxShifts = 2
SYMMETRY Alike
INVARIANT CalledOnce
INVARIANT MissedByRemoval
INVARIANT ComponentsInPlace
