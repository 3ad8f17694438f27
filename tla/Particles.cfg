SPECIFICATION Spec
CONSTANTS
  Emitted = 4
  Capacity = {3, 4, 5}
  Life = {0, 1}
  INFINITY = 9
  Dt = {1, 2}
  MaxTime = 3
  USHORT_SIZE = 5
INVARIANT StreamsTogether
INVARIANT PassAdvancesAll
