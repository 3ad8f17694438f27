SPECIFICATION Spec
CONSTANTS
  UINT32_MAX = 9
  List = {l1}
  Instance = {i1, i2, i3}
  target = target
  texture = texture
  Resource = {target, texture}
  KindOf <- Kinds
  NoList = NoList
  NoInstance = NoInstance
  ListSize = 2
  NumLists = 1
SYMMETRY Alike
INVARIANT IndicesInv
INVARIANT DrawsOnlyLive
INVARIANT DrawsEveryInstance
