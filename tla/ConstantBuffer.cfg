SPECIFICATION Spec
CONSTANTS
  NumConstants = 3
  KindOf <- MCKindOf
  SizeOf <- MCSizeOf
  Texture <- MCTexture
  Memory = Memory
  UINT16_MAX = 6
  Source = {s1, s2, s3}
  NoSource = NoSource
  MaxSources = 2
  UINT32_MAX = 7
SYMMETRY Symmetry
INVARIANT MemoryOwned
INVARIANT UnitsApart
INVARIANT SourcesInv
