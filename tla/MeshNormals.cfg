SPECIFICATION MeshSpec
CONSTANTS
  ElementSize = 2
  Garbage = Garbage
  VertexCounts = {3, 4}
  FaceLists <- MCFaceLists
  InitialElements = 4
  UINT16_SIZE = 65536
INVARIANT NormalsOfAllFaces
