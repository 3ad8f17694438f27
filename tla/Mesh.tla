-------------------------------- MODULE Mesh --------------------------------
(***************************************************************************)
(* A mesh: the arrays that a script sets, the normals computed from them   *)
(* and the buffers that frames draw from (modules/mesh.c, render/mesh/     *)
(* mesh.c, render/opengl/mesh/mesh.c).  An array is modelled by how many   *)
(* entries are allocated for it (0: NULL; of face normals, which may be    *)
(* allocated for no face, -1), the index array by its faces.               *)
(* Script and renderer share a thread: a frame comes between two handlers. *)
(*                                                                         *)
(* The arrays share num_verts and num_indices, and no function compares    *)
(* what it finds there with what another allocated.  The guards `Agree`    *)
(* and `FaceNormalsFit` say what a script has to keep to.                  *)
(*                                                                         *)
(* The initial states, steps and types are named Mesh-, apart from those   *)
(* of module Particles, with which this one is extended by GeometryProofs. *)
(***************************************************************************)
EXTENDS GrowableArray, Integers, FiniteSets

CONSTANTS
  VertexCounts,     \* bound: the numbers of vertices a mesh may have
  FaceLists,        \* the face lists a mesh may have: sequences of triples
  InitialElements,  \* of a vertex's list of faces, 8
  UINT16_SIZE       \* 2^16, the values of the type of num_tris

\* A mesh without vertices or indices is one that has no arrays for them; a list
\* that is to grow by half has two elements at least.
ASSUME CountsAssumption == VertexCounts \subseteq Nat \ {0}
ASSUME FacesAssumption == \A faces \in FaceLists : faces \in Seq([1 .. 3 -> Nat])
ASSUME InitialAssumption == InitialElements \in Nat /\ 2 <= InitialElements
ASSUME UInt16Assumption == UINT16_SIZE \in Nat \ {0}

VARIABLES
  num_verts,
  vertex, tex0, normal, face_normal,  \* entries allocated
  index,            \* the faces of the index array; num_indices is 3 for each
  gpu,              \* per element, the entries in its buffer; the faces in idx_buffer
  stale,            \* history: elements set since they were buffered last
  pc,               \* the script, a frame, or the loop of recompute_normals
  tri,              \* that loop's index
  vert_face_assoc   \* per vertex, the list of its faces

arrays == <<num_verts, vertex, tex0, normal, face_normal, index>>
loop == <<tri, vert_face_assoc>>
meshVars == <<arrays, gpu, stale, pc, loop>>

Element == {"vertex", "normal", "tex0", "index"}
num_indices == 3 * Len(index)
num_tris == Len(index) % UINT16_SIZE
Corners(faces) == UNION {{faces[f][c] : c \in 1 .. 3} : f \in DOMAIN faces}

\* Mesh_new and kl_mesh_init
MeshInit ==
  /\ num_verts = 0
  /\ vertex = 0 /\ tex0 = 0 /\ normal = 0 /\ face_normal = -1 /\ index = <<>>
  /\ gpu = [vertex |-> 0, normal |-> 0, tex0 |-> 0, index |-> <<>>]
  /\ stale = {}
  /\ pc = "script" /\ tri = 0 /\ vert_face_assoc = <<>>

-----------------------------------------------------------------------------
(* The script.                                                             *)

\* The number of vertices is the same in all that the mesh has.
Agree(n, others) == others \subseteq {0, n}

\* face_normal is allocated once, for the faces there are at the time.
FaceNormalsFit(faces) == face_normal = -1 \/ 3 * Len(faces) <= face_normal

SetPositions(n) ==
  /\ Agree(n, {tex0, normal})
  /\ num_verts' = n /\ vertex' = n
  /\ stale' = stale \union {"vertex"}
  /\ UNCHANGED <<tex0, normal, face_normal, index, gpu, pc, loop>>

SetTexcoords(n) ==
  /\ Agree(n, {vertex, normal})
  /\ num_verts' = n /\ tex0' = n
  /\ stale' = stale \union {"tex0"}
  /\ UNCHANGED <<vertex, normal, face_normal, index, gpu, pc, loop>>

\* Mesh_setindices and Mesh_setfaces
SetFaces(faces) ==
  /\ FaceNormalsFit(faces)
  /\ index' = faces
  /\ stale' = stale \union {"index"}
  /\ UNCHANGED <<num_verts, vertex, tex0, normal, face_normal, gpu, pc, loop>>

\* kl_mesh_load_ctm sets what the file has and buffers it; the file may come
\* without normals, and a mesh keeps those it had.
LoadCtm(n, faces, normals) ==
  /\ Agree(n, {tex0} \union IF normals THEN {} ELSE {normal})
  /\ FaceNormalsFit(faces) /\ Corners(faces) \subseteq 0 .. n - 1
  /\ num_verts' = n /\ vertex' = n /\ index' = faces
  /\ normal' = IF normals THEN n ELSE normal
  /\ gpu' = [gpu EXCEPT !.vertex = n, !.index = faces, !.normal = IF normals THEN n ELSE @]
  /\ stale' = stale \ ({"vertex", "index"} \union IF normals THEN {"normal"} ELSE {})
  /\ UNCHANGED <<tex0, face_normal, pc, loop>>

\* Mutant: num_indices is taken for the size of the indices in bytes.
BufferDataShort(mask) ==
  /\ gpu' =
       [vertex |-> IF "vertex" \in mask /\ vertex # 0 THEN num_verts ELSE gpu.vertex,
        normal |-> IF "normal" \in mask /\ normal # 0 THEN num_verts ELSE gpu.normal,
        tex0 |-> IF "tex0" \in mask /\ tex0 # 0 THEN num_verts ELSE gpu.tex0,
        index |-> IF "index" \in mask /\ index # <<>>
                  THEN SubSeq(index, 1, Len(index) \div 2) ELSE gpu.index]
  /\ stale' = stale \ mask
  /\ UNCHANGED <<arrays, pc, loop>>

\* Mesh_update: kl_mesh_buffer_data for the elements in the mask.
BufferData(mask) ==
  /\ gpu' =
       [vertex |-> IF "vertex" \in mask /\ vertex # 0 THEN num_verts ELSE gpu.vertex,
        normal |-> IF "normal" \in mask /\ normal # 0 THEN num_verts ELSE gpu.normal,
        tex0 |-> IF "tex0" \in mask /\ tex0 # 0 THEN num_verts ELSE gpu.tex0,
        index |-> IF "index" \in mask /\ index # <<>> THEN index ELSE gpu.index]
  /\ stale' = stale \ mask
  /\ UNCHANGED <<arrays, pc, loop>>

\* Mutant: a face normal is allocated per vertex.
ComputeNormalsPerVertex ==
  /\ vertex # 0 /\ Corners(index) \subseteq 0 .. vertex - 1
  /\ normal' = IF normal = 0 THEN num_verts ELSE normal
  /\ face_normal' = IF face_normal = -1 THEN num_verts ELSE face_normal
  /\ stale' = stale \union {"normal"}
  /\ IF index = <<>> THEN UNCHANGED <<pc, loop>>
     ELSE /\ pc' = "normals" /\ tri' = 0
          /\ vert_face_assoc' = [v \in 0 .. num_verts - 1 |-> Allocated(InitialElements)]
  /\ UNCHANGED <<num_verts, vertex, tex0, index, gpu>>

\* Mesh_computenormals, of all faces, and kl_mesh_recompute_normals up to the
\* loop that lists the faces of each vertex.  Without indices it goes no further
\* than to allocate normals and leave them as they are.  The indices are of
\* vertices that there are.
ComputeNormals ==
  /\ vertex # 0 /\ Corners(index) \subseteq 0 .. vertex - 1
  /\ normal' = IF normal = 0 THEN num_verts ELSE normal
  /\ face_normal' = IF face_normal = -1 THEN num_indices ELSE face_normal
  /\ stale' = stale \union {"normal"}
  /\ IF index = <<>> THEN UNCHANGED <<pc, loop>>
     ELSE /\ pc' = "normals" /\ tri' = 0
          /\ vert_face_assoc' = [v \in 0 .. num_verts - 1 |-> Allocated(InitialElements)]
  /\ UNCHANGED <<num_verts, vertex, tex0, index, gpu>>

\* The handler returns; a frame draws the mesh, whatever was buffered of it.
EndHandler ==
  /\ pc' = "frame"
  /\ UNCHANGED <<arrays, gpu, stale, loop>>

Script ==
  /\ pc = "script"
  /\ \/ \E n \in VertexCounts : SetPositions(n) \/ SetTexcoords(n)
     \/ \E faces \in FaceLists : SetFaces(faces)
     \/ \E n \in VertexCounts, faces \in FaceLists, normals \in BOOLEAN : LoadCtm(n, faces, normals)
     \/ \E mask \in SUBSET Element : BufferData(mask)
     \/ ComputeNormals \/ EndHandler

\* The next handler begins.
EndFrame == pc = "frame" /\ pc' = "script" /\ UNCHANGED <<arrays, gpu, stale, loop>>

-----------------------------------------------------------------------------
(* kl_mesh_recompute_normals                                               *)

\* A face is appended to the list of a vertex.
Listed(lists, v) == [lists EXCEPT ![v] = Appended(@, tri)]

\* Mutant: the third corner is forgotten.
AssociateTwoCorners ==
  /\ pc = "normals" /\ tri < num_tris
  /\ LET face == index[tri + 1]
     IN vert_face_assoc' = Listed(Listed(vert_face_assoc, face[1]), face[2])
  /\ tri' = tri + 1
  /\ UNCHANGED <<arrays, gpu, stale, pc>>

\* A face goes to the lists of its three corners, which need not differ.
Associate ==
  /\ pc = "normals" /\ tri < num_tris
  /\ LET face == index[tri + 1]
     IN vert_face_assoc' = Listed(Listed(Listed(vert_face_assoc, face[1]), face[2]), face[3])
  /\ tri' = tri + 1
  /\ UNCHANGED <<arrays, gpu, stale, pc>>

\* Every corner's normal is the mean of its list's face normals; the lists are
\* destroyed.
WriteNormals ==
  /\ pc = "normals" /\ tri = num_tris
  /\ pc' = "script" /\ tri' = 0 /\ vert_face_assoc' = <<>>
  /\ UNCHANGED <<arrays, gpu, stale>>

MeshNext == Script \/ EndFrame \/ Associate \/ WriteNormals

MeshSpec == MeshInit /\ [][MeshNext]_meshVars

-----------------------------------------------------------------------------
Count == VertexCounts \union {0}
Lists == {vert_face_assoc[v] : v \in DOMAIN vert_face_assoc}

MeshTypeOK ==
  /\ num_verts \in Count /\ vertex \in Count /\ tex0 \in Count /\ normal \in Count
  /\ face_normal \in Nat \union {-1} /\ index \in FaceLists \union {<<>>}
  /\ gpu.vertex \in Count /\ gpu.normal \in Count /\ gpu.tex0 \in Count
  /\ gpu.index \in FaceLists \union {<<>>}
  /\ stale \subseteq Element
  /\ pc \in {"script", "frame", "normals"} /\ tri \in 0 .. Len(index)
  /\ \A array \in Lists : Len(array.elements) = array.num_elements

\* No function runs over the end of an array that another one allocated: each
\* array there is has an entry per vertex, and per index a face normal's float.
\* An append to a list of faces stays within its allocation.
ArraysFit ==
  /\ \A n \in {vertex, tex0, normal} : n \in {0, num_verts}
  /\ pc = "normals" => num_indices <= face_normal /\ normal = num_verts
  /\ \A array \in Lists : array.max_idx <= array.num_elements

\* A frame draws num_indices of the array (glDrawElements takes the script's
\* number, not the buffer's).  If the script has buffered all that it set, of
\* vertices that there are, the frame finds them and their vertices in the
\* buffers, whatever was set, computed, loaded and buffered before.
DrawsWithinBuffers ==
  pc = "frame" /\ stale = {} /\ Corners(index) \subseteq 0 .. vertex - 1 =>
    /\ Len(index) <= Len(gpu.index)
    /\ \A v \in Corners(SubSeq(gpu.index, 1, Len(index))) :
         /\ v < gpu.vertex
         /\ gpu.tex0 # 0 => v < gpu.tex0
         /\ gpu.normal # 0 => v < gpu.normal

\* The corners that a vertex is, of all faces and of one.
CornersOf(v) == {q \in (0 .. Len(index) - 1) \X (1 .. 3) : index[q[1] + 1][q[2]] = v}
Valence(v) == Cardinality(CornersOf(v))
CornersAt(f, v) == Cardinality({c \in 1 .. 3 : index[f + 1][c] = v})

\* A vertex' list has each of its faces as often as it should.
ListsFacesOf(v) ==
  LET list == Contents(vert_face_assoc[v]) IN
  /\ Len(list) = Valence(v)
  /\ \A f \in 0 .. Len(index) - 1 :
       Cardinality({k \in DOMAIN list : list[k] = f}) = CornersAt(f, v)

\* The normal of a vertex is computed from its faces, all of them and no other,
\* if it has fewer than the list is allocated for and the mesh has no more than
\* num_tris counts.
NormalsOfFewFaces ==
  pc = "normals" /\ tri = num_tris /\ num_tris = Len(index) =>
    \A v \in Corners(index) : Valence(v) < InitialElements => ListsFacesOf(v)

\* "Re-compute per-vertex normals" (mesh.h): the same for every vertex.
NormalsOfAllFaces ==
  pc = "normals" /\ tri = num_tris => \A v \in Corners(index) : ListsFacesOf(v)
=============================================================================
