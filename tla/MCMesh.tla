------------------------------- MODULE MCMesh -------------------------------
EXTENDS Mesh

\* One face and its back, and a face with a corner twice.
Face == <<0, 1, 2>>
Backside == <<2, 1, 0>>
Thin == <<0, 0, 3>>

\* In the fourth list vertex 0 has six corners, in those before three or fewer.
\* Of the last list's faces num_tris counts one.
MCFaceLists ==
  {<<Face>>, <<Face, Backside>>, <<Thin, Backside>>, <<Face, Backside, Thin, Thin>>,
   <<Face, Face, Backside, Backside, Thin, Thin>>}
=============================================================================
