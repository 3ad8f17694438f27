-------------------------- MODULE MCConstantBuffer --------------------------
EXTENDS ConstantBuffer, TLC

\* A sampler, a vector of two, and a sampler.
MCKindOf == 0 :> "TEX" @@ 1 :> "FLOAT" @@ 2 :> "TEX"
MCSizeOf == 0 :> 1 @@ 1 :> 2 @@ 2 :> 1
\* A name that is also a place of the table of sources.
MCTexture == {1}
Symmetry == Permutations(Source)
=============================================================================
