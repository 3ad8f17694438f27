---------------------------- MODULE MCRenderList ----------------------------
(* One list of two slots and three instances: a list can overflow, and empty  *)
(* from its middle.  A render target stands for the resources that an         *)
(* instance points at, and its texture for what these point at.               *)
EXTENDS RenderList, TLC

CONSTANTS target, texture

Kinds == (target :> "target") @@ (texture :> "texture")
Alike == Permutations(List) \cup Permutations(Instance)
=============================================================================
