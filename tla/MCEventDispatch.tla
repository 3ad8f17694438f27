--------------------------- MODULE MCEventDispatch ---------------------------
(* Two events, one handler of the script's own, and two components of one     *)
(* class, which share their handlers.                                         *)
EXTENDS EventDispatch, TLC

CONSTANTS e1, e2, tickFn, advanceFn

Handlers == [c \in Component |-> (e1 :> tickFn) @@ (e2 :> advanceFn)]
Alike == Permutations(Component) \cup Permutations(Name)
=============================================================================
