-------------------------- MODULE MCProcessManager --------------------------
(* As many processes as there are ids, all alike. *)
EXTENDS ProcessManager, TLC

Contexts == Permutations(Process)
=============================================================================
