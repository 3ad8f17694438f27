--------------------------- MODULE MCScriptFrames ---------------------------
(* Script frames on small bounds: a handful of iterations, ticks and strings. *)
EXTENDS ScriptFrames
=============================================================================
