--------------------------- MODULE MCMainloopClock ---------------------------
(* A clock whose unit is one and a half nanoseconds and a tick of four, so *)
(* that both conversions round.                                             *)
EXTENDS MainloopClock
=============================================================================
