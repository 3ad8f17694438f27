---------------------------- MODULE MCRingBuffer ----------------------------
(* Three threads on a ring buffer of Size slots, each free to reserve and to  *)
(* retrieve, as main, UI and script threads are.                              *)
EXTENDS RingBuffer
=============================================================================
