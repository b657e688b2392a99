---------------------------- MODULE MCThreadPipe ----------------------------
(* Model checking instance of ThreadPipe. *)
EXTENDS ThreadPipe, TLC
=============================================================================
