-------------------------- MODULE MCReadWriteMutex --------------------------
(* Model checking instance of ReadWriteMutex.  Its runs check liveness, so the threads,
   interchangeable as they are, are not made a symmetry set. *)
EXTENDS ReadWriteMutex, TLC

=============================================================================
