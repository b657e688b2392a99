----------------------------- MODULE MCBarrier -----------------------------
(* Model checking instance of Barrier.  Its run checks liveness, so the threads,
   interchangeable as they are, are not made a symmetry set. *)
EXTENDS Barrier, TLC

=============================================================================
