-------------------------- MODULE MCConditionWin32 --------------------------
(* Model checking instance of ConditionWin32. *)
EXTENDS ConditionWin32, TLC
=============================================================================
