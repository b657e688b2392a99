---------------------------- MODULE StepPrograms ----------------------------
(***************************************************************************)
(* C functions as sequences of steps.  The runtime's locks exist in many   *)
(* copies, one for each compiler and operating system, which are supposed  *)
(* to do the same; what could tell them apart is the order of their steps. *)
(* A function of a copy is the sequence of what it does to shared memory,  *)
(* one step for one statement that another thread may see.                 *)
(***************************************************************************)
EXTENDS Integers

\* A statement.
Do(what) == [do |-> what, skip |-> 0]

\* if (cond) { the next n steps }
If(cond, n) == [do |-> cond, skip |-> n]

\* The last statement of a loop, whose test is n steps back.
Last(what, n) == [do |-> what, skip |-> -(n + 1)]
=============================================================================
