------------------------- MODULE ConditionVariable -------------------------
(***************************************************************************)
(* What a condition variable promises: a notification is for threads that  *)
(* were waiting when it was sent.  It lets one of them (or all) return,    *)
(* and a thread that starts to wait later cannot take it from them.  Who   *)
(* waits without a period returns for a notification and for nothing else. *)
(***************************************************************************)
EXTENDS Integers, FiniteSets

CONSTANTS
    Waiters,
    Timed           \* those of them whose waits have a period

VARIABLES
    waiting,        \* the threads that wait
    due             \* how many of them have been notified and must return

cvars == <<waiting, due>>

Init == waiting = {} /\ due = 0

\* Whoever starts to wait lets the notified ones go first.
Enter(t) ==
    /\ t \notin waiting
    /\ due = 0
    /\ waiting' = waiting \cup {t}
    /\ UNCHANGED due

NotifyOne ==
    /\ due < Cardinality(waiting)
    /\ due' = due + 1
    /\ UNCHANGED waiting

NotifyAll ==
    /\ due < Cardinality(waiting)
    /\ due' = Cardinality(waiting)
    /\ UNCHANGED waiting

Return(t) ==
    /\ t \in waiting
    /\ due > 0
    /\ waiting' = waiting \ {t}
    /\ due' = due - 1

\* The time of a wait elapses; a notification that nobody else could use is
\* spent with it.
Expire(t) ==
    /\ t \in Timed \cap waiting
    /\ waiting' = waiting \ {t}
    /\ due' = IF due < Cardinality(waiting) THEN due ELSE due - 1

Next == \/ \E t \in Waiters : Enter(t) \/ Return(t) \/ Expire(t)
        \/ NotifyOne \/ NotifyAll

Spec == Init /\ [][Next]_cvars

\* While notifications are due, somebody returns.
Prompt == WF_cvars(\E t \in Waiters : Return(t))
=============================================================================
