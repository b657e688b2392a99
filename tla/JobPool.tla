------------------------------ MODULE JobPool ------------------------------
(***************************************************************************)
(* What a pool of workers promises: a job that was handed in is pending,   *)
(* then runs, then is finished, once; it is dropped only after the pool    *)
(* was closed, and none starts after that.                                 *)
(***************************************************************************)
EXTENDS Integers, FiniteSets

CONSTANTS Jobs, Capacity

VARIABLES pending, running, finished, closed

pvars == <<pending, running, finished, closed>>

Init == pending = {} /\ running = {} /\ finished = {} /\ closed = FALSE

Submit(j) ==
    /\ j \notin pending \cup running \cup finished
    /\ pending' = pending \cup {j}
    /\ UNCHANGED <<running, finished, closed>>

Start(j) ==
    /\ ~closed
    /\ j \in pending
    /\ Cardinality(running) < Capacity
    /\ pending' = pending \ {j}
    /\ running' = running \cup {j}
    /\ UNCHANGED <<finished, closed>>

Complete(j) ==
    /\ j \in running
    /\ running' = running \ {j}
    /\ finished' = finished \cup {j}
    /\ UNCHANGED <<pending, closed>>

Close == ~closed /\ closed' = TRUE /\ UNCHANGED <<pending, running, finished>>

Drop == /\ closed
        /\ pending' \subseteq pending
        /\ UNCHANGED <<running, finished, closed>>

Next == \/ \E j \in Jobs : Submit(j) \/ Start(j) \/ Complete(j)
        \/ Close \/ Drop

Spec == Init /\ [][Next]_pvars

\* While a job is pending, a worker free and the pool open, some job starts.
Diligent == WF_pvars(\E j \in Jobs : Start(j))
=============================================================================
