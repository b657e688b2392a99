---------------------------- MODULE GroupBarrier ----------------------------
(***************************************************************************)
(* What a barrier promises: threads gather until there are Limit of them,  *)
(* and only then does the whole group pass.  Threads of a group that has   *)
(* passed may still be on their way out while the next group gathers.      *)
(***************************************************************************)
EXTENDS Integers, FiniteSets

CONSTANTS Threads, Limit

VARIABLES
    gathering,      \* threads of the group that is not complete yet
    leaving         \* threads whose group is complete and who have not left

gvars == <<gathering, leaving>>

Init == gathering = {} /\ leaving = {}

Gather(t) ==
    /\ t \notin gathering \cup leaving
    /\ Cardinality(gathering) < Limit - 1
    /\ gathering' = gathering \cup {t}
    /\ UNCHANGED leaving

\* The last of a group passes at once and sets the others free.
Pass(t) ==
    /\ t \notin gathering \cup leaving
    /\ Cardinality(gathering) = Limit - 1
    /\ leaving' = leaving \cup gathering
    /\ gathering' = {}

Leave(t) ==
    /\ t \in leaving
    /\ leaving' = leaving \ {t}
    /\ UNCHANGED gathering

Next == \E t \in Threads : Gather(t) \/ Pass(t) \/ Leave(t)

Spec == Init /\ [][Next]_gvars

\* Nobody whose group is complete stays behind.
EveryoneLeaves == \A t \in Threads : WF_gvars(Leave(t))
=============================================================================
