--------------------------- MODULE RecursiveLocks ---------------------------
(***************************************************************************)
(* What synchronized promises: things that a thread may be inside of, as   *)
(* often as it likes, while no other thread is.                            *)
(***************************************************************************)
EXTENDS Integers

CONSTANTS Threads, Things

VARIABLE holds      \* holds[t][x]: how often t has entered x and not left it

Free == [t \in Threads |-> [x \in Things |-> 0]]

Init == holds = Free

Enter(t, x) ==
    /\ \A u \in Threads \ {t} : holds[u][x] = 0
    /\ holds' = [holds EXCEPT ![t][x] = @ + 1]

Leave(t, x) ==
    /\ holds[t][x] > 0
    /\ holds' = [holds EXCEPT ![t][x] = @ - 1]

Next == \E t \in Threads, x \in Things : Enter(t, x) \/ Leave(t, x)

Spec == Init /\ [][Next]_holds
=============================================================================
