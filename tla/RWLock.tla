------------------------------- MODULE RWLock -------------------------------
(***************************************************************************)
(* What a reader/writer lock with a queueing policy promises its callers:  *)
(* no counters, no condition variables, no wakeups that could get lost.    *)
(* ReadWriteMutex.tla (tango.core.sync.ReadWriteMutex) is shown to         *)
(* implement this module.                                                  *)
(***************************************************************************)
EXTENDS Integers

CONSTANT Threads    \* the threads that share the lock

VARIABLES
    policy,         \* who goes first, as long as the lock exists
    at              \* what each thread is doing with the lock

vars == <<policy, at>>

Places == {"outside", "readerWait", "reading", "writerWait", "writing"}

InPlace(p) == {t \in Threads : at[t] = p}

Move(t, from, to) ==
    at[t] \in from /\ at' = [at EXCEPT ![t] = to] /\ UNCHANGED policy

Init == policy \in {"PREFER_READERS", "PREFER_WRITERS"} /\ at = [t \in Threads |-> "outside"]

Queue(t) == \E p \in {"readerWait", "writerWait"} : Move(t, {"outside"}, p)

\* Queueing ends without the lock: the attempt was abandoned.
Abandon(t) == Move(t, {"readerWait", "writerWait"}, "outside")

\* Readers share; under PREFER_WRITERS none overtakes a queued writer.
GrantRead(t) ==
    /\ InPlace("writing") = {}
    /\ policy = "PREFER_WRITERS" => InPlace("writerWait") = {}
    /\ Move(t, {"outside", "readerWait"}, "reading")

\* A writer is alone; under PREFER_READERS none overtakes a queued reader.
GrantWrite(t) ==
    /\ InPlace("writing") = {}
    /\ InPlace("reading") = {}
    /\ policy = "PREFER_READERS" => InPlace("readerWait") = {}
    /\ Move(t, {"outside", "writerWait"}, "writing")

Release(t) == Move(t, {"reading", "writing"}, "outside")

Next == \E t \in Threads :
            Queue(t) \/ Abandon(t) \/ GrantRead(t) \/ GrantWrite(t) \/ Release(t)

Spec == Init /\ [][Next]_vars

-----------------------------------------------------------------------------
(* A queued reader that may be let in is let in; while some queued writer  *)
(* may be let in, one of them is (which one is nobody's promise).          *)
Serve == /\ \A t \in Threads : WF_vars(at[t] = "readerWait" /\ GrantRead(t))
         /\ WF_vars(\E t \in Threads : at[t] = "writerWait" /\ GrantWrite(t))

FairSpec == Spec /\ Serve
=============================================================================
