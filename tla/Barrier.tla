------------------------------ MODULE Barrier ------------------------------
(***************************************************************************)
(* tango.core.sync.Barrier: wait() counts its callers down and lets them   *)
(* go in groups of m_limit.  A thread remembers the number of its group    *)
(* and sleeps on a condition variable until m_group is another one.        *)
(*                                                                         *)
(* wait() is synchronized(m_lock), so an action is a critical section up   *)
(* to the return or to Condition.wait, which releases m_lock.              *)
(***************************************************************************)
EXTENDS Integers, FiniteSets

CONSTANTS
    Threads,        \* the threads that call wait(), again and again
    Limit,          \* m_limit, which the constructor sets once
    GroupMod        \* m_group is a uint: it counts modulo 2^32

ASSUME ThreadsFinite == IsFiniteSet(Threads)
ASSUME LimitPositive == Limit \in Nat \ {0}
ASSUME GroupModSize  == GroupMod \in Nat /\ GroupMod > 1

VARIABLES
    inside,         \* threads in the while loop of wait()
    group,          \* their local variable of that name
    m_cond,         \* those of them blocked in m_cond.wait()
    m_group,
    m_count

vars == <<inside, group, m_cond, m_group, m_count>>

Init ==
    /\ inside = {}
    /\ group = [t \in Threads |-> 0]
    /\ m_cond = {}
    /\ m_group = 0
    /\ m_count = Limit

\* The bound of the model: a woken thread is scheduled before GroupMod more
\* groups have passed, so no group number in use comes round again.
NotLapped == \A t \in inside : group[t] # (m_group + 1) % GroupMod

\* wait() of a thread that does not complete its group.
Arrive(t) ==
    /\ t \notin inside
    /\ m_count - 1 # 0
    /\ m_count' = m_count - 1
    /\ group' = [group EXCEPT ![t] = m_group]
    /\ inside' = inside \cup {t}
    /\ m_cond' = m_cond \cup {t}
    /\ UNCHANGED m_group

\* Mutant: notify() in the place of notifyAll().
Complete_NotifyOne(t) ==
    /\ t \notin inside
    /\ m_count - 1 = 0
    /\ NotLapped
    /\ m_group' = (m_group + 1) % GroupMod
    /\ m_count' = Limit
    /\ IF m_cond = {} THEN m_cond' = {} ELSE \E u \in m_cond : m_cond' = m_cond \ {u}
    /\ UNCHANGED <<inside, group>>

\* wait() of the thread that completes its group: it wakes the others and
\* passes, m_group no longer being its own.
Complete(t) ==
    /\ t \notin inside
    /\ m_count - 1 = 0
    /\ NotLapped
    /\ m_group' = (m_group + 1) % GroupMod
    /\ m_count' = Limit
    /\ m_cond' = {}
    /\ UNCHANGED <<inside, group>>

\* Mutant: if in the place of while, a spurious wakeup passes.
Leave_NoLoop(t) ==
    /\ t \in inside \ m_cond
    /\ inside' = inside \ {t}
    /\ UNCHANGED <<group, m_cond, m_group, m_count>>

\* The wait on the condition returned and the group has passed.
Leave(t) ==
    /\ t \in inside \ m_cond
    /\ group[t] # m_group
    /\ inside' = inside \ {t}
    /\ UNCHANGED <<group, m_cond, m_group, m_count>>

\* The wait on the condition returned too early.
WaitAgain(t) ==
    /\ t \in inside \ m_cond
    /\ group[t] = m_group
    /\ m_cond' = m_cond \cup {t}
    /\ UNCHANGED <<inside, group, m_group, m_count>>

\* pthread_cond_wait may return although nobody notified.
SpuriousWakeup(t) ==
    /\ t \in m_cond
    /\ m_cond' = m_cond \ {t}
    /\ UNCHANGED <<inside, group, m_group, m_count>>

Next == \E t \in Threads :
    Arrive(t) \/ Complete(t) \/ Leave(t) \/ WaitAgain(t) \/ SpuriousWakeup(t)

Spec == Init /\ [][Next]_vars

\* A thread that is awake gets m_lock in the end.  Nobody has to arrive.
Fairness == \A t \in Threads : WF_vars(Leave(t) \/ WaitAgain(t))

FairSpec == Spec /\ Fairness

-----------------------------------------------------------------------------
(* Properties                                                              *)

\* The threads whose group is still open, and those whose group has passed.
Gathering == {t \in inside : group[t] = m_group}
Leaving   == {t \in inside : group[t] # m_group}

TypeOK ==
    /\ inside \subseteq Threads
    /\ group \in [Threads -> 0 .. GroupMod - 1]
    /\ m_cond \subseteq inside
    /\ m_group \in 0 .. GroupMod - 1
    /\ m_count \in 1 .. Limit

\* The countdown is the room left in the open group, however many threads of
\* earlier groups are still on their way out of wait().
CountAgrees == m_count = Limit - Cardinality(Gathering)

\* A thread whose group has passed is not asleep: no wakeup is lost.
NobodyLeftAsleep == m_cond \cap Leaving = {}

\* "threads may only travel in groups of a specific size" (class comment).
GB == INSTANCE GroupBarrier WITH gathering <- Gathering, leaving <- Leaving
ImplementsGroupBarrier == GB!Spec
ImplementsEveryoneLeaves == GB!EveryoneLeaves
=============================================================================
