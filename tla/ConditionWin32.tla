--------------------------- MODULE ConditionWin32 ---------------------------
(***************************************************************************)
(* The version(Win32) implementation of tango.core.sync.Condition: a       *)
(* condition variable made of two semaphores, a critical section and three *)
(* counters ("Algorithm 8c").                                              *)
(*                                                                         *)
(* m_blockLock is a gate: a notification that finds no other in progress   *)
(* closes it, so that nobody starts to wait while notified threads are on  *)
(* their way out, and the last of these opens it again.                    *)
(*                                                                         *)
(* One action is what a thread does between two operations on a semaphore, *)
(* m_assocMutex or m_unblockLock that may block or be seen by others.      *)
(* Callers of wait hold m_assocMutex; notify is called without it, which   *)
(* allows every order that a caller holding it could meet.                 *)
(***************************************************************************)
EXTENDS Integers, FiniteSets

CONSTANTS
    Waiters,        \* threads that call wait()
    Timed,          \* those of them that call wait(period)
    Notifiers,      \* threads that call notify() and notifyAll()
    None,           \* nobody holds the mutex
    TimedAlone,     \* does whoever waits with a period do so alone?
    GoneLimit,      \* int.max / 2
    GoneBound       \* bound of the model: nobody calls wait when so many have gone

ASSUME Sets   == IsFiniteSet(Waiters) /\ Timed \subseteq Waiters /\ Waiters \cap Notifiers = {}
ASSUME Usage  == TimedAlone \in BOOLEAN
ASSUME Limits == GoneLimit \in Nat \ {0} /\ GoneBound \in Nat

Threads == Waiters \cup Notifiers
ASSUME NoneIsNobody == None \notin Threads

VARIABLES
    at,                     \* where each thread is
    timedOut,               \* the waiters' local variable of that name
    numWaitersGone,         \* the same
    assocMutex,             \* who holds m_assocMutex, or None
    unblockLock,            \* who holds m_unblockLock across an action, or None
    m_blockLock,            \* count of the semaphore: 1 when the gate is open
    m_blockQueue,           \* count of the semaphore
    m_numWaitersGone,
    m_numWaitersBlocked,
    m_numWaitersToUnblock,
    assertFailed            \* has an assertion of the code failed?

locals   == <<timedOut, numWaitersGone>>
counters == <<m_numWaitersGone, m_numWaitersBlocked, m_numWaitersToUnblock>>
vars == <<at, locals, assocMutex, unblockLock, m_blockLock, m_blockQueue, counters,
          assertFailed>>

Init ==
    /\ at = [t \in Threads |-> "out"]
    /\ timedOut = [t \in Waiters |-> FALSE]
    /\ numWaitersGone = [t \in Waiters |-> 0]
    /\ assocMutex = None
    /\ unblockLock = None
    /\ m_blockLock = 1
    /\ m_blockQueue = 0
    /\ m_numWaitersGone = 0
    /\ m_numWaitersBlocked = 0
    /\ m_numWaitersToUnblock = 0
    /\ assertFailed = FALSE

Goto(t, from, to) == at[t] = from /\ at' = [at EXCEPT ![t] = to]

\* ReleaseSemaphore(m_blockQueue, 1) by t: the system hands the count to a thread
\* that waits for it, if there is one, be it in wait or clearing the queue.
ReleaseQueue(t, to) ==
    LET blocked == {u \in Waiters : at[u] \in {"queue", "clear"}} IN
    \/ /\ blocked = {}
       /\ m_blockQueue' = m_blockQueue + 1
       /\ at' = [at EXCEPT ![t] = to]
       /\ UNCHANGED numWaitersGone
    \/ \E u \in blocked :
       /\ numWaitersGone' = IF at[u] = "queue" THEN numWaitersGone
                            ELSE [numWaitersGone EXCEPT ![u] = @ - 1]
       /\ at' = [at EXCEPT ![t] = to,
                           ![u] = CASE at[u] = "queue" -> "woken"
                                    [] numWaitersGone[u] > 1 -> "clear"
                                    [] OTHER -> "open"]
       /\ UNCHANGED m_blockQueue

-----------------------------------------------------------------------------
(* timedWait                                                               *)

\* How the condition is used: with TimedAlone a wait with a period does not
\* overlap with any other wait.
MayWait(t) ==
    /\ TimedAlone => \A u \in Waiters \ {t} : t \in Timed \/ u \in Timed => at[u] = "out"
    /\ m_numWaitersGone < GoneBound

\* The caller has locked m_assocMutex and calls wait.
CallWait(t) ==
    /\ MayWait(t)
    /\ assocMutex = None
    /\ Goto(t, "out", "gate")
    /\ assocMutex' = t
    /\ UNCHANGED <<locals, unblockLock, m_blockLock, m_blockQueue, counters, assertFailed>>

PassGate(t) ==
    /\ m_blockLock > 0
    /\ Goto(t, "gate", "count")
    /\ m_blockLock' = m_blockLock - 1
    /\ UNCHANGED <<locals, assocMutex, unblockLock, m_blockQueue, counters, assertFailed>>

\* Counts itself, opens the gate, unlocks the mutex, and waits for m_blockQueue.
Block(t) ==
    /\ at[t] = "count"
    /\ m_numWaitersBlocked' = m_numWaitersBlocked + 1
    /\ m_blockLock' = m_blockLock + 1
    /\ assocMutex' = None
    /\ timedOut' = [timedOut EXCEPT ![t] = FALSE]
    /\ numWaitersGone' = [numWaitersGone EXCEPT ![t] = 0]
    /\ \/ /\ m_blockQueue = 0
          /\ at' = [at EXCEPT ![t] = "queue"]
          /\ UNCHANGED m_blockQueue
       \/ /\ m_blockQueue > 0
          /\ at' = [at EXCEPT ![t] = "woken"]
          /\ m_blockQueue' = m_blockQueue - 1
    /\ UNCHANGED <<unblockLock, m_numWaitersGone, m_numWaitersToUnblock, assertFailed>>

TimeOut(t) ==
    /\ t \in Timed
    /\ Goto(t, "queue", "woken")
    /\ timedOut' = [timedOut EXCEPT ![t] = TRUE]
    /\ UNCHANGED <<numWaitersGone, assocMutex, unblockLock, m_blockLock, m_blockQueue,
                   counters, assertFailed>>

\* Mutant: the gate, opened already, is opened once more below.
SignalsLeft_OpensTwice(expired, gateOpened) == IF expired THEN 0 ELSE m_numWaitersToUnblock

\* numSignalsLeft after the tests: 0 where nothing is left to do.
SignalsLeft(expired, gateOpened) ==
    IF expired \/ gateOpened THEN 0 ELSE m_numWaitersToUnblock

UnblockedOne == m_numWaitersToUnblock - 1

\* m_unblockLock held, notifications are in progress.
Unblock(t) ==
    LET expired    == timedOut[t] /\ m_numWaitersBlocked # 0
        blocked    == IF expired THEN m_numWaitersBlocked - 1 ELSE m_numWaitersBlocked
        gone       == IF timedOut[t] /\ ~expired THEN 1 ELSE m_numWaitersGone
        last       == m_numWaitersToUnblock = 1
        gateOpened == last /\ blocked # 0
        signalsLeft == SignalsLeft(expired, gateOpened)
    IN
    /\ at[t] = "woken" /\ unblockLock = None
    /\ m_numWaitersToUnblock # 0
    /\ m_numWaitersBlocked' = blocked
    /\ m_numWaitersToUnblock' = UnblockedOne
    /\ m_blockLock' = IF gateOpened THEN m_blockLock + 1 ELSE m_blockLock
    /\ m_numWaitersGone' = IF last /\ blocked = 0 THEN 0 ELSE gone
    /\ numWaitersGone' = [numWaitersGone EXCEPT ![t] = IF last /\ blocked = 0 THEN gone ELSE 0]
    /\ at' = [at EXCEPT ![t] = CASE signalsLeft = 0 -> "relock"
                                 [] signalsLeft = 1 -> "clearOrOpen"
                                 [] OTHER           -> "post"]
    /\ UNCHANGED <<timedOut, assocMutex, unblockLock, m_blockQueue, assertFailed>>

\* m_unblockLock held, no notification in progress: a time-out, or a wakeup
\* that was meant for a thread that timed out.
CountGone(t) ==
    /\ at[t] = "woken" /\ unblockLock = None
    /\ m_numWaitersToUnblock = 0
    /\ m_numWaitersGone' = m_numWaitersGone + 1
    /\ IF m_numWaitersGone + 1 = GoneLimit
       THEN at' = [at EXCEPT ![t] = "forget"] /\ unblockLock' = t
       ELSE at' = [at EXCEPT ![t] = "relock"] /\ UNCHANGED unblockLock
    /\ UNCHANGED <<locals, assocMutex, m_blockLock, m_blockQueue, m_numWaitersBlocked,
                   m_numWaitersToUnblock, assertFailed>>

\* Too many have gone: the gate is taken and released, and the assertion that
\* ReleaseSemaphore returned WAIT_OBJECT_0, which is 0 and so never what a
\* successful ReleaseSemaphore returns, throws before the count is reset.
ForgetGone(t) ==
    /\ at[t] = "forget"
    /\ m_blockLock > 0
    /\ m_numWaitersBlocked' = m_numWaitersBlocked - m_numWaitersGone
    /\ assertFailed' = TRUE
    /\ unblockLock' = None
    /\ at' = [at EXCEPT ![t] = "relock"]
    /\ UNCHANGED <<locals, assocMutex, m_blockLock, m_blockQueue, m_numWaitersGone,
                   m_numWaitersToUnblock>>

\* Mutant: a wakeup that nobody waits for any more stays in the queue.
Clear_Left(t) ==
    /\ Goto(t, "clearOrOpen", "open")
    /\ numWaitersGone' = [numWaitersGone EXCEPT ![t] = 0]
    /\ UNCHANGED <<timedOut, assocMutex, unblockLock, m_blockLock, m_blockQueue, counters,
                   assertFailed>>

\* The last one clears the queue of wakeups nobody waits for any more ...
Clear(t) ==
    /\ at[t] = "clearOrOpen"
    /\ LET n == IF numWaitersGone[t] < m_blockQueue THEN numWaitersGone[t] ELSE m_blockQueue IN
       /\ m_blockQueue' = m_blockQueue - n
       /\ numWaitersGone' = [numWaitersGone EXCEPT ![t] = @ - n]
       /\ at' = [at EXCEPT ![t] = IF numWaitersGone[t] = n THEN "open" ELSE "clear"]
    /\ UNCHANGED <<timedOut, assocMutex, unblockLock, m_blockLock, counters, assertFailed>>

\* Mutant: the gate stays shut.
OpenGate_Shut(t) ==
    /\ Goto(t, "open", "relock")
    /\ UNCHANGED <<locals, assocMutex, unblockLock, m_blockLock, m_blockQueue, counters,
                   assertFailed>>

\* ... and opens the gate.
OpenGate(t) ==
    /\ Goto(t, "open", "relock")
    /\ m_blockLock' = m_blockLock + 1
    /\ UNCHANGED <<locals, assocMutex, unblockLock, m_blockQueue, counters, assertFailed>>

\* Mutant: the next waiter is not woken.
UnblockNext_Silent(t) ==
    /\ Goto(t, "post", "relock")
    /\ UNCHANGED <<locals, assocMutex, unblockLock, m_blockLock, m_blockQueue, counters,
                   assertFailed>>

\* The others wake the next waiter.
UnblockNext(t) ==
    /\ at[t] = "post"
    /\ ReleaseQueue(t, "relock")
    /\ UNCHANGED <<timedOut, assocMutex, unblockLock, m_blockLock, counters, assertFailed>>

\* m_assocMutex.lock(); then wait returns and the caller unlocks.
ReturnFromWait(t) ==
    /\ assocMutex = None
    /\ Goto(t, "relock", "out")
    /\ UNCHANGED <<locals, assocMutex, unblockLock, m_blockLock, m_blockQueue, counters,
                   assertFailed>>

-----------------------------------------------------------------------------
(* notify(all)                                                             *)

\* Mutant: the waiters notified are counted as blocked still.
NotifyMore_StillBlocked(t, all) ==
    LET n == IF all THEN m_numWaitersBlocked ELSE 1 IN
    /\ at[t] = "out" /\ unblockLock = None
    /\ m_numWaitersToUnblock # 0
    /\ m_numWaitersBlocked # 0
    /\ m_numWaitersToUnblock' = m_numWaitersToUnblock + n
    /\ UNCHANGED <<at, locals, assocMutex, unblockLock, m_blockLock, m_blockQueue,
                   m_numWaitersGone, m_numWaitersBlocked, assertFailed>>

\* A notification is in progress: this one joins it.
NotifyMore(t, all) ==
    LET n == IF all THEN m_numWaitersBlocked ELSE 1 IN
    /\ at[t] = "out" /\ unblockLock = None
    /\ m_numWaitersToUnblock # 0
    /\ m_numWaitersBlocked # 0
    /\ m_numWaitersToUnblock' = m_numWaitersToUnblock + n
    /\ m_numWaitersBlocked' = m_numWaitersBlocked - n
    /\ UNCHANGED <<at, locals, assocMutex, unblockLock, m_blockLock, m_blockQueue,
                   m_numWaitersGone, assertFailed>>

\* The first one, if anybody waits, goes to close the gate inside m_unblockLock.
NotifyFirst(t, all) ==
    /\ unblockLock = None
    /\ m_numWaitersToUnblock = 0
    /\ m_numWaitersBlocked > m_numWaitersGone
    /\ Goto(t, "out", IF all THEN "closeAll" ELSE "closeOne")
    /\ unblockLock' = t
    /\ UNCHANGED <<locals, assocMutex, m_blockLock, m_blockQueue, counters, assertFailed>>

\* Mutant: the waiters that have gone are notified too.
StillBlocked_Gone == m_numWaitersBlocked

\* The waiters that have not gone.
StillBlocked == m_numWaitersBlocked - m_numWaitersGone

\* Mutant: the gate is not closed.
GateClosed_Open == m_blockLock

GateClosed == m_blockLock - 1

CloseGate(t) ==
    LET blocked == StillBlocked
        n       == IF at[t] = "closeAll" THEN blocked ELSE 1 IN
    /\ at[t] \in {"closeAll", "closeOne"}
    /\ m_blockLock > 0
    /\ m_blockLock' = GateClosed
    /\ m_numWaitersGone' = 0
    /\ m_numWaitersToUnblock' = n
    /\ m_numWaitersBlocked' = blocked - n
    /\ unblockLock' = None
    /\ at' = [at EXCEPT ![t] = "wakeFirst"]
    /\ UNCHANGED <<locals, assocMutex, m_blockQueue, assertFailed>>

WakeFirst(t) ==
    /\ at[t] = "wakeFirst"
    /\ ReleaseQueue(t, "out")
    /\ UNCHANGED <<timedOut, assocMutex, unblockLock, m_blockLock, counters, assertFailed>>

-----------------------------------------------------------------------------
WaiterStep(t) ==
    \/ PassGate(t) \/ Block(t) \/ Unblock(t) \/ CountGone(t) \/ ForgetGone(t)
    \/ Clear(t) \/ OpenGate(t) \/ UnblockNext(t) \/ ReturnFromWait(t)

NotifierStep(t) == CloseGate(t) \/ WakeFirst(t)

Next ==
    \/ \E t \in Waiters : CallWait(t) \/ TimeOut(t) \/ WaiterStep(t)
    \/ \E t \in Notifiers :
          \/ \E all \in BOOLEAN : NotifyFirst(t, all) \/ NotifyMore(t, all)
          \/ NotifierStep(t)

Spec == Init /\ [][Next]_vars

\* A thread that can run does, the system serves those who wait for a semaphore
\* or a mutex in turn, and a period elapses.  Nobody has to call anything.
Fairness ==
    /\ \A t \in Waiters : SF_vars(WaiterStep(t)) /\ WF_vars(TimeOut(t))
    /\ \A t \in Notifiers : SF_vars(NotifierStep(t))

FairSpec == Spec /\ Fairness

-----------------------------------------------------------------------------
(* Properties                                                              *)

TypeOK ==
    /\ at \in [Threads -> {"out", "gate", "count", "queue", "woken", "clearOrOpen", "clear",
                           "open", "post", "relock", "forget",
                           "closeAll", "closeOne", "wakeFirst"}]
    /\ timedOut \in [Waiters -> BOOLEAN]
    /\ numWaitersGone \in [Waiters -> Nat]
    /\ {assocMutex, unblockLock} \subseteq Threads \cup {None}
    /\ m_blockLock \in 0 .. 1
    /\ m_blockQueue \in Nat
    /\ m_numWaitersGone \in Nat
    /\ m_numWaitersBlocked \in Int /\ (assertFailed \/ m_numWaitersBlocked >= 0)
    /\ m_numWaitersToUnblock \in Nat
    /\ assertFailed \in BOOLEAN

\* Waiters that have not yet said that they are leaving.
Waiting == {t \in Waiters : at[t] \in {"queue", "woken"}}

\* The counters account for every waiter, until an assertion has cut the code
\* that keeps them short.
WaitersAccounted ==
    assertFailed
    \/ m_numWaitersBlocked + m_numWaitersToUnblock - m_numWaitersGone = Cardinality(Waiting)

\* The gate is shut exactly while somebody is there whose job it is to open it.
GateKept ==
    m_blockLock = 0 <=>
        \/ m_numWaitersToUnblock # 0
        \/ \E t \in Waiters : at[t] \in {"count", "clearOrOpen", "clear", "open"}

\* The code is a condition variable, and one that uses the notifications due.
CV == INSTANCE ConditionVariable WITH waiting <- Waiting, due <- m_numWaitersToUnblock
ImplementsConditionVariable == CV!Spec /\ CV!Prompt

\* Who calls wait gets to wait: notified threads let it through.
GateOpens == \A t \in Waiters : at[t] = "gate" ~> at[t] # "gate"

\* "Suspends the calling thread until a notification occurs or until the supplied
\* time period has elapsed": wait(period) returns.
TimedWaitReturns == \A t \in Timed : at[t] # "out" ~> at[t] = "out"
=============================================================================
