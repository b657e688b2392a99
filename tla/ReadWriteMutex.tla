--------------------------- MODULE ReadWriteMutex ---------------------------
(***************************************************************************)
(* tango.core.sync.ReadWriteMutex: a reader/writer lock made of one mutex, *)
(* two condition variables and four counters.                              *)
(*                                                                         *)
(* Every access to the counters is inside synchronized(m_commonMutex), so  *)
(* one action is one critical section: from acquiring m_commonMutex to     *)
(* releasing it, or to the Condition.wait that releases it.  A condition   *)
(* variable is the set of threads blocked in its wait (Mesa semantics); a  *)
(* thread whose wait ended has to re-acquire m_commonMutex and tests its   *)
(* loop condition again in an action of its own.                           *)
(*                                                                         *)
(* As the class comment requires, a thread does not take the lock again    *)
(* while it holds it, and unlocks what it locked.                          *)
(***************************************************************************)
EXTENDS Integers, FiniteSets

CONSTANTS
    Threads,            \* the threads that share the mutex
    WaitMayThrow        \* the policies for which a Condition.wait may throw
                        \* a SyncException

Policies == {"PREFER_READERS", "PREFER_WRITERS"}

ASSUME ThreadsFinite == IsFiniteSet(Threads)
ASSUME ThrowValue    == WaitMayThrow \subseteq Policies

VARIABLES
    m_policy,           \* what the constructor was given
    at,                 \* where each thread is: outside, in a lock() loop, inside
    m_readerQueue,      \* threads blocked in m_readerQueue.wait()
    m_writerQueue,      \* threads blocked in m_writerQueue.wait()
    m_numQueuedReaders,
    m_numActiveReaders,
    m_numQueuedWriters,
    m_numActiveWriters

queues   == <<m_readerQueue, m_writerQueue>>
readers  == <<m_numQueuedReaders, m_numActiveReaders>>
writers  == <<m_numQueuedWriters, m_numActiveWriters>>
vars     == <<m_policy, at, queues, readers, writers>>

Places == {"outside", "readerWait", "reading", "writerWait", "writing"}

InPlace(p) == {t \in Threads : at[t] = p}

Goto(t, from, to) == at[t] = from /\ at' = [at EXCEPT ![t] = to]

Init == /\ m_policy \in Policies
        /\ at = [t \in Threads |-> "outside"]
        /\ m_readerQueue = {}
        /\ m_writerQueue = {}
        /\ m_numQueuedReaders = 0
        /\ m_numActiveReaders = 0
        /\ m_numQueuedWriters = 0
        /\ m_numActiveWriters = 0

-----------------------------------------------------------------------------
(* Condition.notify and notifyAll: what POSIX promises of                  *)
(* pthread_cond_signal and pthread_cond_broadcast.                         *)

notify(queue, queueNext) ==
    \/ queue = {} /\ queueNext = {}
    \/ \E t \in queue : queueNext = queue \ {t}

notifyAll(queueNext) == queueNext = {}

\* A wait may also end although nobody notified.
SpuriousWakeup(t) ==
    /\ t \in m_readerQueue \cup m_writerQueue
    /\ m_readerQueue' = m_readerQueue \ {t}
    /\ m_writerQueue' = m_writerQueue \ {t}
    /\ UNCHANGED <<m_policy, at, readers, writers>>

-----------------------------------------------------------------------------
(* Reader                                                                  *)

\* Mutant: readers ignore the policy.
shouldQueueReader_NoPolicy == m_numActiveWriters > 0

shouldQueueReader ==
    \/ m_numActiveWriters > 0
    \/ m_policy = "PREFER_WRITERS" /\ m_numQueuedWriters > 0

\* lock(), entered with the loop condition false: queued for no longer than
\* the critical section lasts.
ReaderLock(t) ==
    /\ ~shouldQueueReader
    /\ Goto(t, "outside", "reading")
    /\ m_numActiveReaders' = m_numActiveReaders + 1
    /\ UNCHANGED <<m_policy, queues, m_numQueuedReaders, writers>>

\* lock(), entered with the loop condition true.
ReaderQueue(t) ==
    /\ shouldQueueReader
    /\ Goto(t, "outside", "readerWait")
    /\ m_numQueuedReaders' = m_numQueuedReaders + 1
    /\ m_readerQueue' = m_readerQueue \cup {t}
    /\ UNCHANGED <<m_policy, m_writerQueue, m_numActiveReaders, writers>>

\* The wait in lock() returned and the loop condition is false now.
ReaderAcquire(t) ==
    /\ t \notin m_readerQueue
    /\ ~shouldQueueReader
    /\ Goto(t, "readerWait", "reading")
    /\ m_numActiveReaders' = m_numActiveReaders + 1
    /\ m_numQueuedReaders' = m_numQueuedReaders - 1
    /\ UNCHANGED <<m_policy, queues, writers>>

\* The wait in lock() returned and the loop condition is still true.
ReaderWaitAgain(t) ==
    /\ at[t] = "readerWait" /\ t \notin m_readerQueue
    /\ shouldQueueReader
    /\ m_readerQueue' = m_readerQueue \cup {t}
    /\ UNCHANGED <<m_policy, at, m_writerQueue, readers, writers>>

\* Mutant: no scope(exit), the exception leaks the count.
ReaderWaitThrows_Leaks(t) ==
    /\ m_policy \in WaitMayThrow
    /\ t \notin m_readerQueue
    /\ shouldQueueReader
    /\ Goto(t, "readerWait", "outside")
    /\ UNCHANGED <<m_policy, queues, readers, writers>>

\* The next wait of the loop throws: scope(exit) runs, the lock is not taken.
ReaderWaitThrows(t) ==
    /\ m_policy \in WaitMayThrow
    /\ t \notin m_readerQueue
    /\ shouldQueueReader
    /\ Goto(t, "readerWait", "outside")
    /\ m_numQueuedReaders' = m_numQueuedReaders - 1
    /\ UNCHANGED <<m_policy, queues, m_numActiveReaders, writers>>

\* Mutant: the last reader leaves without a notify.
ReaderUnlock_Silent(t) ==
    /\ Goto(t, "reading", "outside")
    /\ m_numActiveReaders' = m_numActiveReaders - 1
    /\ UNCHANGED <<m_policy, queues, m_numQueuedReaders, writers>>

ReaderUnlock(t) ==
    /\ Goto(t, "reading", "outside")
    /\ m_numActiveReaders' = m_numActiveReaders - 1
    /\ IF m_numActiveReaders - 1 < 1 /\ m_numQueuedWriters > 0
       THEN notify(m_writerQueue, m_writerQueue')
       ELSE UNCHANGED m_writerQueue
    /\ UNCHANGED <<m_policy, m_readerQueue, m_numQueuedReaders, writers>>

\* tryLock() that returns true; returning false changes nothing.
ReaderTryLock(t) ==
    /\ ~shouldQueueReader
    /\ Goto(t, "outside", "reading")
    /\ m_numActiveReaders' = m_numActiveReaders + 1
    /\ UNCHANGED <<m_policy, queues, m_numQueuedReaders, writers>>

-----------------------------------------------------------------------------
(* Writer                                                                  *)

\* Mutant: writers wait for writers only.
shouldQueueWriter_IgnoresReaders ==
    \/ m_numActiveWriters > 0
    \/ m_policy = "PREFER_READERS" /\ m_numQueuedReaders > 0

\* Mutant: writers ignore the policy.
shouldQueueWriter_NoPolicy == m_numActiveWriters > 0 \/ m_numActiveReaders > 0

shouldQueueWriter ==
    \/ m_numActiveWriters > 0
    \/ m_numActiveReaders > 0
    \/ m_policy = "PREFER_READERS" /\ m_numQueuedReaders > 0

WriterLock(t) ==
    /\ ~shouldQueueWriter
    /\ Goto(t, "outside", "writing")
    /\ m_numActiveWriters' = m_numActiveWriters + 1
    /\ UNCHANGED <<m_policy, queues, readers, m_numQueuedWriters>>

WriterQueue(t) ==
    /\ shouldQueueWriter
    /\ Goto(t, "outside", "writerWait")
    /\ m_numQueuedWriters' = m_numQueuedWriters + 1
    /\ m_writerQueue' = m_writerQueue \cup {t}
    /\ UNCHANGED <<m_policy, m_readerQueue, readers, m_numActiveWriters>>

WriterAcquire(t) ==
    /\ t \notin m_writerQueue
    /\ ~shouldQueueWriter
    /\ Goto(t, "writerWait", "writing")
    /\ m_numActiveWriters' = m_numActiveWriters + 1
    /\ m_numQueuedWriters' = m_numQueuedWriters - 1
    /\ UNCHANGED <<m_policy, queues, readers>>

WriterWaitAgain(t) ==
    /\ at[t] = "writerWait" /\ t \notin m_writerQueue
    /\ shouldQueueWriter
    /\ m_writerQueue' = m_writerQueue \cup {t}
    /\ UNCHANGED <<m_policy, at, m_readerQueue, readers, writers>>

WriterWaitThrows(t) ==
    /\ m_policy \in WaitMayThrow
    /\ t \notin m_writerQueue
    /\ shouldQueueWriter
    /\ Goto(t, "writerWait", "outside")
    /\ m_numQueuedWriters' = m_numQueuedWriters - 1
    /\ UNCHANGED <<m_policy, queues, readers, m_numActiveWriters>>

\* Mutant: notify() where notifyAll() is due.
AlertReaders_One == notify(m_readerQueue, m_readerQueue') /\ UNCHANGED m_writerQueue

\* Whom the writer that leaves alerts, in the order its policy asks.
AlertReaders == notifyAll(m_readerQueue') /\ UNCHANGED m_writerQueue
AlertWriter  == notify(m_writerQueue, m_writerQueue') /\ UNCHANGED m_readerQueue

AlertOnWriterUnlock ==
    IF m_numQueuedReaders > 0 /\ (m_policy = "PREFER_READERS" \/ m_numQueuedWriters <= 0)
    THEN AlertReaders
    ELSE IF m_numQueuedWriters > 0 THEN AlertWriter ELSE UNCHANGED queues

WriterUnlock(t) ==
    /\ Goto(t, "writing", "outside")
    /\ m_numActiveWriters' = m_numActiveWriters - 1
    /\ IF m_numActiveWriters - 1 < 1 THEN AlertOnWriterUnlock ELSE UNCHANGED queues
    /\ UNCHANGED <<m_policy, readers, m_numQueuedWriters>>

WriterTryLock(t) ==
    /\ ~shouldQueueWriter
    /\ Goto(t, "outside", "writing")
    /\ m_numActiveWriters' = m_numActiveWriters + 1
    /\ UNCHANGED <<m_policy, queues, readers, m_numQueuedWriters>>

-----------------------------------------------------------------------------
ReaderStep(t) ==
    \/ ReaderLock(t) \/ ReaderQueue(t) \/ ReaderAcquire(t) \/ ReaderWaitAgain(t)
    \/ ReaderWaitThrows(t) \/ ReaderUnlock(t) \/ ReaderTryLock(t)

WriterStep(t) ==
    \/ WriterLock(t) \/ WriterQueue(t) \/ WriterAcquire(t) \/ WriterWaitAgain(t)
    \/ WriterWaitThrows(t) \/ WriterUnlock(t) \/ WriterTryLock(t)

Next == \E t \in Threads : ReaderStep(t) \/ WriterStep(t) \/ SpuriousWakeup(t)

Spec == Init /\ [][Next]_vars

\* A thread whose wait returned gets m_commonMutex in the end (it is only ever
\* held for the few lines of an action), and the caller unlocks what it locked
\* ("intended to guard access to data only").  Nobody has to call lock, and no
\* spurious wakeup has to come.
Fairness == \A t \in Threads :
    /\ WF_vars(ReaderAcquire(t) \/ ReaderWaitAgain(t) \/ ReaderWaitThrows(t))
    /\ WF_vars(WriterAcquire(t) \/ WriterWaitAgain(t) \/ WriterWaitThrows(t))
    /\ WF_vars(ReaderUnlock(t) \/ WriterUnlock(t))

FairSpec == Spec /\ Fairness

-----------------------------------------------------------------------------
(* Properties                                                              *)

TypeOK ==
    /\ m_policy \in Policies
    /\ at \in [Threads -> Places]
    /\ m_readerQueue \subseteq InPlace("readerWait")
    /\ m_writerQueue \subseteq InPlace("writerWait")
    /\ m_numQueuedReaders \in Nat
    /\ m_numActiveReaders \in Nat
    /\ m_numQueuedWriters \in Nat
    /\ m_numActiveWriters \in Nat

\* "any number of readers to enter, but when a writer enters, all other
\* readers and writers are blocked" (class comment), of the threads themselves
\* and not of the counters.
MutualExclusion ==
    \A t, u \in Threads : at[t] = "writing" /\ at[u] \in {"reading", "writing"} => t = u

\* The counters count the threads: a leak on any path (wait that throws,
\* tryLock, unlock) would block or admit threads for ever after.
CountersAgree ==
    /\ m_numQueuedReaders = Cardinality(InPlace("readerWait"))
    /\ m_numActiveReaders = Cardinality(InPlace("reading"))
    /\ m_numQueuedWriters = Cardinality(InPlace("writerWait"))
    /\ m_numActiveWriters = Cardinality(InPlace("writing"))

\* No lost wakeup of readers: readers are blocked only while a new reader
\* would have to queue too ("all queued readers will be alerted").
ReadersAlerted == m_readerQueue # {} => shouldQueueReader

\* No lost wakeup of writers: when nothing keeps a writer out, at least one
\* of the queued writers is on its way, though notify() wakes only one and
\* that one may find the lock taken by a thread that came later.
WriterAlerted ==
    m_writerQueue # {} /\ ~shouldQueueWriter
        => InPlace("writerWait") \ m_writerQueue # {}

\* The threads' view of this mutex is a reader/writer lock that honours its
\* policy; under fairness, one that serves whom it may serve.
RW == INSTANCE RWLock WITH policy <- m_policy
ImplementsRWLock     == RW!Spec
ImplementsFairRWLock == RW!Serve

\* PREFER_READERS: no stream of writers keeps a queued reader out; it gets in,
\* unless its own wait throws.
ReaderNotStarved ==
    \A t \in Threads : m_policy = "PREFER_READERS" /\ at[t] = "readerWait" ~>
        at[t] = "reading" \/ (m_policy \in WaitMayThrow /\ at[t] = "outside")

\* PREFER_WRITERS: no stream of readers keeps the queued writers out.
WritersNotStarved ==
    m_policy = "PREFER_WRITERS" /\ InPlace("writerWait") # {} ~>
        InPlace("writing") # {} \/ (m_policy \in WaitMayThrow /\ InPlace("writerWait") = {})
=============================================================================
