------------------------ MODULE ReadWriteMutexProofs ------------------------
(***************************************************************************)
(* Proofs about ReadWriteMutex for every finite set of threads, either     *)
(* policy, and whether or not a wait may throw.                            *)
(*                                                                         *)
(* The guards of the code look at counters, the promises are about         *)
(* threads: the inductive invariant IInv ties the two together.            *)
(***************************************************************************)
EXTENDS ReadWriteMutex, FiniteSetTheorems, TLAPS

\* The inductive invariant: exclusion needs the counters to be exact, since
\* ~shouldQueueWriter must mean that no thread is inside.
IInv == TypeOK /\ CountersAgree /\ MutualExclusion

-----------------------------------------------------------------------------
(* Moving one thread from a place to another one changes two counts by one. *)
LEMMA MoveCounts ==
    ASSUME TypeOK, NEW t \in Threads, NEW from \in Places, NEW to \in Places,
           from # to, Goto(t, from, to)
    PROVE  /\ at' \in [Threads -> Places]
           /\ InPlace(to)' = InPlace(to) \cup {t}
           /\ InPlace(from)' = InPlace(from) \ {t}
           /\ t \in InPlace(from) /\ t \notin InPlace(to)
           /\ Cardinality(InPlace(to)') = Cardinality(InPlace(to)) + 1
           /\ Cardinality(InPlace(from)') = Cardinality(InPlace(from)) - 1
           /\ \A p \in Places \ {from, to} : InPlace(p)' = InPlace(p)
<1> at' = [at EXCEPT ![t] = to] /\ at[t] = from /\ at \in [Threads -> Places]
  BY DEF Goto, TypeOK
<1>1. /\ InPlace(to)' = InPlace(to) \cup {t}
      /\ InPlace(from)' = InPlace(from) \ {t}
      /\ t \in InPlace(from) /\ t \notin InPlace(to)
  BY DEF InPlace
<1>2. IsFiniteSet(InPlace(to)) /\ IsFiniteSet(InPlace(from))
  BY ThreadsFinite, FS_Subset DEF InPlace
<1>3. /\ Cardinality(InPlace(to) \cup {t}) = Cardinality(InPlace(to)) + 1
      /\ Cardinality(InPlace(from) \ {t}) = Cardinality(InPlace(from)) - 1
  BY <1>1, <1>2, FS_AddElement, FS_RemoveElement
<1>4. \A p \in Places \ {from, to} : InPlace(p)' = InPlace(p)
  BY DEF InPlace
<1> QED  BY <1>1, <1>3, <1>4

(* A counter that is zero counts nobody, and the other way round. *)
LEMMA ZeroCounts ==
    ASSUME TypeOK, CountersAgree
    PROVE  /\ m_numQueuedReaders = 0 <=> InPlace("readerWait") = {}
           /\ m_numActiveReaders = 0 <=> InPlace("reading") = {}
           /\ m_numQueuedWriters = 0 <=> InPlace("writerWait") = {}
           /\ m_numActiveWriters = 0 <=> InPlace("writing") = {}
<1> \A p \in Places : IsFiniteSet(InPlace(p))
  BY ThreadsFinite, FS_Subset DEF InPlace
<1> QED  BY FS_EmptySet DEF CountersAgree, Places

LEMMA InitIInv == Init => IInv
<1> SUFFICES ASSUME Init PROVE IInv
  OBVIOUS
<1>1. \A p \in Places \ {"outside"} : InPlace(p) = {}
  BY DEF Init, InPlace
<1>2. TypeOK
  BY DEF Init, TypeOK, Places
<1>3. CountersAgree
  BY <1>1, FS_EmptySet DEF Init, CountersAgree, Places
<1>4. MutualExclusion
  BY DEF Init, MutualExclusion
<1> QED  BY <1>2, <1>3, <1>4 DEF IInv

(* A mutex keeps the policy it was made with.                               *)
LEMMA PolicyKept == [Next]_vars => UNCHANGED m_policy
<1> SUFFICES ASSUME [Next]_vars PROVE UNCHANGED m_policy
  OBVIOUS
<1>1. ASSUME NEW t \in Threads, ReaderStep(t)
      PROVE  UNCHANGED m_policy
  BY <1>1 DEF ReaderStep, ReaderLock, ReaderQueue, ReaderAcquire, ReaderWaitAgain,
              ReaderWaitThrows, ReaderUnlock, ReaderTryLock
<1>2. ASSUME NEW t \in Threads, WriterStep(t)
      PROVE  UNCHANGED m_policy
  BY <1>2 DEF WriterStep, WriterLock, WriterQueue, WriterAcquire, WriterWaitAgain,
              WriterWaitThrows, WriterUnlock, WriterTryLock
<1>3. ASSUME NEW t \in Threads, SpuriousWakeup(t)
      PROVE  UNCHANGED m_policy
  BY <1>3 DEF SpuriousWakeup
<1> QED  BY <1>1, <1>2, <1>3 DEF Next, vars

-----------------------------------------------------------------------------
(* Type correctness and exact counters, one step per shape of action.       *)
LEMMA NextCounters ==
    ASSUME IInv, [Next]_vars
    PROVE  TypeOK' /\ CountersAgree'
<1> USE DEF IInv
<1> TypeOK /\ CountersAgree
  OBVIOUS
<1> UNCHANGED m_policy
  BY PolicyKept
<1> USE DEF Places, queues, readers, writers
<1>1. ASSUME NEW t \in Threads, ReaderLock(t) \/ ReaderTryLock(t)
      PROVE  TypeOK' /\ CountersAgree'
  <2> Goto(t, "outside", "reading")
    BY <1>1 DEF ReaderLock, ReaderTryLock
  <2>1. /\ m_numActiveReaders' = m_numActiveReaders + 1
        /\ UNCHANGED <<queues, m_numQueuedReaders, writers>>
    BY <1>1 DEF ReaderLock, ReaderTryLock
  <2> QED  BY <2>1, MoveCounts DEF TypeOK, CountersAgree
<1>2. ASSUME NEW t \in Threads, WriterLock(t) \/ WriterTryLock(t)
      PROVE  TypeOK' /\ CountersAgree'
  <2> Goto(t, "outside", "writing")
    BY <1>2 DEF WriterLock, WriterTryLock
  <2>1. /\ m_numActiveWriters' = m_numActiveWriters + 1
        /\ UNCHANGED <<queues, readers, m_numQueuedWriters>>
    BY <1>2 DEF WriterLock, WriterTryLock
  <2> QED  BY <2>1, MoveCounts DEF TypeOK, CountersAgree
<1>3. ASSUME NEW t \in Threads, ReaderQueue(t)
      PROVE  TypeOK' /\ CountersAgree'
  BY <1>3, MoveCounts DEF ReaderQueue, TypeOK, CountersAgree
<1>4. ASSUME NEW t \in Threads, WriterQueue(t)
      PROVE  TypeOK' /\ CountersAgree'
  BY <1>4, MoveCounts DEF WriterQueue, TypeOK, CountersAgree
<1>5. ASSUME NEW t \in Threads, ReaderAcquire(t)
      PROVE  TypeOK' /\ CountersAgree'
  <2> Goto(t, "readerWait", "reading")
    BY <1>5 DEF ReaderAcquire
  <2>1. CountersAgree'
    BY <1>5, MoveCounts DEF ReaderAcquire, TypeOK, CountersAgree
  <2>2. m_numQueuedReaders # 0
    BY ZeroCounts, MoveCounts
  <2> QED  BY <1>5, <2>1, <2>2, MoveCounts DEF ReaderAcquire, TypeOK
<1>6. ASSUME NEW t \in Threads, WriterAcquire(t)
      PROVE  TypeOK' /\ CountersAgree'
  <2> Goto(t, "writerWait", "writing")
    BY <1>6 DEF WriterAcquire
  <2>1. CountersAgree'
    BY <1>6, MoveCounts DEF WriterAcquire, TypeOK, CountersAgree
  <2>2. m_numQueuedWriters # 0
    BY ZeroCounts, MoveCounts
  <2> QED  BY <1>6, <2>1, <2>2, MoveCounts DEF WriterAcquire, TypeOK
<1>7. ASSUME NEW t \in Threads, ReaderWaitAgain(t) \/ WriterWaitAgain(t) \/ SpuriousWakeup(t)
      PROVE  TypeOK' /\ CountersAgree'
  <2>1. UNCHANGED <<at, readers, writers>>
    BY <1>7 DEF ReaderWaitAgain, WriterWaitAgain, SpuriousWakeup
  <2>2. \A p \in Places : InPlace(p)' = InPlace(p)
    BY <2>1 DEF InPlace
  <2>3. /\ m_readerQueue' \subseteq InPlace("readerWait")
        /\ m_writerQueue' \subseteq InPlace("writerWait")
    BY <1>7 DEF ReaderWaitAgain, WriterWaitAgain, SpuriousWakeup, TypeOK, InPlace
  <2> QED  BY <2>1, <2>2, <2>3 DEF TypeOK, CountersAgree
<1>8. ASSUME NEW t \in Threads, ReaderWaitThrows(t)
      PROVE  TypeOK' /\ CountersAgree'
  <2> Goto(t, "readerWait", "outside")
    BY <1>8 DEF ReaderWaitThrows
  <2>1. CountersAgree'
    BY <1>8, MoveCounts DEF ReaderWaitThrows, TypeOK, CountersAgree
  <2>2. m_numQueuedReaders # 0
    BY ZeroCounts, MoveCounts
  <2> QED  BY <1>8, <2>1, <2>2, MoveCounts DEF ReaderWaitThrows, TypeOK
<1>9. ASSUME NEW t \in Threads, WriterWaitThrows(t)
      PROVE  TypeOK' /\ CountersAgree'
  <2> Goto(t, "writerWait", "outside")
    BY <1>9 DEF WriterWaitThrows
  <2>1. CountersAgree'
    BY <1>9, MoveCounts DEF WriterWaitThrows, TypeOK, CountersAgree
  <2>2. m_numQueuedWriters # 0
    BY ZeroCounts, MoveCounts
  <2> QED  BY <1>9, <2>1, <2>2, MoveCounts DEF WriterWaitThrows, TypeOK
<1>10. ASSUME NEW t \in Threads, ReaderUnlock(t)
       PROVE  TypeOK' /\ CountersAgree'
  <2> Goto(t, "reading", "outside")
    BY <1>10 DEF ReaderUnlock
  <2>1. CountersAgree'
    BY <1>10, MoveCounts DEF ReaderUnlock, TypeOK, CountersAgree
  <2>2. m_numActiveReaders # 0
    BY ZeroCounts, MoveCounts
  <2>3. m_readerQueue' = m_readerQueue /\ m_writerQueue' \subseteq m_writerQueue
    BY <1>10 DEF ReaderUnlock, notify
  <2>4. /\ InPlace("readerWait")' = InPlace("readerWait")
        /\ InPlace("writerWait")' = InPlace("writerWait")
    BY MoveCounts
  <2> QED  BY <1>10, <2>1, <2>2, <2>3, <2>4, MoveCounts DEF ReaderUnlock, TypeOK
<1>11. ASSUME NEW t \in Threads, WriterUnlock(t)
       PROVE  TypeOK' /\ CountersAgree'
  <2> Goto(t, "writing", "outside")
    BY <1>11 DEF WriterUnlock
  <2>1. CountersAgree'
    BY <1>11, MoveCounts DEF WriterUnlock, TypeOK, CountersAgree
  <2>2. m_numActiveWriters # 0
    BY ZeroCounts, MoveCounts
  <2>3. m_readerQueue' \subseteq m_readerQueue /\ m_writerQueue' \subseteq m_writerQueue
    BY <1>11 DEF WriterUnlock, AlertOnWriterUnlock, AlertReaders, AlertWriter, notify, notifyAll
  <2>4. /\ InPlace("readerWait")' = InPlace("readerWait")
        /\ InPlace("writerWait")' = InPlace("writerWait")
    BY MoveCounts
  <2> QED  BY <1>11, <2>1, <2>2, <2>3, <2>4, MoveCounts DEF WriterUnlock, TypeOK
<1>12. CASE UNCHANGED vars
  BY <1>12 DEF vars, TypeOK, CountersAgree, InPlace
<1> QED
  BY <1>1, <1>2, <1>3, <1>4, <1>5, <1>6, <1>7, <1>8, <1>9, <1>10, <1>11, <1>12
     DEF Next, ReaderStep, WriterStep

-----------------------------------------------------------------------------
(* A thread enters only through a guard that, the counters being exact, says *)
(* that the threads inside allow it.                                        *)
LEMMA NextExclusion ==
    ASSUME IInv, [Next]_vars
    PROVE  MutualExclusion'
<1> USE DEF IInv
<1> TypeOK /\ CountersAgree
  OBVIOUS
<1> UNCHANGED m_policy
  BY PolicyKept
<1>1. ASSUME NEW t \in Threads, ReaderLock(t) \/ ReaderTryLock(t) \/ ReaderAcquire(t)
      PROVE  MutualExclusion'
  <2>1. ~shouldQueueReader /\ at' = [at EXCEPT ![t] = "reading"]
    BY <1>1 DEF ReaderLock, ReaderTryLock, ReaderAcquire, Goto
  <2>2. InPlace("writing") = {}
    BY <2>1, ZeroCounts DEF shouldQueueReader, TypeOK
  <2> QED  BY <2>1, <2>2 DEF MutualExclusion, InPlace, TypeOK
<1>2. ASSUME NEW t \in Threads, WriterLock(t) \/ WriterTryLock(t) \/ WriterAcquire(t)
      PROVE  MutualExclusion'
  <2>1. ~shouldQueueWriter /\ at' = [at EXCEPT ![t] = "writing"]
    BY <1>2 DEF WriterLock, WriterTryLock, WriterAcquire, Goto
  <2>2. InPlace("writing") = {} /\ InPlace("reading") = {}
    BY <2>1, ZeroCounts DEF shouldQueueWriter, TypeOK
  <2> QED  BY <2>1, <2>2 DEF MutualExclusion, InPlace, TypeOK
<1>3. ASSUME NEW t \in Threads,
             \/ ReaderQueue(t) \/ ReaderWaitThrows(t) \/ ReaderUnlock(t)
             \/ WriterQueue(t) \/ WriterWaitThrows(t) \/ WriterUnlock(t)
      PROVE  MutualExclusion'
  <2>1. \E p \in {"readerWait", "writerWait", "outside"} : at' = [at EXCEPT ![t] = p]
    BY <1>3 DEF ReaderQueue, ReaderWaitThrows, ReaderUnlock,
                WriterQueue, WriterWaitThrows, WriterUnlock, Goto
  <2> QED  BY <2>1 DEF MutualExclusion, TypeOK
<1>4. ASSUME NEW t \in Threads, ReaderWaitAgain(t) \/ WriterWaitAgain(t) \/ SpuriousWakeup(t)
      PROVE  MutualExclusion'
  BY <1>4 DEF ReaderWaitAgain, WriterWaitAgain, SpuriousWakeup, MutualExclusion
<1>5. CASE UNCHANGED vars
  BY <1>5 DEF vars, MutualExclusion
<1> QED
  BY <1>1, <1>2, <1>3, <1>4, <1>5 DEF Next, ReaderStep, WriterStep

LEMMA Inductive == Spec => []IInv
<1>1. IInv /\ [Next]_vars => IInv'
  BY NextCounters, NextExclusion DEF IInv
<1> QED  BY InitIInv, <1>1, PTL DEF Spec

(* The variables keep their types, the wait sets hold queued threads only.  *)
THEOREM TypeCorrect == Spec => []TypeOK
BY Inductive, PTL DEF IInv

(* A writer inside Writer.lock/unlock is alone, readers share only with     *)
(* readers: whatever the policy, the tryLocks and the waits that throw.     *)
THEOREM Exclusion == Spec => []MutualExclusion
BY Inductive, PTL DEF IInv

(* No path through lock, tryLock or unlock leaks a count.                   *)
THEOREM Counting == Spec => []CountersAgree
BY Inductive, PTL DEF IInv

-----------------------------------------------------------------------------
(* No lost wakeups.                                                         *)

(* notify wakes a thread if there is one to wake.                           *)
LEMMA NotifyWakes ==
    ASSUME NEW queue, NEW queueNext, notify(queue, queueNext)
    PROVE  /\ queueNext \subseteq queue
           /\ queueNext # {} => queue \ queueNext # {}
BY DEF notify

LEMMA NextReadersAlerted ==
    ASSUME IInv, "PREFER_WRITERS" \notin WaitMayThrow, ReadersAlerted, [Next]_vars
    PROVE  ReadersAlerted'
<1> USE DEF IInv
<1> TypeOK /\ CountersAgree
  OBVIOUS
<1> UNCHANGED m_policy
  BY PolicyKept
<1> USE DEF ReadersAlerted, shouldQueueReader, queues, readers, writers
<1>1. ASSUME NEW t \in Threads,
             \/ ReaderLock(t) \/ ReaderAcquire(t) \/ ReaderTryLock(t) \/ ReaderUnlock(t)
             \/ WriterWaitAgain(t) \/ SpuriousWakeup(t)
      PROVE  ReadersAlerted'
  BY <1>1 DEF ReaderLock, ReaderAcquire, ReaderTryLock, ReaderUnlock,
              WriterWaitAgain, SpuriousWakeup
<1>2. ASSUME NEW t \in Threads, ReaderQueue(t) \/ ReaderWaitAgain(t)
      PROVE  ReadersAlerted'
  BY <1>2 DEF ReaderQueue, ReaderWaitAgain
<1>3. ASSUME NEW t \in Threads,
             WriterLock(t) \/ WriterTryLock(t) \/ WriterAcquire(t) \/ WriterQueue(t)
      PROVE  ReadersAlerted'
  BY <1>3 DEF WriterLock, WriterTryLock, WriterAcquire, WriterQueue, TypeOK
<1>4. ASSUME NEW t \in Threads, ReaderWaitThrows(t) \/ WriterWaitThrows(t)
      PROVE  ReadersAlerted'
  BY <1>4 DEF ReaderWaitThrows, WriterWaitThrows
<1>5. ASSUME NEW t \in Threads, WriterUnlock(t)
      PROVE  ReadersAlerted'
  <2>1. m_numQueuedReaders = 0 => m_readerQueue = {}
    BY ZeroCounts DEF TypeOK
  <2>2. /\ m_numActiveWriters' = m_numActiveWriters - 1
        /\ m_numQueuedWriters' = m_numQueuedWriters
    BY <1>5 DEF WriterUnlock
  <2>3. CASE m_numActiveWriters - 1 < 1
    BY <1>5, <2>1, <2>2, <2>3
       DEF WriterUnlock, AlertOnWriterUnlock, AlertReaders, AlertWriter, notifyAll, TypeOK, Policies
  <2>4. CASE ~(m_numActiveWriters - 1 < 1)
    BY <2>2, <2>4 DEF TypeOK
  <2> QED  BY <2>3, <2>4
<1>6. CASE UNCHANGED vars
  BY <1>6 DEF vars
<1> QED
  BY <1>1, <1>2, <1>3, <1>4, <1>5, <1>6 DEF Next, ReaderStep, WriterStep

LEMMA NextWriterAlerted ==
    ASSUME IInv, WriterAlerted, [Next]_vars
    PROVE  WriterAlerted'
<1> USE DEF IInv
<1> TypeOK /\ CountersAgree
  OBVIOUS
<1> UNCHANGED m_policy
  BY PolicyKept
<1> USE DEF WriterAlerted, shouldQueueWriter, queues, readers, writers
<1> DEFINE Woken == InPlace("writerWait") \ m_writerQueue
\* Whoever enters keeps the writers out.
<1>1. ASSUME NEW t \in Threads,
             \/ ReaderLock(t) \/ ReaderAcquire(t) \/ ReaderTryLock(t)
             \/ WriterLock(t) \/ WriterAcquire(t) \/ WriterTryLock(t)
      PROVE  WriterAlerted'
  BY <1>1 DEF ReaderLock, ReaderAcquire, ReaderTryLock,
              WriterLock, WriterAcquire, WriterTryLock, TypeOK
\* These neither open the lock to writers nor touch the woken ones.
<1>2. ASSUME NEW t \in Threads, ReaderQueue(t) \/ ReaderWaitAgain(t) \/ ReaderWaitThrows(t)
      PROVE  WriterAlerted'
  <2>1. CASE ReaderWaitThrows(t)
    BY <2>1 DEF ReaderWaitThrows, shouldQueueReader, Goto, InPlace, TypeOK
  <2>2. CASE ReaderQueue(t)
    <3>1. Woken' = Woken
      BY <2>2 DEF ReaderQueue, Goto, InPlace, TypeOK
    <3> QED  BY <2>2, <3>1 DEF ReaderQueue, TypeOK
  <2>3. CASE ReaderWaitAgain(t)
    BY <2>3 DEF ReaderWaitAgain, InPlace
  <2> QED  BY <1>2, <2>1, <2>2, <2>3
\* A writer queues, or gives up, only while writers have to queue.
<1>3. ASSUME NEW t \in Threads, WriterQueue(t) \/ WriterWaitAgain(t) \/ WriterWaitThrows(t)
      PROVE  WriterAlerted'
  BY <1>3 DEF WriterQueue, WriterWaitAgain, WriterWaitThrows
<1>4. ASSUME NEW t \in Threads, SpuriousWakeup(t)
      PROVE  WriterAlerted'
  BY <1>4 DEF SpuriousWakeup, InPlace, TypeOK
<1>5. ASSUME NEW t \in Threads, ReaderUnlock(t)
      PROVE  WriterAlerted'
  <2>1. InPlace("writerWait")' = InPlace("writerWait")
    BY <1>5 DEF ReaderUnlock, Goto, InPlace, TypeOK
  <2>2. m_numQueuedWriters = 0 => m_writerQueue = {}
    BY ZeroCounts DEF TypeOK
  <2>3. CASE m_numActiveReaders - 1 < 1
    <3>1. m_writerQueue' # {} => m_writerQueue \ m_writerQueue' # {}
      BY <1>5, <2>2, <2>3, NotifyWakes DEF ReaderUnlock, TypeOK
    <3> QED  BY <2>1, <3>1 DEF TypeOK
  <2>4. CASE ~(m_numActiveReaders - 1 < 1)
    BY <1>5, <2>4 DEF ReaderUnlock, TypeOK
  <2> QED  BY <2>3, <2>4
<1>6. ASSUME NEW t \in Threads, WriterUnlock(t)
      PROVE  WriterAlerted'
  <2>1. InPlace("writerWait")' = InPlace("writerWait")
    BY <1>6 DEF WriterUnlock, Goto, InPlace, TypeOK
  <2>2. m_numQueuedWriters = 0 => m_writerQueue = {}
    BY ZeroCounts DEF TypeOK
  <2>3. CASE ~(m_numActiveWriters - 1 < 1)
    BY <1>6, <2>3 DEF WriterUnlock, TypeOK
  <2>4. CASE m_numActiveWriters - 1 < 1
    <3>1. AlertOnWriterUnlock /\ UNCHANGED <<readers, m_numQueuedWriters>>
      BY <1>6, <2>4 DEF WriterUnlock
    <3>2. CASE AlertWriter
      <4>1. m_writerQueue' # {} => m_writerQueue \ m_writerQueue' # {}
        BY <3>2, NotifyWakes DEF AlertWriter
      <4> QED  BY <2>1, <4>1 DEF TypeOK
    <3>3. CASE m_numQueuedReaders > 0 /\ m_policy = "PREFER_READERS"
      BY <3>1, <3>3
    <3>4. CASE m_numQueuedWriters = 0 /\ m_writerQueue' = m_writerQueue
      BY <2>2, <3>4
    <3> QED
      BY <3>1, <3>2, <3>3, <3>4 DEF AlertOnWriterUnlock, AlertReaders, TypeOK
  <2> QED  BY <2>3, <2>4
<1>7. CASE UNCHANGED vars
  BY <1>7 DEF vars, InPlace
<1> QED
  BY <1>1, <1>2, <1>3, <1>4, <1>5, <1>6, <1>7 DEF Next, ReaderStep, WriterStep

(* Unless a wait throws under PREFER_WRITERS, readers sleep only while a     *)
(* reader has to queue: the notifyAll of Writer.unlock is never missing.    *)
THEOREM NoReaderForgotten == "PREFER_WRITERS" \notin WaitMayThrow => (Spec => []ReadersAlerted)
<1>1. Init => ReadersAlerted
  BY DEF Init, ReadersAlerted
<1> SUFFICES ASSUME "PREFER_WRITERS" \notin WaitMayThrow PROVE Spec => []ReadersAlerted
  OBVIOUS
<1>2. IInv /\ ReadersAlerted /\ [Next]_vars => ReadersAlerted'
  BY NextReadersAlerted
<1> QED  BY <1>1, <1>2, Inductive, PTL DEF Spec

(* While nothing keeps a writer out, a queued writer is awake: the single    *)
(* notify of an unlock is enough, even if a newcomer takes the lock first.  *)
THEOREM NoWriterForgotten == Spec => []WriterAlerted
<1>1. Init => WriterAlerted
  BY DEF Init, WriterAlerted
<1>2. IInv /\ WriterAlerted /\ [Next]_vars => WriterAlerted'
  BY NextWriterAlerted
<1> QED  BY <1>1, <1>2, Inductive, PTL DEF Spec

-----------------------------------------------------------------------------
(* The mutex implements the abstract lock of RWLock: what its threads do is  *)
(* always allowed by the policy, read off the threads and not the counters. *)
LEMMA StepRefines ==
    ASSUME IInv, [Next]_vars
    PROVE  [RW!Next]_RW!vars
<1> USE DEF IInv
<1> TypeOK /\ CountersAgree
  OBVIOUS
<1> UNCHANGED m_policy
  BY PolicyKept
<1> USE DEF RW!Next, RW!vars, RW!Move, RW!InPlace, InPlace, Goto
<1>1. ASSUME NEW t \in Threads, ReaderLock(t) \/ ReaderTryLock(t) \/ ReaderAcquire(t)
      PROVE  RW!GrantRead(t)
  <2>1. ~shouldQueueReader
    BY <1>1 DEF ReaderLock, ReaderTryLock, ReaderAcquire
  <2>2. InPlace("writing") = {} /\ (m_policy = "PREFER_WRITERS" => InPlace("writerWait") = {})
    BY <2>1, ZeroCounts DEF shouldQueueReader, TypeOK
  <2> QED  BY <1>1, <2>2 DEF ReaderLock, ReaderTryLock, ReaderAcquire, RW!GrantRead
<1>2. ASSUME NEW t \in Threads, WriterLock(t) \/ WriterTryLock(t) \/ WriterAcquire(t)
      PROVE  RW!GrantWrite(t)
  <2>1. ~shouldQueueWriter
    BY <1>2 DEF WriterLock, WriterTryLock, WriterAcquire
  <2>2. /\ InPlace("writing") = {} /\ InPlace("reading") = {}
        /\ m_policy = "PREFER_READERS" => InPlace("readerWait") = {}
    BY <2>1, ZeroCounts DEF shouldQueueWriter, TypeOK
  <2> QED  BY <1>2, <2>2 DEF WriterLock, WriterTryLock, WriterAcquire, RW!GrantWrite
<1>3. ASSUME NEW t \in Threads, ReaderQueue(t) \/ WriterQueue(t)
      PROVE  RW!Queue(t)
  BY <1>3 DEF ReaderQueue, WriterQueue, RW!Queue
<1>4. ASSUME NEW t \in Threads, ReaderWaitThrows(t) \/ WriterWaitThrows(t)
      PROVE  RW!Abandon(t)
  BY <1>4 DEF ReaderWaitThrows, WriterWaitThrows, RW!Abandon
<1>5. ASSUME NEW t \in Threads, ReaderUnlock(t) \/ WriterUnlock(t)
      PROVE  RW!Release(t)
  BY <1>5 DEF ReaderUnlock, WriterUnlock, RW!Release
<1>6. ASSUME NEW t \in Threads, ReaderWaitAgain(t) \/ WriterWaitAgain(t) \/ SpuriousWakeup(t)
      PROVE  UNCHANGED at
  BY <1>6 DEF ReaderWaitAgain, WriterWaitAgain, SpuriousWakeup
<1>7. CASE UNCHANGED vars
  BY <1>7 DEF vars
<1> QED
  BY <1>1, <1>2, <1>3, <1>4, <1>5, <1>6, <1>7 DEF Next, ReaderStep, WriterStep

(* Every behaviour of the code is a behaviour of the abstract lock (its      *)
(* safety part; the fair part is model-checked).                            *)
THEOREM Refinement == Spec => ImplementsRWLock
<1>1. Init => RW!Init
  BY DEF Init, RW!Init, Policies
<1>2. IInv /\ [Next]_vars => [RW!Next]_RW!vars
  BY StepRefines
<1> QED  BY <1>1, <1>2, Inductive, PTL DEF Spec, RW!Spec, ImplementsRWLock
=============================================================================
