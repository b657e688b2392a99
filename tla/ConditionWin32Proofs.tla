------------------------ MODULE ConditionWin32Proofs ------------------------
(***************************************************************************)
(* Proofs about ConditionWin32 for any number of waiters and notifiers,    *)
(* where whoever waits with a period does so alone, or nobody does.        *)
(* (Where waits with a period overlap the algorithm is not correct: the    *)
(* run condition_race.)                                                    *)
(*                                                                         *)
(* Exactly one wakeup is on its way while notifications are due: with the  *)
(* notifier about to send the first, a waiter that got it, or one about to *)
(* send the next.  Who times out as it is notified takes the notification  *)
(* without the wakeup, and clears that from the queue before it opens the  *)
(* gate.  The gate is in the hand of one thread at most.                   *)
(***************************************************************************)
EXTENDS ConditionWin32, FiniteSetTheorems, TLAPS

\* Nobody else waits while somebody waits with a period.
PeriodsAlone == TimedAlone \/ Timed = {}

\* There are not so many threads as waits may be forgotten: int.max / 2.
FewWaiters == Cardinality(Waiters) <= GoneLimit + 1

WaiterPlaces   == {"out", "gate", "count", "queue", "woken", "clearOrOpen", "clear", "open",
                   "post", "relock", "forget"}
NotifierPlaces == {"out", "closeAll", "closeOne", "wakeFirst"}

Typed ==
    /\ at \in [Threads -> WaiterPlaces \cup NotifierPlaces]
    /\ \A t \in Waiters : at[t] \in WaiterPlaces
    /\ \A t \in Notifiers : at[t] \in NotifierPlaces
    /\ timedOut \in [Waiters -> BOOLEAN]
    /\ numWaitersGone \in [Waiters -> 0 .. 1]
    /\ {assocMutex, unblockLock} \subseteq Threads \cup {None}
    /\ m_blockLock \in 0 .. 1
    /\ m_blockQueue \in 0 .. 1
    /\ m_numWaitersGone \in Nat
    /\ m_numWaitersBlocked \in Int
    /\ m_numWaitersToUnblock \in Nat
    /\ assertFailed \in BOOLEAN

\* Who waits with a period has the condition to itself.
Alone == \A t \in Timed, u \in Waiters : t # u /\ at[t] # "out" => at[u] = "out"

\* Only who waits with a period times out, and only it may be left to clear the
\* queue, of one wakeup, or to find that too many have gone.
OnlyTimed ==
    \A t \in Waiters :
        /\ timedOut[t] => t \in Timed /\ at[t] # "queue"
        /\ numWaitersGone[t] # 0 => t \in Timed /\ at[t] \in {"clearOrOpen", "clear"}
        /\ at[t] = "clear" => numWaitersGone[t] # 0
        /\ at[t] = "forget" => /\ t \in Timed /\ unblockLock = t
                               /\ m_numWaitersToUnblock = 0 /\ m_numWaitersGone = GoneLimit

\* While notifications are due those who have gone are not counted any more.
Accounted ==
    /\ m_numWaitersToUnblock # 0 => m_numWaitersBlocked >= 0 /\ m_numWaitersGone = 0
    /\ ~assertFailed =>
          m_numWaitersBlocked + m_numWaitersToUnblock - m_numWaitersGone = Cardinality(Waiting)
    /\ assertFailed =>
          m_numWaitersBlocked + m_numWaitersToUnblock - m_numWaitersGone
              <= Cardinality(Waiting) - GoneLimit

\* The threads that carry a wakeup on: those about to send it, and who got it.
Carries(t) == at[t] \in {"post", "wakeFirst"} \/ (at[t] = "woken" /\ ~timedOut[t])
Carriers == {t \in Threads : Carries(t)}

\* A wakeup is on its way while notifications are due, and while somebody who timed
\* out has taken the last of them and waits for the wakeup that comes with it.
Owed == m_numWaitersToUnblock # 0 \/ \E t \in Waiters : numWaitersGone[t] # 0

\* It is with one thread, or it lies in the queue, and then nobody waits for it.
OneCarries ==
    /\ ~Owed => Carriers = {} /\ m_blockQueue = 0
    /\ Owed => \/ m_blockQueue = 0 /\ \E t \in Threads : Carriers = {t}
               \/ m_blockQueue = 1 /\ Carriers = {}
    /\ m_blockQueue # 0 => \A t \in Waiters : at[t] \notin {"queue", "clear"}

\* The threads that will open the gate by themselves.
Openers == {t \in Threads : at[t] \in {"count", "clearOrOpen", "clear", "open"}}

OneOpens ==
    /\ m_blockLock = 0 <=> m_numWaitersToUnblock # 0 \/ Openers # {}
    /\ m_numWaitersToUnblock # 0 => Openers = {}
    /\ \A t, u \in Openers : t = u

\* A notifier that is about to close the gate holds m_unblockLock.
CloserAlone ==
    \A t \in Notifiers : at[t] \in {"closeAll", "closeOne"} =>
        /\ unblockLock = t /\ m_numWaitersToUnblock = 0
        /\ m_numWaitersBlocked > m_numWaitersGone

IInv == Typed /\ Alone /\ OnlyTimed /\ Accounted /\ OneCarries /\ OneOpens /\ CloserAlone

-----------------------------------------------------------------------------
(* Moves                                                                   *)

\* One thread moves.
LEMMA Moves ==
    ASSUME Typed, NEW t \in Threads, NEW p, at' = [at EXCEPT ![t] = p],
           \A u \in Waiters \ {t} : timedOut'[u] = timedOut[u]
    PROVE  /\ Carriers' = IF p \in {"post", "wakeFirst"} \/ (p = "woken" /\ ~timedOut'[t])
                          THEN Carriers \cup {t} ELSE Carriers \ {t}
           /\ Openers' = IF p \in {"count", "clearOrOpen", "clear", "open"}
                         THEN Openers \cup {t} ELSE Openers \ {t}
           /\ Waiting' = IF t \in Waiters /\ p \in {"queue", "woken"}
                         THEN Waiting \cup {t} ELSE Waiting \ {t}
           /\ at'[t] = p /\ \A u \in Threads \ {t} : at'[u] = at[u]
<1>1. at'[t] = p /\ \A u \in Threads \ {t} : at'[u] = at[u]
  BY DEF Typed
<1>2. \A u \in Threads \ {t} : Carries(u)' <=> Carries(u)
  <2>1. \A u \in Notifiers : at[u] # "woken"
    BY DEF Typed, NotifierPlaces
  <2> QED  BY <1>1, <2>1 DEF Carries, Threads
<1>3. Carries(t)' <=> p \in {"post", "wakeFirst"} \/ (p = "woken" /\ ~timedOut'[t])
  BY <1>1 DEF Carries
<1>4. Carriers' = IF p \in {"post", "wakeFirst"} \/ (p = "woken" /\ ~timedOut'[t])
                  THEN Carriers \cup {t} ELSE Carriers \ {t}
  BY <1>2, <1>3 DEF Carriers
<1> QED  BY <1>1, <1>4 DEF Openers, Waiting, Threads

\* To a place for waiters or for notifiers.
LEMMA MovesTyped ==
    ASSUME Typed, NEW t \in Threads, NEW p, at' = [at EXCEPT ![t] = p],
           t \in Waiters => p \in WaiterPlaces, t \in Notifiers => p \in NotifierPlaces
    PROVE  /\ at' \in [Threads -> WaiterPlaces \cup NotifierPlaces]
           /\ \A u \in Waiters : at'[u] \in WaiterPlaces
           /\ \A u \in Notifiers : at'[u] \in NotifierPlaces
BY DEF Typed, Threads

\* Who waits alone stays alone, whoever else goes on.
LEMMA MovesAlone ==
    ASSUME IInv, NEW t \in Threads, NEW p, at' = [at EXCEPT ![t] = p],
           at[t] # "out" \/ t \in Notifiers
    PROVE  Alone'
<1>1. at'[t] = p /\ \A u \in Threads \ {t} : at'[u] = at[u]
  BY DEF IInv, Typed
<1>2. \A u \in Waiters : u \in Threads /\ u \notin Notifiers
  BY Sets DEF Threads
<1> QED  BY <1>1, <1>2, Sets DEF IInv, Alone

\* Only the thread that moves changes what OnlyTimed says, and nobody is at "forget"
\* while m_unblockLock is free or a notifier's.
LEMMA MovesOnly ==
    ASSUME IInv, NEW t \in Waiters, at' = [at EXCEPT ![t] = at'[t]],
           \A u \in Waiters \ {t} : timedOut'[u] = timedOut[u] /\ numWaitersGone'[u] = numWaitersGone[u],
           timedOut'[t] => t \in Timed /\ at'[t] # "queue",
           numWaitersGone'[t] # 0 => t \in Timed /\ at'[t] \in {"clearOrOpen", "clear"},
           at'[t] = "clear" => numWaitersGone'[t] # 0,
           at'[t] = "forget" => /\ t \in Timed /\ unblockLock' = t
                                /\ m_numWaitersToUnblock' = 0 /\ m_numWaitersGone' = GoneLimit,
           unblockLock \in {None, t} \/ UNCHANGED <<unblockLock, m_numWaitersToUnblock, m_numWaitersGone>>
    PROVE  OnlyTimed'
<1>1. \A u \in Waiters \ {t} : at'[u] = at[u]
  BY DEF IInv, Typed, Threads
<1>2. \A u \in Waiters \ {t} : at[u] = "forget" => unblockLock \notin {None, t}
  BY NoneIsNobody DEF IInv, OnlyTimed, Threads
<1> QED  BY <1>1, <1>2 DEF IInv, OnlyTimed

LEMMA WaitingCounts ==
    /\ IsFiniteSet(Waiting) /\ Cardinality(Waiting) \in Nat
    /\ Cardinality(Waiting) = 0 <=> Waiting = {}
    /\ Cardinality(Waiters) \in Nat /\ Cardinality(Waiting) <= Cardinality(Waiters)
    /\ \A t \in Waiters \ Waiting : Cardinality(Waiting \cup {t}) = Cardinality(Waiting) + 1
    /\ \A t \in Waiting : Cardinality(Waiting \ {t}) = Cardinality(Waiting) - 1
<1>1. IsFiniteSet(Waiting) /\ Cardinality(Waiting) <= Cardinality(Waiters)
  BY Sets, FS_Subset DEF Waiting
<1> QED  BY <1>1, Sets, FS_CardinalityType, FS_EmptySet, FS_AddElement, FS_RemoveElement

\* Who may be left to clear the queue is about to open the gate.
LEMMA ClearersOpen ==
    ASSUME IInv, NEW t \in Waiters, numWaitersGone[t] # 0
    PROVE  /\ t \in Openers /\ m_numWaitersToUnblock = 0 /\ numWaitersGone[t] = 1
           /\ \A u \in Waiters \ {t} : numWaitersGone[u] = 0 /\ at[u] = "out"
<1>1. \A u \in Waiters : numWaitersGone[u] # 0 => u \in Openers /\ u \in Timed /\ at[u] # "out"
  BY DEF IInv, OnlyTimed, Openers, Threads
<1>2. \A u \in Waiters \ {t} : at[u] = "out"
  BY <1>1 DEF IInv, Alone
<1> QED  BY <1>1, <1>2 DEF IInv, OneOpens, Typed

\* Who is awake after its time was over waits alone: one waiter at most is notified.
LEMMA TimedOutAlone ==
    ASSUME IInv, NEW t \in Waiters, at[t] \in {"woken", "forget"}, timedOut[t] \/ at[t] = "forget"
    PROVE  /\ t \in Timed /\ Waiting = IF at[t] = "woken" THEN {t} ELSE {}
           /\ Cardinality(Waiting) = IF at[t] = "woken" THEN 1 ELSE 0
<1>1. t \in Timed /\ \A u \in Waiters \ {t} : at[u] = "out"
  BY DEF IInv, OnlyTimed, Alone
<1>2. Waiting = IF at[t] = "woken" THEN {t} ELSE {}
  BY <1>1 DEF Waiting
<1> QED  BY <1>1, <1>2, FS_EmptySet, FS_Singleton

-----------------------------------------------------------------------------
(* The invariant                                                           *)

LEMMA InitIInv == Init => IInv
<1> SUFFICES ASSUME Init PROVE IInv
  OBVIOUS
<1>1. Waiting = {} /\ Carriers = {} /\ Openers = {} /\ ~Owed
  BY DEF Init, Waiting, Carriers, Carries, Openers, Threads, Owed
<1>2. Typed
  <2>1. at \in [Threads -> WaiterPlaces \cup NotifierPlaces]
    BY DEF Init, WaiterPlaces
  <2>2. numWaitersGone \in [Waiters -> 0 .. 1] /\ timedOut \in [Waiters -> BOOLEAN]
    BY DEF Init
  <2>3. /\ \A t \in Waiters : at[t] \in WaiterPlaces
        /\ \A t \in Notifiers : at[t] \in NotifierPlaces
    BY DEF Init, WaiterPlaces, NotifierPlaces, Threads
  <2>4. {assocMutex, unblockLock} \subseteq Threads \cup {None} /\ assertFailed \in BOOLEAN
    BY Zenon DEF Init
  <2>5. /\ m_blockLock \in 0 .. 1 /\ m_blockQueue \in 0 .. 1 /\ m_numWaitersGone \in Nat
        /\ m_numWaitersBlocked \in Int /\ m_numWaitersToUnblock \in Nat
    BY DEF Init
  <2> QED  BY <2>1, <2>2, <2>3, <2>4, <2>5, Zenon DEF Typed
<1>3. Accounted
  BY <1>1, FS_EmptySet DEF Init, Accounted
<1>4. Alone /\ OnlyTimed
  BY Sets DEF Init, Alone, OnlyTimed, Threads
<1> QED  BY <1>1, <1>2, <1>3, <1>4 DEF Init, IInv, OneCarries, OneOpens, CloserAlone, Threads

\* Steps by which nothing is counted, opened or carried on.
LEMMA IdleMoves ==
    ASSUME IInv, NEW t \in Waiters, NEW p, at' = [at EXCEPT ![t] = p],
           at[t] \in {"out", "gate", "relock"}, p \in {"out", "gate", "relock"},
           assocMutex' \in Threads \cup {None}, Alone',
           UNCHANGED <<locals, unblockLock, m_blockLock, m_blockQueue, counters, assertFailed>>
    PROVE  IInv' /\ Waiting' = Waiting
<1> Typed /\ t \in Threads /\ t \notin Notifiers /\ p \in WaiterPlaces
  BY Sets DEF IInv, Threads, WaiterPlaces
<1> USE DEF locals, counters
<1>1. at'[t] = p /\ \A u \in Threads \ {t} : at'[u] = at[u]
  BY Moves
<1>2. UNCHANGED <<Carriers, Openers, Waiting>>
  BY Moves DEF Carriers, Carries, Openers, Waiting
<1>3. Typed'
  BY MovesTyped DEF Typed
<1>4. OnlyTimed'
  BY <1>1, MovesOnly DEF IInv, OnlyTimed
<1>5. \A u \in Notifiers : at'[u] = at[u]
  BY <1>1 DEF Threads
<1>6. OneCarries'
  <2>1. \A u \in Waiters : at'[u] \in {"queue", "clear"} => at[u] = at'[u]
    BY <1>1 DEF Threads
  <2> QED  BY <1>2, <2>1 DEF IInv, OneCarries, Owed
<1> QED  BY <1>2, <1>3, <1>4, <1>5, <1>6 DEF IInv, Accounted, OneOpens, CloserAlone

LEMMA PassGateInv == ASSUME IInv, NEW t \in Waiters, PassGate(t) PROVE IInv' /\ Waiting' = Waiting
<1> Typed /\ t \in Threads /\ t \notin Notifiers
  BY Sets DEF IInv, Threads
<1> USE DEF locals, counters
<1>1. /\ at[t] = "gate" /\ at' = [at EXCEPT ![t] = "count"]
      /\ UNCHANGED <<locals, assocMutex, unblockLock, m_blockQueue, counters, assertFailed>>
  BY DEF PassGate, Goto
<1>2. m_blockLock = 1 /\ m_blockLock' = 0 /\ Openers = {} /\ m_numWaitersToUnblock = 0
  BY DEF PassGate, Typed, IInv, OneOpens
<1>3. /\ UNCHANGED <<Carriers, Waiting>> /\ Openers' = {t}
      /\ at'[t] = "count" /\ \A u \in Threads \ {t} : at'[u] = at[u]
  BY <1>1, <1>2, Moves DEF Carriers, Carries, Waiting
<1>4. Typed'
  BY <1>1, <1>2, MovesTyped DEF Typed, WaiterPlaces
<1>5. Alone'
  BY <1>1, MovesAlone
<1>6. OnlyTimed'
  BY <1>1, <1>3, MovesOnly DEF IInv, OnlyTimed
<1>7. OneCarries'
  <2>1. \A u \in Waiters : at'[u] \in {"queue", "clear"} => at[u] = at'[u]
    BY <1>3 DEF Threads
  <2> QED  BY <1>1, <1>3, <2>1 DEF IInv, OneCarries, Owed
<1>8. \A u \in Notifiers : at'[u] = at[u]
  BY <1>3 DEF Threads
<1> QED  BY <1>1, <1>2, <1>3, <1>4, <1>5, <1>6, <1>7, <1>8 DEF IInv, Accounted, OneOpens, CloserAlone

\* Who is about to wait finds no wakeup in the queue.
LEMMA BlockInv ==
    ASSUME IInv, NEW t \in Waiters, Block(t)
    PROVE  /\ IInv'
           /\ t \notin Waiting /\ Waiting' = Waiting \cup {t}
           /\ m_numWaitersToUnblock = 0 /\ UNCHANGED m_numWaitersToUnblock
<1> Typed /\ t \in Threads /\ t \notin Notifiers
  BY Sets DEF IInv, Threads
<1>1. at[t] = "count" /\ t \in Openers
  BY DEF Block, Openers
<1>2. m_numWaitersToUnblock = 0 /\ m_blockLock = 0 /\ Openers = {t}
  BY <1>1 DEF IInv, OneOpens
<1>3. \A u \in Waiters : numWaitersGone[u] = 0
  BY <1>1, <1>2, ClearersOpen DEF IInv, OnlyTimed
<1>4. ~Owed /\ Carriers = {} /\ m_blockQueue = 0
  BY <1>2, <1>3 DEF Owed, IInv, OneCarries
<1>5. /\ at' = [at EXCEPT ![t] = "queue"]
      /\ UNCHANGED <<m_blockQueue, unblockLock, m_numWaitersGone, m_numWaitersToUnblock,
                     assertFailed>>
      /\ m_numWaitersBlocked' = m_numWaitersBlocked + 1
      /\ m_blockLock' = m_blockLock + 1 /\ assocMutex' = None
      /\ timedOut' = [timedOut EXCEPT ![t] = FALSE]
      /\ numWaitersGone' = [numWaitersGone EXCEPT ![t] = 0]
  BY <1>4 DEF Block
<1>6. /\ ~timedOut'[t] /\ numWaitersGone'[t] = 0
      /\ \A u \in Waiters \ {t} : timedOut'[u] = timedOut[u] /\ numWaitersGone'[u] = numWaitersGone[u]
  BY <1>5 DEF Typed
<1>7. /\ Carriers' = {} /\ Waiting' = Waiting \cup {t} /\ Openers' = {}
      /\ t \notin Waiting
      /\ at'[t] = "queue" /\ \A u \in Threads \ {t} : at'[u] = at[u]
  <2>1. t \notin Waiting
    BY <1>1 DEF Waiting
  <2>2. at'[t] = "queue" /\ \A u \in Threads \ {t} : at'[u] = at[u]
    BY <1>5 DEF Typed
  <2>3. /\ Carriers' = Carriers \ {t} /\ Openers' = Openers \ {t}
        /\ Waiting' = Waiting \cup {t}
    <3>1. /\ Carriers' = IF FALSE THEN Carriers \cup {t} ELSE Carriers \ {t}
          /\ Openers' = IF FALSE THEN Openers \cup {t} ELSE Openers \ {t}
          /\ Waiting' = IF TRUE THEN Waiting \cup {t} ELSE Waiting \ {t}
      <4>1. t \in Threads /\ \A u \in Waiters \ {t} : timedOut'[u] = timedOut[u]
        BY <1>6
      <4>2. at' = [at EXCEPT ![t] = "queue"]
        BY <1>5
      <4> DEFINE p == "queue"
      <4>3. p \notin {"post", "wakeFirst"} /\ p # "woken" /\ p \in {"queue", "woken"}
            /\ p \notin {"count", "clearOrOpen", "clear", "open"}
        OBVIOUS
      <4>4. at' = [at EXCEPT ![t] = p]
        BY <4>2
      <4> HIDE DEF p
      <4> QED  BY <4>1, <4>3, <4>4, Moves
    <3> QED  BY <3>1
  <2> QED  BY <1>2, <1>4, <2>1, <2>2, <2>3
<1>8. Typed'
  <2>1. timedOut' \in [Waiters -> BOOLEAN] /\ numWaitersGone' \in [Waiters -> 0 .. 1]
    BY <1>5 DEF Typed
  <2>2. m_blockLock' \in 0 .. 1 /\ m_numWaitersBlocked' \in Int
    BY <1>2, <1>5 DEF Typed
  <2> QED  BY <1>5, <2>1, <2>2, MovesTyped DEF Typed, WaiterPlaces
<1>9. Alone'
  BY <1>1, <1>5, MovesAlone
<1>10. OnlyTimed'
  BY <1>5, <1>6, <1>7, MovesOnly
<1>11. Accounted'
  <2>1. /\ Cardinality(Waiting) \in Nat /\ GoneLimit \in Nat
        /\ Cardinality(Waiting') = Cardinality(Waiting) + 1
    BY <1>7, WaitingCounts, Limits
  <2> QED  BY <1>2, <1>5, <2>1 DEF Accounted, IInv, Typed
<1>12. OneCarries'
  <2>1. ~Owed'
    BY <1>2, <1>3, <1>5, <1>6 DEF Owed
  <2> QED  BY <1>4, <1>5, <1>7, <2>1 DEF OneCarries
<1>13. CloserAlone'
  <2>1. \A u \in Notifiers : at'[u] = at[u]
    BY <1>7 DEF Threads
  <2> QED  BY <1>5, <2>1 DEF CloserAlone, IInv, Typed
<1>14. OneOpens'
  BY <1>2, <1>5, <1>7 DEF OneOpens
<1> QED  BY <1>2, <1>5, <1>7, <1>8, <1>9, <1>10, <1>11, <1>12, <1>13, <1>14 DEF IInv

\* The wakeup of a notification stays to be sent when the time of a wait is over.
LEMMA TimeOutInv ==
    ASSUME IInv, NEW t \in Waiters, TimeOut(t)
    PROVE  IInv' /\ Waiting' = Waiting /\ UNCHANGED counters
<1> Typed /\ t \in Threads /\ t \notin Notifiers
  BY Sets DEF IInv, Threads
<1> USE DEF counters
<1>1. /\ at[t] = "queue" /\ at' = [at EXCEPT ![t] = "woken"] /\ t \in Timed
      /\ timedOut' = [timedOut EXCEPT ![t] = TRUE]
      /\ UNCHANGED <<numWaitersGone, assocMutex, unblockLock, m_blockLock, m_blockQueue,
                     counters, assertFailed>>
  BY DEF TimeOut, Goto
<1>2. timedOut'[t] /\ \A u \in Waiters \ {t} : timedOut'[u] = timedOut[u]
  BY <1>1 DEF Typed
<1>3. /\ UNCHANGED <<Carriers, Waiting, Openers>>
      /\ at'[t] = "woken" /\ \A u \in Threads \ {t} : at'[u] = at[u]
  <2>1. t \notin Carriers /\ t \in Waiting /\ t \notin Openers
    BY <1>1 DEF Carriers, Carries, Waiting, Openers
  <2>2. /\ Carriers' = Carriers \ {t} /\ Openers' = Openers \ {t} /\ Waiting' = Waiting \cup {t}
        /\ at'[t] = "woken" /\ \A u \in Threads \ {t} : at'[u] = at[u]
    BY <1>1, <1>2, Moves
  <2> QED  BY <2>1, <2>2
<1>4. Typed'
  <2>1. timedOut' \in [Waiters -> BOOLEAN]
    BY <1>1 DEF Typed
  <2> QED  BY <1>1, <2>1, MovesTyped DEF Typed, WaiterPlaces
<1>5. Alone'
  BY <1>1, MovesAlone
<1>6. OnlyTimed'
  BY <1>1, <1>2, <1>3, MovesOnly DEF IInv, OnlyTimed
<1>7. OneCarries'
  <2>1. \A u \in Waiters : at'[u] \in {"queue", "clear"} => at[u] = at'[u]
    BY <1>3 DEF Threads
  <2> QED  BY <1>1, <1>3, <2>1 DEF IInv, OneCarries, Owed
<1>8. \A u \in Notifiers : at'[u] = at[u]
  BY <1>3 DEF Threads
<1> QED  BY <1>1, <1>3, <1>4, <1>5, <1>6, <1>7, <1>8 DEF IInv, Accounted, OneOpens, CloserAlone

\* A waiter that is awake takes one notification off: one that was woken carries the
\* rest on, the last one goes to open the gate, and one that timed out leaves the
\* wakeup to come.
LEMMA UnblockInv ==
    ASSUME IInv, NEW t \in Waiters, Unblock(t)
    PROVE  /\ IInv'
           /\ t \in Waiting /\ Waiting' = Waiting \ {t}
           /\ m_numWaitersToUnblock > 0 /\ m_numWaitersToUnblock' = m_numWaitersToUnblock - 1
<1> Typed /\ t \in Threads /\ t \notin Notifiers
  BY Sets DEF IInv, Threads
<1> DEFINE last       == m_numWaitersToUnblock = 1
           gateOpened == last /\ m_numWaitersBlocked # 0
           to == IF gateOpened THEN "relock" ELSE IF last THEN "clearOrOpen" ELSE "post"
           takes == IF timedOut[t] THEN 1 ELSE 0
<1>1. /\ at[t] = "woken"
      /\ unblockLock = None /\ m_numWaitersToUnblock # 0
      /\ m_numWaitersToUnblock' = m_numWaitersToUnblock - 1
      /\ UNCHANGED <<timedOut, assocMutex, unblockLock, m_blockQueue, assertFailed>>
  BY DEF Unblock, UnblockedOne
<1>2. m_numWaitersGone = 0 /\ m_numWaitersBlocked >= 0 /\ m_numWaitersToUnblock > 0
  BY <1>1 DEF IInv, Accounted, Typed
<1>3. timedOut[t] => m_numWaitersBlocked = 0 /\ last
  <2> SUFFICES ASSUME timedOut[t] PROVE m_numWaitersBlocked = 0 /\ last
    OBVIOUS
  <2>1. Cardinality(Waiting) = 1
    BY <1>1, TimedOutAlone
  <2>2. m_numWaitersBlocked + m_numWaitersToUnblock <= 1
    BY <1>2, <2>1, Limits DEF IInv, Accounted, Typed
  <2> QED  BY <1>2, <2>2 DEF Typed
<1> DEFINE expired == timedOut[t] /\ m_numWaitersBlocked # 0
           blocked == IF expired THEN m_numWaitersBlocked - 1 ELSE m_numWaitersBlocked
           gone    == IF timedOut[t] /\ ~expired THEN 1 ELSE m_numWaitersGone
           signals == SignalsLeft(expired, last /\ blocked # 0)
           left(s) == CASE s = 0 -> "relock" [] s = 1 -> "clearOrOpen" [] OTHER -> "post"
<1>4. /\ m_numWaitersBlocked' = blocked
      /\ m_blockLock' = IF last /\ blocked # 0 THEN m_blockLock + 1 ELSE m_blockLock
      /\ m_numWaitersGone' = IF last /\ blocked = 0 THEN 0 ELSE gone
      /\ numWaitersGone' = [numWaitersGone EXCEPT ![t] = IF last /\ blocked = 0 THEN gone ELSE 0]
      /\ at' = [at EXCEPT ![t] = left(signals)]
  BY Zenon DEF Unblock
<1>5. ~expired /\ blocked = m_numWaitersBlocked /\ gone = takes
  BY <1>2, <1>3
<1>6. at' = [at EXCEPT ![t] = to]
  <2>1. signals = IF gateOpened THEN 0 ELSE m_numWaitersToUnblock
    BY <1>5 DEF SignalsLeft
  <2>2. left(signals) = to
    <3> HIDE DEF signals
    <3> QED  BY <1>1, <2>1 DEF Typed
  <2> HIDE DEF left, signals, to
  <2> QED  BY <1>4, <2>2
<1>7. /\ UNCHANGED m_numWaitersBlocked
      /\ m_blockLock' = IF gateOpened THEN m_blockLock + 1 ELSE m_blockLock
      /\ m_numWaitersGone' = 0
      /\ numWaitersGone' = [numWaitersGone EXCEPT ![t] = takes]
  <2>1. UNCHANGED m_numWaitersBlocked
    BY <1>4, <1>5
  <2>2. m_blockLock' = IF gateOpened THEN m_blockLock + 1 ELSE m_blockLock
    BY <1>4, <1>5
  <2>3. (IF last /\ blocked = 0 THEN gone ELSE 0) = takes
    BY <1>2, <1>3, <1>5
  <2>4. (IF last /\ blocked = 0 THEN 0 ELSE gone) = 0
    BY <1>2, <1>3, <1>5
  <2> HIDE DEF last, blocked, gone, takes
  <2> QED  BY <1>4, <2>1, <2>2, <2>3, <2>4
<1> HIDE DEF expired, blocked, gone, signals, left
<1>8. Openers = {} /\ m_blockLock = 0
  BY <1>1 DEF IInv, OneOpens
<1>9. \A u \in Waiters : numWaitersGone[u] = 0
  BY <1>8, ClearersOpen
<1>10. to \in {"relock", "clearOrOpen", "post"}
  OBVIOUS
<1>11. takes \in 0 .. 1 /\ (takes # 0 <=> timedOut[t])
  OBVIOUS
<1> HIDE DEF takes
<1>12. numWaitersGone'[t] = takes /\ \A u \in Waiters \ {t} : numWaitersGone'[u] = 0
  BY <1>7, <1>9 DEF Typed
<1>13. /\ t \in Waiting /\ Waiting' = Waiting \ {t}
       /\ Carriers' = IF to = "post" THEN Carriers \cup {t} ELSE Carriers \ {t}
       /\ Openers' = IF to = "clearOrOpen" THEN {t} ELSE {}
       /\ at'[t] = to /\ \A u \in Threads \ {t} : at'[u] = at[u]
  <2> HIDE DEF to
  <2> QED  BY <1>1, <1>6, <1>8, <1>10, Moves DEF Waiting
<1>14. Typed'
  <2>1. m_numWaitersToUnblock' \in Nat /\ m_blockLock' \in 0 .. 1
    BY <1>1, <1>2, <1>7, <1>8 DEF Typed
  <2>2. numWaitersGone' \in [Waiters -> 0 .. 1]
    BY <1>7, <1>11 DEF Typed
  <2> HIDE DEF to
  <2> QED  BY <1>1, <1>6, <1>7, <1>10, <2>1, <2>2, MovesTyped DEF Typed, WaiterPlaces
<1>15. Alone'
  BY <1>1, <1>6, MovesAlone
<1>16. OnlyTimed'
  <2>1. takes # 0 => t \in Timed /\ to = "clearOrOpen"
    BY <1>1, <1>3, <1>11, TimedOutAlone
  <2>2. timedOut'[t] => t \in Timed
    BY <1>1 DEF IInv, OnlyTimed
  <2> HIDE DEF to
  <2> QED  BY <1>1, <1>6, <1>9, <1>10, <1>12, <1>13, <2>1, <2>2, MovesOnly
<1>17. Accounted'
  <2>1. /\ Cardinality(Waiting) \in Nat /\ GoneLimit \in Nat
        /\ Cardinality(Waiting') = Cardinality(Waiting) - 1
    BY <1>13, WaitingCounts, Limits
  <2> QED  BY <1>1, <1>2, <1>7, <2>1 DEF Accounted, IInv, Typed
<1>18. CloserAlone'
  <2>1. \A u \in Notifiers : at'[u] = at[u]
    BY <1>13 DEF Threads
  <2>2. \A u \in Notifiers : at[u] \notin {"closeAll", "closeOne"}
    BY <1>1 DEF CloserAlone, IInv
  <2> QED  BY <2>1, <2>2 DEF CloserAlone
<1>19. OneOpens'
  BY <1>1, <1>2, <1>7, <1>8, <1>13 DEF OneOpens, Typed
<1>20. OneCarries'
  <2>1. Owed /\ \A u \in Waiters : at'[u] \in {"queue", "clear"} => at[u] = at'[u]
    BY <1>1, <1>10, <1>13 DEF Owed, Threads
  <2>2. CASE timedOut[t]
    <3>1. t \notin Carriers /\ Owed' /\ to # "post"
      BY <1>1, <1>3, <1>11, <1>12, <2>2 DEF Carriers, Carries, Owed
    <3>2. Carriers' = Carriers
      BY <1>13, <3>1
    <3> HIDE DEF to
    <3> QED  BY <1>1, <2>1, <3>1, <3>2 DEF IInv, OneCarries
  <2>3. CASE ~timedOut[t]
    <3>1. Carriers = {t} /\ m_blockQueue = 0
      BY <1>1, <2>1, <2>3 DEF Carriers, Carries, IInv, OneCarries
    <3>2. Owed' <=> ~last
      BY <1>1, <1>2, <1>11, <1>12, <2>3 DEF Owed, Typed
    <3>3. to = "post" <=> ~last
      OBVIOUS
    <3>4. Carriers' = IF last THEN {} ELSE {t}
      BY <1>13, <3>1, <3>3
    <3> HIDE DEF to, last
    <3> QED  BY <1>1, <3>1, <3>2, <3>4 DEF OneCarries
  <2> QED  BY <2>2, <2>3
<1> QED  BY <1>1, <1>2, <1>13, <1>14, <1>15, <1>16, <1>17, <1>18, <1>19, <1>20 DEF IInv

\* Who finds no notification due was alone when its time was over.
LEMMA CountGoneInv ==
    ASSUME IInv, NEW t \in Waiters, CountGone(t)
    PROVE  /\ IInv'
           /\ t \in Timed \cap Waiting /\ Waiting' = Waiting \ {t}
           /\ m_numWaitersToUnblock = 0 /\ UNCHANGED m_numWaitersToUnblock
<1> Typed /\ t \in Threads /\ t \notin Notifiers
  BY Sets DEF IInv, Threads
<1> USE DEF locals
<1> DEFINE to == IF m_numWaitersGone + 1 = GoneLimit THEN "forget" ELSE "relock"
<1>1. /\ at[t] = "woken" /\ unblockLock = None /\ m_numWaitersToUnblock = 0
      /\ m_numWaitersGone' = m_numWaitersGone + 1
      /\ at' = [at EXCEPT ![t] = to]
      /\ UNCHANGED <<locals, assocMutex, m_blockLock, m_blockQueue, m_numWaitersBlocked,
                     m_numWaitersToUnblock, assertFailed>>
      /\ unblockLock' \in {None, t}
      /\ to = "forget" => unblockLock' = t /\ m_numWaitersGone' = GoneLimit
  BY DEF CountGone
<1>2. to \in {"forget", "relock"}
  OBVIOUS
<1> HIDE DEF to
<1>3. timedOut[t]
  <2> SUFFICES ASSUME ~timedOut[t] PROVE FALSE
    OBVIOUS
  <2>1. t \in Carriers
    BY <1>1 DEF Carriers, Carries
  <2>2. PICK u \in Waiters : numWaitersGone[u] # 0
    BY <1>1, <2>1 DEF IInv, OneCarries, Owed
  <2>3. numWaitersGone[t] = 0
    BY <1>1 DEF IInv, OnlyTimed
  <2> QED  BY <1>1, <2>2, <2>3, ClearersOpen
<1>4. /\ t \in Waiting /\ Waiting' = Waiting \ {t}
      /\ UNCHANGED <<Carriers, Openers>>
      /\ at'[t] = to /\ \A u \in Threads \ {t} : at'[u] = at[u]
  <2>1. t \in Waiting /\ t \notin Carriers /\ t \notin Openers
    BY <1>1, <1>3 DEF Waiting, Carriers, Carries, Openers
  <2>2. /\ Carriers' = Carriers \ {t} /\ Openers' = Openers \ {t} /\ Waiting' = Waiting \ {t}
        /\ at'[t] = to /\ \A u \in Threads \ {t} : at'[u] = at[u]
    BY <1>1, <1>2, Moves
  <2> QED  BY <2>1, <2>2
<1>5. Typed'
  BY <1>1, <1>2, MovesTyped DEF Typed, WaiterPlaces
<1>6. Alone'
  BY <1>1, MovesAlone
<1>7. OnlyTimed'
  <2>1. t \in Timed /\ numWaitersGone[t] = 0
    BY <1>1, <1>3 DEF IInv, OnlyTimed
  <2> QED  BY <1>1, <1>2, <1>4, <2>1, MovesOnly
<1>8. Accounted'
  <2>1. /\ Cardinality(Waiting) \in Nat /\ GoneLimit \in Nat
        /\ Cardinality(Waiting') = Cardinality(Waiting) - 1
    BY <1>4, WaitingCounts, Limits
  <2> QED  BY <1>1, <2>1 DEF Accounted, IInv, Typed
<1>9. OneCarries'
  <2>1. \A u \in Waiters : at'[u] \in {"queue", "clear"} => at[u] = at'[u]
    BY <1>2, <1>4 DEF Threads
  <2> QED  BY <1>1, <1>4, <2>1 DEF IInv, OneCarries, Owed
<1>10. CloserAlone'
  <2>1. \A u \in Notifiers : at'[u] = at[u] /\ at[u] \notin {"closeAll", "closeOne"}
    BY <1>1, <1>4, NoneIsNobody DEF Threads, CloserAlone, IInv
  <2> QED  BY <2>1 DEF CloserAlone
<1>11. t \in Timed
  BY <1>3 DEF IInv, OnlyTimed
<1> QED  BY <1>1, <1>11, <1>4, <1>5, <1>6, <1>7, <1>8, <1>9, <1>10 DEF IInv, OneOpens

\* When too many have gone nobody waits.
LEMMA ForgetGoneInv ==
    ASSUME IInv, NEW t \in Waiters, ForgetGone(t)
    PROVE  IInv' /\ Waiting' = Waiting /\ UNCHANGED m_numWaitersToUnblock
<1> Typed /\ t \in Threads /\ t \notin Notifiers
  BY Sets DEF IInv, Threads
<1> USE DEF locals
<1>1. /\ at[t] = "forget" /\ at' = [at EXCEPT ![t] = "relock"]
      /\ m_numWaitersBlocked' = m_numWaitersBlocked - m_numWaitersGone
      /\ assertFailed' = TRUE /\ unblockLock' = None
      /\ UNCHANGED <<locals, assocMutex, m_blockLock, m_blockQueue, m_numWaitersGone,
                     m_numWaitersToUnblock>>
  BY DEF ForgetGone
<1>2. t \in Timed /\ unblockLock = t /\ m_numWaitersToUnblock = 0 /\ m_numWaitersGone = GoneLimit
  BY <1>1 DEF IInv, OnlyTimed
<1>3. Cardinality(Waiting) = 0 /\ Waiting = {}
  BY <1>1, TimedOutAlone
<1>4. /\ UNCHANGED <<Carriers, Openers, Waiting>>
      /\ at'[t] = "relock" /\ \A u \in Threads \ {t} : at'[u] = at[u]
  <2>1. t \notin Carriers /\ t \notin Openers
    BY <1>1 DEF Carriers, Carries, Openers
  <2>2. /\ Carriers' = Carriers \ {t} /\ Openers' = Openers \ {t} /\ Waiting' = Waiting \ {t}
        /\ at'[t] = "relock" /\ \A u \in Threads \ {t} : at'[u] = at[u]
    BY <1>1, Moves
  <2> QED  BY <1>3, <2>1, <2>2
<1>5. Typed'
  <2>1. m_numWaitersBlocked' \in Int
    BY <1>1 DEF Typed
  <2> QED  BY <1>1, <2>1, MovesTyped DEF Typed, WaiterPlaces
<1>6. Alone'
  BY <1>1, MovesAlone
<1>7. OnlyTimed'
  BY <1>1, <1>2, <1>4, MovesOnly DEF IInv, OnlyTimed
<1>8. Accounted'
  BY <1>1, <1>2, <1>3, <1>4, Limits DEF Accounted, IInv, Typed
<1>9. OneCarries'
  <2>1. \A u \in Waiters : at'[u] \in {"queue", "clear"} => at[u] = at'[u]
    BY <1>4 DEF Threads
  <2> QED  BY <1>1, <1>4, <2>1 DEF IInv, OneCarries, Owed
<1>10. CloserAlone'
  <2>1. \A u \in Notifiers : at'[u] = at[u] /\ at[u] \notin {"closeAll", "closeOne"}
    BY <1>2, <1>4 DEF Threads, CloserAlone, IInv
  <2> QED  BY <2>1 DEF CloserAlone
<1> QED  BY <1>1, <1>4, <1>5, <1>6, <1>7, <1>8, <1>9, <1>10 DEF IInv, OneOpens

\* The last one takes the wakeup left over out of the queue, or waits for it there,
\* and opens the gate.
LEMMA ClearInv ==
    ASSUME IInv, NEW t \in Waiters, Clear(t)
    PROVE  IInv' /\ Waiting' = Waiting /\ UNCHANGED counters
<1> Typed /\ t \in Threads /\ t \notin Notifiers
  BY Sets DEF IInv, Threads
<1> USE DEF counters
<1> DEFINE n == IF numWaitersGone[t] < m_blockQueue THEN numWaitersGone[t] ELSE m_blockQueue
           to == IF numWaitersGone[t] = n THEN "open" ELSE "clear"
<1>1. /\ at[t] = "clearOrOpen"
      /\ m_blockQueue' = m_blockQueue - n
      /\ numWaitersGone' = [numWaitersGone EXCEPT ![t] = numWaitersGone[t] - n]
      /\ at' = [at EXCEPT ![t] = to]
      /\ UNCHANGED <<timedOut, assocMutex, unblockLock, m_blockLock, counters, assertFailed>>
  BY DEF Clear
<1>2. n \in 0 .. 1 /\ numWaitersGone[t] - n \in 0 .. 1 /\ m_blockQueue - n \in 0 .. 1
  BY DEF Typed
<1>3. to \in {"open", "clear"} /\ (to = "clear" <=> numWaitersGone[t] - n # 0)
  BY <1>2 DEF Typed
<1>4. n # 0 => numWaitersGone[t] = 1 /\ m_blockQueue = 1 /\ n = 1
  BY DEF Typed
<1>5. to = "clear" => m_blockQueue = 0 /\ n = 0
  BY DEF Typed
<1> HIDE DEF n, to
<1>6. /\ numWaitersGone'[t] = numWaitersGone[t] - n
      /\ \A u \in Waiters \ {t} : numWaitersGone'[u] = numWaitersGone[u]
  BY <1>1 DEF Typed
<1>7. /\ UNCHANGED <<Carriers, Waiting, Openers>>
      /\ at'[t] = to /\ \A u \in Threads \ {t} : at'[u] = at[u]
  <2>1. t \notin Carriers /\ t \notin Waiting /\ t \in Openers
    BY <1>1 DEF Carriers, Carries, Waiting, Openers
  <2>2. /\ Carriers' = Carriers \ {t} /\ Openers' = Openers \cup {t} /\ Waiting' = Waiting \ {t}
        /\ at'[t] = to /\ \A u \in Threads \ {t} : at'[u] = at[u]
    BY <1>1, <1>3, Moves
  <2> QED  BY <2>1, <2>2
<1>8. m_numWaitersToUnblock = 0 /\ Openers = {t}
  BY <1>1 DEF IInv, OneOpens, Openers
<1>9. Typed'
  <2>1. numWaitersGone' \in [Waiters -> 0 .. 1] /\ m_blockQueue' \in 0 .. 1
    BY <1>1, <1>2 DEF Typed
  <2> QED  BY <1>1, <1>3, <2>1, MovesTyped DEF Typed, WaiterPlaces
<1>10. Alone'
  BY <1>1, MovesAlone
<1>11. OnlyTimed'
  <2>1. numWaitersGone'[t] # 0 => t \in Timed /\ to = "clear"
    <3>1. numWaitersGone'[t] # 0 => numWaitersGone[t] # 0
      BY <1>2, <1>4, <1>6 DEF Typed
    <3> QED  BY <1>3, <1>6, <3>1 DEF IInv, OnlyTimed
  <2>2. timedOut[t] => t \in Timed
    BY DEF IInv, OnlyTimed
  <2> QED  BY <1>1, <1>3, <1>6, <1>7, <2>1, <2>2, MovesOnly
<1>12. OneCarries'
  <2>1. \A u \in Waiters \ {t} : numWaitersGone[u] = 0
    BY <1>8, ClearersOpen
  <2>2. Owed <=> numWaitersGone[t] # 0
    BY <1>8, <2>1 DEF Owed
  <2>3. Owed' <=> numWaitersGone'[t] # 0
    BY <1>1, <1>6, <1>8, <2>1 DEF Owed
  <2>4. CASE n = 0
    <3>1. m_blockQueue' = m_blockQueue /\ numWaitersGone'[t] = numWaitersGone[t]
      BY <1>1, <1>6, <2>4 DEF Typed
    <3>2. \A u \in Waiters : at'[u] \in {"queue", "clear"} => at[u] = at'[u] \/ m_blockQueue = 0
      BY <1>3, <1>5, <1>7 DEF Threads
    <3> QED  BY <1>7, <2>2, <2>3, <3>1, <3>2 DEF IInv, OneCarries
  <2>5. CASE n # 0
    <3>1. numWaitersGone'[t] = 0 /\ m_blockQueue' = 0 /\ Owed /\ m_blockQueue = 1
      BY <1>1, <1>4, <1>6, <2>2, <2>5
    <3>2. Carriers' = {}
      BY <1>7, <3>1 DEF IInv, OneCarries
    <3> QED  BY <2>3, <3>1, <3>2 DEF OneCarries
  <2> QED  BY <2>4, <2>5
<1>13. \A u \in Notifiers : at'[u] = at[u]
  BY <1>7 DEF Threads
<1> QED  BY <1>1, <1>7, <1>9, <1>10, <1>11, <1>12, <1>13 DEF IInv, Accounted, OneOpens, CloserAlone

LEMMA OpenGateInv ==
    ASSUME IInv, NEW t \in Waiters, OpenGate(t)
    PROVE  IInv' /\ Waiting' = Waiting /\ UNCHANGED counters
<1> Typed /\ t \in Threads /\ t \notin Notifiers
  BY Sets DEF IInv, Threads
<1> USE DEF locals, counters
<1>1. /\ at[t] = "open" /\ at' = [at EXCEPT ![t] = "relock"]
      /\ m_blockLock' = m_blockLock + 1
      /\ UNCHANGED <<locals, assocMutex, unblockLock, m_blockQueue, counters, assertFailed>>
  BY DEF OpenGate, Goto
<1>2. Openers = {t} /\ m_numWaitersToUnblock = 0 /\ m_blockLock = 0
  BY <1>1 DEF IInv, OneOpens, Openers
<1>3. /\ UNCHANGED <<Carriers, Waiting>> /\ Openers' = {}
      /\ at'[t] = "relock" /\ \A u \in Threads \ {t} : at'[u] = at[u]
  <2>1. t \notin Carriers /\ t \notin Waiting
    BY <1>1 DEF Carriers, Carries, Waiting
  <2>2. /\ Carriers' = Carriers \ {t} /\ Openers' = Openers \ {t} /\ Waiting' = Waiting \ {t}
        /\ at'[t] = "relock" /\ \A u \in Threads \ {t} : at'[u] = at[u]
    BY <1>1, Moves
  <2> QED  BY <1>2, <2>1, <2>2
<1>4. Typed'
  BY <1>1, <1>2, MovesTyped DEF Typed, WaiterPlaces
<1>5. Alone'
  BY <1>1, MovesAlone
<1>6. OnlyTimed'
  BY <1>1, <1>3, MovesOnly DEF IInv, OnlyTimed
<1>7. OneCarries'
  <2>1. \A u \in Waiters : at'[u] \in {"queue", "clear"} => at[u] = at'[u]
    BY <1>3 DEF Threads
  <2> QED  BY <1>1, <1>3, <2>1 DEF IInv, OneCarries, Owed
<1>8. \A u \in Notifiers : at'[u] = at[u]
  BY <1>3 DEF Threads
<1> QED  BY <1>1, <1>2, <1>3, <1>4, <1>5, <1>6, <1>7, <1>8 DEF IInv, Accounted, OneOpens, CloserAlone

\* Who sends a wakeup hands it to a waiter, or to who waits to clear it from the
\* queue, or leaves it in the queue where nobody waits for it.
LEMMA Hands ==
    ASSUME IInv, NEW t \in Threads, NEW to,
           at[t] \in {"post", "wakeFirst"}, ReleaseQueue(t, to)
    PROVE  \/ \E u \in Waiters :
              /\ u # t /\ at[u] = "queue"
              /\ at' = [at EXCEPT ![t] = to, ![u] = "woken"]
              /\ UNCHANGED <<m_blockQueue, numWaitersGone>>
           \/ \E u \in Waiters :
              /\ u # t /\ at[u] = "clear"
              /\ at' = [at EXCEPT ![t] = to, ![u] = "open"]
              /\ numWaitersGone' = [numWaitersGone EXCEPT ![u] = 0]
              /\ UNCHANGED m_blockQueue
           \/ /\ \A u \in Waiters : at[u] \notin {"queue", "clear"}
              /\ at' = [at EXCEPT ![t] = to]
              /\ m_blockQueue' = m_blockQueue + 1
              /\ UNCHANGED numWaitersGone
<1> DEFINE blocked == {u \in Waiters : at[u] \in {"queue", "clear"}}
           goes(u) == CASE at[u] = "queue" -> "woken"
                        [] numWaitersGone[u] > 1 -> "clear"
                        [] OTHER -> "open"
<1>1. CASE /\ blocked = {}
           /\ m_blockQueue' = m_blockQueue + 1
           /\ at' = [at EXCEPT ![t] = to]
           /\ UNCHANGED numWaitersGone
  <2>1. \A u \in Waiters : at[u] \notin {"queue", "clear"}
    BY <1>1
  <2> QED  BY <1>1, <2>1, Zenon
<1>2. ASSUME NEW u \in blocked,
             numWaitersGone' = IF at[u] = "queue" THEN numWaitersGone
                               ELSE [numWaitersGone EXCEPT ![u] = @ - 1],
             at' = [at EXCEPT ![t] = to, ![u] = goes(u)],
             UNCHANGED m_blockQueue
      PROVE  \/ \E v \in Waiters :
                /\ v # t /\ at[v] = "queue"
                /\ at' = [at EXCEPT ![t] = to, ![v] = "woken"]
                /\ UNCHANGED <<m_blockQueue, numWaitersGone>>
             \/ \E v \in Waiters :
                /\ v # t /\ at[v] = "clear"
                /\ at' = [at EXCEPT ![t] = to, ![v] = "open"]
                /\ numWaitersGone' = [numWaitersGone EXCEPT ![v] = 0]
                /\ UNCHANGED m_blockQueue
  <2>1. u \in Waiters /\ u # t /\ at[u] \in {"queue", "clear"}
    BY <1>2
  <2>2. CASE at[u] = "queue"
    <3>1. goes(u) = "woken"
      <4>1. ~(numWaitersGone[u] > 1)
        BY <2>1, <2>2 DEF IInv, OnlyTimed
      <4> QED  BY <2>2, <4>1
    <3>2. at' = [at EXCEPT ![t] = to, ![u] = "woken"] /\ UNCHANGED numWaitersGone
      BY <1>2, <2>2, <3>1, Zenon
    <3> QED  BY <1>2, <2>1, <2>2, <3>2
  <2>3. CASE at[u] = "clear"
    <3>1. numWaitersGone[u] = 1
      BY <2>1, <2>3, ClearersOpen DEF IInv, OnlyTimed
    <3>2. goes(u) = "open" /\ numWaitersGone[u] - 1 = 0
      BY <2>3, <3>1
    <3> HIDE DEF goes
    <3>3. at' = [at EXCEPT ![t] = to, ![u] = "open"]
      BY <1>2, <3>2
    <3>4. numWaitersGone' = [numWaitersGone EXCEPT ![u] = 0]
      BY <1>2, <2>3, <3>2
    <3> QED  BY <1>2, <2>1, <2>3, <3>3, <3>4, Zenon
  <2> QED  BY <2>1, <2>2, <2>3
<1> QED  BY <1>1, <1>2, Zenon DEF ReleaseQueue

\* The wakeup goes to a waiter, which carries it on, to who clears it, or to the queue.
LEMMA HandOnInv ==
    ASSUME IInv, NEW t \in Threads,
           (UnblockNext(t) /\ t \in Waiters) \/ (WakeFirst(t) /\ t \in Notifiers)
    PROVE  IInv' /\ Waiting' = Waiting /\ UNCHANGED counters
<1> Typed
  BY DEF IInv
<1> USE DEF counters
<1> DEFINE to == IF t \in Waiters THEN "relock" ELSE "out"
           Hand(u, place) == at' = [at EXCEPT ![t] = to, ![u] = place]
<1>1. /\ at[t] = IF t \in Waiters THEN "post" ELSE "wakeFirst"
      /\ ReleaseQueue(t, to)
      /\ UNCHANGED <<timedOut, assocMutex, unblockLock, m_blockLock, counters, assertFailed>>
  BY Sets DEF UnblockNext, WakeFirst
<1>2. /\ t \in Waiters => to \in WaiterPlaces
      /\ t \in Notifiers => to \in NotifierPlaces
      /\ to \in {"relock", "out"} /\ (t \in Waiters \/ t \in Notifiers)
      /\ at[t] # "out"
  BY <1>1, Sets DEF WaiterPlaces, NotifierPlaces, Threads
<1> HIDE DEF to
<1>3. t \in Carriers /\ t \notin Openers /\ t \notin Waiting
  BY <1>1 DEF Carriers, Carries, Openers, Waiting
<1>4. Owed /\ m_blockQueue = 0 /\ Carriers = {t}
  BY <1>3 DEF IInv, OneCarries
<1>5. ASSUME NEW u \in Waiters, u # t, NEW place \in {"woken", "open"}, Hand(u, place),
             at[u] = IF place = "woken" THEN "queue" ELSE "clear",
             \A v \in Waiters \ {u} : numWaitersGone'[v] = numWaitersGone[v],
             place = "open" => numWaitersGone'[u] = 0,
             place = "woken" => UNCHANGED numWaitersGone,
             numWaitersGone' \in [Waiters -> 0 .. 1], UNCHANGED m_blockQueue
      PROVE  IInv' /\ Waiting' = Waiting
  <2>1. /\ u \in Threads /\ u \notin Notifiers
        /\ at'[t] = to /\ at'[u] = place /\ \A v \in Threads \ {t, u} : at'[v] = at[v]
    BY <1>5, Sets DEF Typed, Threads
  <2>2. Typed'
    <3>1. at' \in [Threads -> WaiterPlaces \cup NotifierPlaces]
      BY <1>2, <1>5, <2>1 DEF Typed, WaiterPlaces
    <3>2. /\ \A v \in Waiters : at'[v] \in WaiterPlaces
          /\ \A v \in Notifiers : at'[v] \in NotifierPlaces
      BY <1>2, <1>5, <2>1, Sets DEF Typed, WaiterPlaces, Threads
    <3> QED  BY <1>1, <1>5, <3>1, <3>2 DEF Typed
  <2>3. Alone'
    <3>1. \A v \in Waiters : v \in Threads /\ (at[v] = "out" => at'[v] = "out" /\ v # t)
      BY <1>2, <1>5, <2>1 DEF Threads
    <3>2. \A v \in Waiters : at'[v] # "out" => at[v] # "out"
      BY <3>1
    <3> QED  BY <3>1, <3>2, Sets DEF IInv, Alone
  <2>4. OnlyTimed'
    <3>1. \A v \in Waiters \ {t, u} : at'[v] = at[v] /\ numWaitersGone'[v] = numWaitersGone[v]
      BY <1>5, <2>1 DEF Threads
    <3>2. t \in Waiters => numWaitersGone[t] = 0 /\ numWaitersGone'[t] = numWaitersGone[t]
      BY <1>1, <1>5 DEF IInv, OnlyTimed
    <3>3. numWaitersGone'[u] = 0
      BY <1>5 DEF IInv, OnlyTimed
    <3>4. /\ at'[t] # "queue" /\ at'[t] # "clear" /\ at'[t] # "forget"
          /\ at'[u] # "queue" /\ at'[u] # "clear" /\ at'[u] # "forget"
      BY <1>2, <1>5, <2>1
    <3>5. \A v \in Waiters : timedOut[v] => v \in Timed
      BY DEF IInv, OnlyTimed
    <3>6. \A v \in {t, u} \cap Waiters : numWaitersGone'[v] = 0
      BY <3>2, <3>3
    <3>7. UNCHANGED <<timedOut, unblockLock, m_numWaitersToUnblock, m_numWaitersGone>> /\ OnlyTimed
      BY <1>1 DEF IInv
    <3> QED  BY <3>1, <3>4, <3>5, <3>6, <3>7 DEF OnlyTimed
  <2>5. Waiting' = Waiting /\ Openers' = Openers
    <3>1. \A v \in Threads : (v \in Waiting' <=> v \in Waiting) /\ (v \in Openers' <=> v \in Openers)
      BY <1>2, <1>3, <1>5, <2>1 DEF Waiting, Openers, Threads
    <3> QED  BY <3>1 DEF Waiting, Openers, Threads
  <2>6. Carriers' = IF place = "woken" THEN {u} ELSE {}
    <3>1. \A v \in Threads \ {t, u} : ~Carries(v)'
      <4>1. \A v \in Threads \ {t, u} : ~Carries(v)
        BY <1>4 DEF Carriers
      <4>2. \A v \in Notifiers : at[v] # "woken"
        BY DEF Typed, NotifierPlaces
      <4> QED  BY <1>1, <2>1, <4>1, <4>2 DEF Carries, Threads
    <3>2. ~Carries(t)'
      BY <1>2, <2>1 DEF Carries
    <3>3. Carries(u)' <=> place = "woken"
      BY <1>1, <1>5, <2>1 DEF Carries, IInv, OnlyTimed
    <3> QED  BY <2>1, <3>1, <3>2, <3>3 DEF Carriers
  <2>7. Owed' <=> place = "woken"
    <3>1. CASE place = "woken"
      BY <1>1, <1>4, <1>5, <3>1 DEF Owed
    <3>2. CASE place = "open"
      <4>1. numWaitersGone[u] # 0
        BY <1>5, <3>2 DEF IInv, OnlyTimed
      <4>2. m_numWaitersToUnblock = 0 /\ \A v \in Waiters \ {u} : numWaitersGone[v] = 0
        BY <1>5, <4>1, ClearersOpen
      <4> QED  BY <1>1, <1>5, <3>2, <4>2 DEF Owed
    <3> QED  BY <3>1, <3>2
  <2>8. OneCarries'
    BY <1>4, <1>5, <2>1, <2>6, <2>7 DEF OneCarries
  <2>9. CloserAlone'
    <3>1. \A v \in Notifiers : at'[v] \in {"closeAll", "closeOne"} => at'[v] = at[v]
      BY <1>2, <1>5, <2>1, Sets DEF Threads
    <3> QED  BY <1>1, <3>1 DEF CloserAlone, IInv
  <2> QED  BY <1>1, <2>2, <2>3, <2>4, <2>5, <2>8, <2>9 DEF IInv, Accounted, OneOpens
<1>6. ASSUME \A u \in Waiters : at[u] \notin {"queue", "clear"},
             at' = [at EXCEPT ![t] = to],
             m_blockQueue' = m_blockQueue + 1,
             UNCHANGED numWaitersGone
      PROVE  IInv' /\ Waiting' = Waiting
  <2>1. /\ Carriers' = {} /\ Waiting' = Waiting /\ Openers' = Openers
        /\ at'[t] = to /\ \A u \in Threads \ {t} : at'[u] = at[u]
    <3>1. /\ Carriers' = Carriers \ {t} /\ Waiting' = Waiting \ {t} /\ Openers' = Openers \ {t}
          /\ at'[t] = to /\ \A u \in Threads \ {t} : at'[u] = at[u]
      BY <1>1, <1>2, <1>6, Moves
    <3> QED  BY <1>3, <1>4, <3>1
  <2>2. Typed'
    <3>1. m_blockQueue' \in 0 .. 1
      BY <1>4, <1>6
    <3> QED  BY <1>1, <1>2, <1>6, <3>1, MovesTyped DEF Typed
  <2>3. Alone'
    BY <1>2, <1>6, MovesAlone
  <2>4. OnlyTimed'
    <3>1. CASE t \in Waiters
      BY <1>1, <1>2, <1>6, <2>1, <3>1, MovesOnly DEF IInv, OnlyTimed
    <3>2. CASE t \notin Waiters
      BY <1>1, <1>6, <2>1, <3>2 DEF IInv, OnlyTimed, Threads
    <3> QED  BY <3>1, <3>2
  <2>5. OneCarries'
    <3>1. \A u \in Waiters : at'[u] \notin {"queue", "clear"}
      BY <1>2, <1>6, <2>1 DEF Threads
    <3>2. Owed' /\ m_blockQueue' = 1
      BY <1>1, <1>4, <1>6 DEF Owed
    <3> QED  BY <2>1, <3>1, <3>2 DEF OneCarries
  <2>6. CloserAlone'
    <3>1. \A v \in Notifiers : at'[v] \in {"closeAll", "closeOne"} => at'[v] = at[v]
      BY <1>2, <2>1 DEF Threads
    <3> QED  BY <1>1, <3>1 DEF CloserAlone, IInv
  <2> QED  BY <1>1, <2>1, <2>2, <2>3, <2>4, <2>5, <2>6 DEF IInv, Accounted, OneOpens
<1>7. IInv' /\ Waiting' = Waiting
  <2>1. ASSUME NEW u \in Waiters, u # t, at[u] = "queue", Hand(u, "woken"),
               UNCHANGED <<m_blockQueue, numWaitersGone>>
        PROVE  IInv' /\ Waiting' = Waiting
    BY <1>5, <2>1 DEF Typed
  <2>2. ASSUME NEW u \in Waiters, u # t, at[u] = "clear", Hand(u, "open"),
               numWaitersGone' = [numWaitersGone EXCEPT ![u] = 0], UNCHANGED m_blockQueue
        PROVE  IInv' /\ Waiting' = Waiting
    <3>1. /\ numWaitersGone' \in [Waiters -> 0 .. 1] /\ numWaitersGone'[u] = 0
          /\ \A v \in Waiters \ {u} : numWaitersGone'[v] = numWaitersGone[v]
      BY <2>2 DEF Typed
    <3> QED  BY <1>5, <2>2, <3>1
  <2>3. at[t] \in {"post", "wakeFirst"}
    BY <1>1
  <2>4. \/ \E u \in Waiters : u # t /\ at[u] = "queue" /\ Hand(u, "woken")
                             /\ UNCHANGED <<m_blockQueue, numWaitersGone>>
        \/ \E u \in Waiters : u # t /\ at[u] = "clear" /\ Hand(u, "open")
                             /\ numWaitersGone' = [numWaitersGone EXCEPT ![u] = 0]
                             /\ UNCHANGED m_blockQueue
        \/ /\ \A u \in Waiters : at[u] \notin {"queue", "clear"}
           /\ at' = [at EXCEPT ![t] = to]
           /\ m_blockQueue' = m_blockQueue + 1
           /\ UNCHANGED numWaitersGone
    BY <1>1, <2>3, Hands
  <2> HIDE DEF Hand
  <2> QED  BY <1>6, <2>1, <2>2, <2>4
<1> QED  BY <1>1, <1>7

LEMMA NotifyMoreInv ==
    ASSUME IInv, NEW t \in Notifiers, NEW all \in BOOLEAN, NotifyMore(t, all)
    PROVE  /\ IInv'
           /\ UNCHANGED Waiting
           /\ FewWaiters =>
                 /\ m_numWaitersToUnblock < Cardinality(Waiting)
                 /\ m_numWaitersToUnblock' = IF all THEN Cardinality(Waiting)
                                             ELSE m_numWaitersToUnblock + 1
<1> Typed
  BY DEF IInv
<1> USE DEF locals
<1> DEFINE n == IF all THEN m_numWaitersBlocked ELSE 1
<1>1. /\ unblockLock = None /\ m_numWaitersToUnblock # 0 /\ m_numWaitersBlocked # 0
      /\ m_numWaitersToUnblock' = m_numWaitersToUnblock + n
      /\ m_numWaitersBlocked' = m_numWaitersBlocked - n
      /\ UNCHANGED <<at, locals, assocMutex, unblockLock, m_blockLock, m_blockQueue,
                     m_numWaitersGone, assertFailed>>
  BY DEF NotifyMore
<1>2. UNCHANGED <<Waiting, Carriers, Openers>>
  BY <1>1 DEF Waiting, Carriers, Carries, Openers
<1>3. m_numWaitersGone = 0 /\ m_numWaitersBlocked > 0 /\ n \in 1 .. m_numWaitersBlocked
  BY <1>1 DEF IInv, Accounted, Typed
<1>4. /\ Cardinality(Waiting) \in Nat /\ GoneLimit \in Nat
      /\ Cardinality(Waiters) \in Nat /\ Cardinality(Waiting) <= Cardinality(Waiters)
  BY WaitingCounts, Limits
<1>5. FewWaiters => /\ m_numWaitersToUnblock < Cardinality(Waiting)
                    /\ m_numWaitersToUnblock' = IF all THEN Cardinality(Waiting)
                                                ELSE m_numWaitersToUnblock + 1
  <2> SUFFICES ASSUME FewWaiters
               PROVE  /\ m_numWaitersToUnblock < Cardinality(Waiting)
                      /\ m_numWaitersToUnblock' = IF all THEN Cardinality(Waiting)
                                                  ELSE m_numWaitersToUnblock + 1
    OBVIOUS
  <2>1. ~assertFailed
    BY <1>1, <1>3, <1>4 DEF IInv, Accounted, Typed, FewWaiters
  <2> QED  BY <1>1, <1>3, <1>4, <2>1 DEF IInv, Accounted, Typed
<1> HIDE DEF n
<1>6. Typed'
  BY <1>1, <1>3 DEF Typed
<1>7. OnlyTimed'
  <2>1. \A u \in Waiters : at[u] # "forget"
    BY <1>1, NoneIsNobody DEF IInv, OnlyTimed, Threads
  <2> QED  BY <1>1, <2>1 DEF IInv, OnlyTimed
<1>8. Accounted'
  BY <1>1, <1>2, <1>3, <1>4 DEF IInv, Accounted, Typed
<1>9. m_numWaitersToUnblock' # 0
  BY <1>1, <1>3 DEF Typed
<1>10. CloserAlone'
  BY <1>1, NoneIsNobody DEF CloserAlone, IInv, Threads
<1>11. OneCarries' /\ OneOpens'
  BY <1>1, <1>2, <1>9 DEF IInv, OneCarries, OneOpens, Owed
<1>12. Alone'
  BY <1>1 DEF IInv, Alone
<1> QED  BY <1>2, <1>5, <1>6, <1>7, <1>8, <1>10, <1>11, <1>12 DEF IInv

LEMMA NotifyFirstInv ==
    ASSUME IInv, NEW t \in Notifiers, NEW all \in BOOLEAN, NotifyFirst(t, all)
    PROVE  IInv' /\ Waiting' = Waiting /\ UNCHANGED counters
<1> Typed /\ t \in Threads /\ t \notin Waiters
  BY Sets DEF IInv, Threads
<1> USE DEF locals, counters
<1> DEFINE to == IF all THEN "closeAll" ELSE "closeOne"
<1>1. /\ unblockLock = None /\ unblockLock' = t
      /\ m_numWaitersToUnblock = 0 /\ m_numWaitersBlocked > m_numWaitersGone
      /\ at[t] = "out" /\ at' = [at EXCEPT ![t] = to]
      /\ UNCHANGED <<locals, assocMutex, m_blockLock, m_blockQueue, counters, assertFailed>>
  BY DEF NotifyFirst, Goto
<1>2. to \in {"closeAll", "closeOne"}
  OBVIOUS
<1> HIDE DEF to
<1>3. /\ UNCHANGED <<Waiting, Carriers, Openers>>
      /\ at'[t] = to /\ \A u \in Threads \ {t} : at'[u] = at[u]
  <2>1. t \notin Waiting /\ t \notin Carriers /\ t \notin Openers
    BY <1>1 DEF Waiting, Carriers, Carries, Openers
  <2>2. /\ Carriers' = Carriers \ {t} /\ Waiting' = Waiting \ {t} /\ Openers' = Openers \ {t}
        /\ at'[t] = to /\ \A u \in Threads \ {t} : at'[u] = at[u]
    BY <1>1, <1>2, Moves
  <2> QED  BY <2>1, <2>2
<1>4. Typed'
  BY <1>1, <1>2, MovesTyped DEF Typed, NotifierPlaces
<1>5. Alone'
  BY <1>1, MovesAlone
<1>6. \A u \in Waiters : at'[u] = at[u] /\ at[u] # "forget"
  BY <1>1, <1>3, NoneIsNobody DEF Threads, IInv, OnlyTimed
<1>7. OnlyTimed' /\ OneCarries'
  BY <1>1, <1>3, <1>6 DEF IInv, OnlyTimed, OneCarries, Owed
<1>8. CloserAlone'
  <2>1. \A v \in Notifiers \ {t} : at'[v] = at[v] /\ at[v] \notin {"closeAll", "closeOne"}
    BY <1>1, <1>3, NoneIsNobody DEF CloserAlone, IInv, Threads
  <2> QED  BY <1>1, <2>1 DEF CloserAlone
<1> QED  BY <1>1, <1>3, <1>4, <1>5, <1>7, <1>8 DEF IInv, Accounted, OneOpens

\* While the gate is open no wakeup is on its way.
LEMMA CloseGateInv ==
    ASSUME IInv, NEW t \in Notifiers, CloseGate(t)
    PROVE  /\ IInv'
           /\ UNCHANGED Waiting
           /\ m_numWaitersToUnblock = 0
           /\ FewWaiters => /\ Cardinality(Waiting) # 0
                            /\ m_numWaitersToUnblock' \in {1, Cardinality(Waiting)}
<1> Typed /\ t \in Threads /\ t \notin Waiters
  BY Sets DEF IInv, Threads
<1> USE DEF locals
<1> DEFINE blocked == m_numWaitersBlocked - m_numWaitersGone
           n == IF at[t] = "closeAll" THEN blocked ELSE 1
<1>1. /\ at[t] \in {"closeAll", "closeOne"} /\ at' = [at EXCEPT ![t] = "wakeFirst"]
      /\ unblockLock = t /\ unblockLock' = None
      /\ m_numWaitersToUnblock = 0 /\ m_numWaitersBlocked > m_numWaitersGone
      /\ UNCHANGED <<locals, assocMutex, m_blockQueue, assertFailed>>
  BY DEF CloseGate, CloserAlone, IInv
<1>2. m_blockLock = 1 /\ m_blockLock' = 0 /\ Openers = {}
  BY <1>1 DEF CloseGate, GateClosed, IInv, Typed, OneOpens
<1>3. ~Owed /\ Carriers = {} /\ m_blockQueue = 0
  BY <1>1, <1>2, ClearersOpen DEF Owed, IInv, OneCarries
<1>4. /\ m_numWaitersGone' = 0
      /\ m_numWaitersToUnblock' = n /\ m_numWaitersBlocked' = blocked - n
  BY DEF CloseGate, StillBlocked
<1>5. blocked \in Nat /\ n \in 1 .. blocked /\ n \in {1, blocked}
  BY <1>1 DEF Typed
<1>6. /\ Carriers' = {t} /\ Openers' = {} /\ UNCHANGED Waiting
      /\ at'[t] = "wakeFirst" /\ \A u \in Threads \ {t} : at'[u] = at[u]
  <2>1. t \notin Waiting
    BY DEF Waiting
  <2>2. /\ Carriers' = Carriers \cup {t} /\ Waiting' = Waiting \ {t} /\ Openers' = Openers \ {t}
        /\ at'[t] = "wakeFirst" /\ \A u \in Threads \ {t} : at'[u] = at[u]
    BY <1>1, Moves
  <2> QED  BY <1>2, <1>3, <2>1, <2>2
<1>7. /\ Cardinality(Waiting) \in Nat /\ GoneLimit \in Nat
      /\ Cardinality(Waiters) \in Nat /\ Cardinality(Waiting) <= Cardinality(Waiters)
  BY WaitingCounts, Limits
<1> HIDE DEF n
<1>8. FewWaiters => Cardinality(Waiting) # 0 /\ n \in {1, Cardinality(Waiting)}
  <2>1. ~assertFailed => blocked = Cardinality(Waiting)
    BY <1>1, <1>7 DEF IInv, Accounted, Typed
  <2>2. assertFailed /\ FewWaiters => blocked <= 1 /\ Cardinality(Waiting) # 0
    BY <1>1, <1>7 DEF IInv, Accounted, Typed, FewWaiters
  <2> HIDE DEF blocked
  <2> QED  BY <1>5, <1>7, <2>1, <2>2
<1>9. Typed'
  <2>1. m_numWaitersBlocked' \in Int /\ m_numWaitersToUnblock' \in Nat
    BY <1>4, <1>5
  <2> QED  BY <1>1, <1>2, <1>4, <2>1, MovesTyped DEF Typed, NotifierPlaces
<1>10. Alone'
  BY <1>1, MovesAlone
<1>11. \A u \in Waiters : at'[u] = at[u] /\ at[u] # "forget"
  BY <1>1, <1>6 DEF Threads, IInv, OnlyTimed
<1>12. OnlyTimed'
  BY <1>1, <1>11 DEF IInv, OnlyTimed
<1>13. Accounted'
  BY <1>1, <1>4, <1>5, <1>6, <1>7 DEF IInv, Accounted, Typed
<1>14. m_numWaitersToUnblock' # 0
  BY <1>4, <1>5
<1>15. OneCarries' /\ OneOpens'
  BY <1>1, <1>2, <1>3, <1>6, <1>14 DEF OneCarries, OneOpens, Owed
<1>16. CloserAlone'
  <2>1. \A v \in Notifiers \ {t} : at'[v] = at[v] /\ at[v] \notin {"closeAll", "closeOne"}
    BY <1>1, <1>6 DEF CloserAlone, IInv, Threads
  <2> QED  BY <1>6, <2>1 DEF CloserAlone
<1> QED  BY <1>1, <1>4, <1>6, <1>8, <1>9, <1>10, <1>12, <1>13, <1>15, <1>16 DEF IInv

-----------------------------------------------------------------------------
(* Every step                                                              *)

\* A step of a caller that changes nothing anybody waits for.
LEMMA CallerInv ==
    ASSUME PeriodsAlone, IInv, NEW t \in Waiters, CallWait(t) \/ ReturnFromWait(t)
    PROVE  IInv' /\ Waiting' = Waiting /\ UNCHANGED counters
<1> Typed /\ t \in Threads
  BY DEF IInv, Threads
<1>1. CASE CallWait(t)
  <2>1. /\ at[t] = "out" /\ at' = [at EXCEPT ![t] = "gate"] /\ assocMutex' \in Threads \cup {None}
        /\ UNCHANGED <<locals, unblockLock, m_blockLock, m_blockQueue, counters, assertFailed>>
    BY <1>1 DEF CallWait, Goto
  <2>2. Alone'
    <3>1. at'[t] = "gate" /\ \A u \in Waiters \ {t} : at'[u] = at[u]
      BY <2>1 DEF Typed, Threads
    <3>2. \A u \in Waiters \ {t} : t \in Timed \/ u \in Timed => at[u] = "out"
      BY <1>1 DEF CallWait, MayWait, PeriodsAlone
    <3> QED  BY <3>1, <3>2, Sets DEF IInv, Alone
  <2> QED  BY <2>1, <2>2, IdleMoves
<1>2. CASE ReturnFromWait(t)
  <2>1. /\ at[t] = "relock" /\ at' = [at EXCEPT ![t] = "out"] /\ assocMutex' \in Threads \cup {None}
        /\ UNCHANGED <<locals, unblockLock, m_blockLock, m_blockQueue, counters, assertFailed>>
    BY <1>2 DEF ReturnFromWait, Goto, Typed
  <2>2. Alone'
    BY <2>1, MovesAlone
  <2> QED  BY <2>1, <2>2, IdleMoves
<1> QED  BY <1>1, <1>2

LEMMA NextIInv == ASSUME PeriodsAlone, IInv, [Next]_vars PROVE IInv'
<1>1. ASSUME NEW t \in Waiters, CallWait(t) \/ TimeOut(t) \/ WaiterStep(t) PROVE IInv'
  <2>1. t \in Threads
    BY DEF Threads
  <2>2. CASE CallWait(t) \/ ReturnFromWait(t)
    BY <2>2, CallerInv
  <2>3. CASE PassGate(t)
    BY <2>3, PassGateInv
  <2>4. CASE Block(t)
    BY <2>4, BlockInv
  <2>5. CASE TimeOut(t)
    BY <2>5, TimeOutInv
  <2>6. CASE Unblock(t)
    BY <2>6, UnblockInv
  <2>7. CASE CountGone(t)
    BY <2>7, CountGoneInv
  <2>8. CASE ForgetGone(t)
    BY <2>8, ForgetGoneInv
  <2>9. CASE Clear(t) \/ OpenGate(t)
    BY <2>9, ClearInv, OpenGateInv
  <2>10. CASE UnblockNext(t)
    BY <2>1, <2>10, HandOnInv
  <2> QED  BY <1>1, <2>2, <2>3, <2>4, <2>5, <2>6, <2>7, <2>8, <2>9, <2>10 DEF WaiterStep
<1>2. ASSUME NEW t \in Notifiers, NEW all \in BOOLEAN, NotifyFirst(t, all) \/ NotifyMore(t, all)
      PROVE  IInv'
  BY <1>2, NotifyFirstInv, NotifyMoreInv
<1>3. ASSUME NEW t \in Notifiers, NotifierStep(t) PROVE IInv'
  <2>1. t \in Threads
    BY DEF Threads
  <2> QED  BY <1>3, <2>1, CloseGateInv, HandOnInv DEF NotifierStep
<1>4. ASSUME UNCHANGED vars PROVE IInv'
  BY <1>4 DEF vars, locals, counters, IInv, Typed, Alone, OnlyTimed, Accounted, OneCarries, OneOpens,
              CloserAlone, Waiting, Carriers, Carries, Openers, Owed
<1> QED  BY <1>1, <1>2, <1>3, <1>4 DEF Next

THEOREM Invariance == PeriodsAlone => (Spec => []IInv)
<1>1. ASSUME PeriodsAlone PROVE Spec => []IInv
  <2>1. IInv /\ [Next]_vars => IInv'
    BY <1>1, NextIInv
  <2> QED  BY <2>1, InitIInv, PTL DEF Spec
<1> QED  BY <1>1

\* Every variable keeps its type; there is never more than one place at the gate.
THEOREM TypeCorrect == PeriodsAlone => (Spec => []TypeOK)
<1>1. IInv => TypeOK
  <2> SUFFICES ASSUME IInv PROVE TypeOK
    OBVIOUS
  <2>1. at \in [Threads -> WaiterPlaces \cup NotifierPlaces]
    BY DEF IInv, Typed
  <2>2. numWaitersGone \in [Waiters -> Nat] /\ m_blockQueue \in Nat
    BY DEF IInv, Typed
  <2>3. assertFailed \/ m_numWaitersBlocked >= 0
    BY WaitingCounts DEF IInv, Typed, Accounted
  <2> QED  BY <2>1, <2>2, <2>3 DEF IInv, Typed, TypeOK, WaiterPlaces, NotifierPlaces
<1>2. ASSUME PeriodsAlone PROVE Spec => []TypeOK
  BY <1>1, <1>2, Invariance, PTL
<1> QED  BY <1>2

\* The counters of blocked waiters, of notifications due and of those who have gone
\* account for every thread that waits, until the assertion has failed that always
\* fails: no waiter is forgotten, none is notified twice.
THEOREM EveryWaiterCounted == PeriodsAlone => (Spec => []WaitersAccounted)
<1>1. IInv => WaitersAccounted
  BY DEF IInv, Accounted, WaitersAccounted
<1>2. ASSUME PeriodsAlone PROVE Spec => []WaitersAccounted
  BY <1>1, <1>2, Invariance, PTL
<1> QED  BY <1>2

\* The gate is shut exactly while notified threads are on their way out or one
\* thread is there that opens it.
THEOREM GateIsKept == PeriodsAlone => (Spec => []GateKept)
<1>1. IInv => GateKept
  <2> SUFFICES ASSUME IInv PROVE GateKept
    OBVIOUS
  <2>1. Openers # {} <=> \E t \in Waiters : at[t] \in {"count", "clearOrOpen", "clear", "open"}
    BY DEF Openers, Threads, IInv, Typed, NotifierPlaces
  <2> QED  BY <2>1 DEF IInv, OneOpens, GateKept
<1>2. ASSUME PeriodsAlone PROVE Spec => []GateKept
  BY <1>1, <1>2, Invariance, PTL
<1> QED  BY <1>2

-----------------------------------------------------------------------------
(* The refinement                                                          *)

\* The condition variable counts as the code does.
LEMMA SameCount == \A S : CV!Cardinality(S) = Cardinality(S)
BY DEF CV!Cardinality, Cardinality

LEMMA StepRefines ==
    ASSUME PeriodsAlone, FewWaiters, IInv, [Next]_vars
    PROVE  [CV!Next]_(CV!cvars)
<1> USE DEF CV!cvars
<1>1. ASSUME UNCHANGED <<Waiting, m_numWaitersToUnblock>> PROVE [CV!Next]_(CV!cvars)
  BY <1>1
<1>2. ASSUME NEW t \in Waiters, CallWait(t) \/ TimeOut(t) \/ WaiterStep(t)
      PROVE  [CV!Next]_(CV!cvars)
  <2>1. t \in Threads
    BY DEF Threads
  <2>2. CASE Block(t)
    <3>1. CV!Enter(t)
      BY <2>2, BlockInv DEF CV!Enter
    <3> QED  BY <3>1 DEF CV!Next
  <2>3. CASE Unblock(t)
    <3>1. CV!Return(t)
      BY <2>3, UnblockInv DEF CV!Return
    <3> QED  BY <3>1 DEF CV!Next
  <2>4. CASE CountGone(t)
    <3>1. Cardinality(Waiting) > 0
      BY <2>4, CountGoneInv, WaitingCounts
    <3>2. CV!Expire(t)
      BY <2>4, <3>1, CountGoneInv, SameCount DEF CV!Expire
    <3> QED  BY <3>2 DEF CV!Next
  <2>5. CASE PassGate(t)
    BY <1>1, <2>5, PassGateInv DEF PassGate, counters
  <2>6. CASE CallWait(t) \/ ReturnFromWait(t)
    BY <1>1, <2>6, CallerInv DEF counters
  <2>7. CASE Clear(t) \/ OpenGate(t) \/ TimeOut(t)
    BY <1>1, <2>7, ClearInv, OpenGateInv, TimeOutInv DEF counters
  <2>8. CASE UnblockNext(t)
    BY <1>1, <2>1, <2>8, HandOnInv DEF counters
  <2>9. CASE ForgetGone(t)
    BY <1>1, <2>9, ForgetGoneInv
  <2> QED  BY <1>2, <2>2, <2>3, <2>4, <2>5, <2>6, <2>7, <2>8, <2>9 DEF WaiterStep
<1>3. ASSUME NEW t \in Notifiers, NEW all \in BOOLEAN, NotifyFirst(t, all)
      PROVE  [CV!Next]_(CV!cvars)
  BY <1>1, <1>3, NotifyFirstInv DEF counters
<1>4. ASSUME NEW t \in Notifiers, NEW all \in BOOLEAN, NotifyMore(t, all)
      PROVE  [CV!Next]_(CV!cvars)
  <2>1. CV!NotifyOne \/ CV!NotifyAll
    BY <1>4, NotifyMoreInv, SameCount DEF CV!NotifyOne, CV!NotifyAll
  <2> QED  BY <2>1 DEF CV!Next
<1>5. ASSUME NEW t \in Notifiers, CloseGate(t) PROVE [CV!Next]_(CV!cvars)
  <2>1. CV!NotifyOne \/ CV!NotifyAll
    BY <1>5, CloseGateInv, WaitingCounts, SameCount DEF CV!NotifyOne, CV!NotifyAll
  <2> QED  BY <2>1 DEF CV!Next
<1>6. ASSUME NEW t \in Notifiers, WakeFirst(t) PROVE [CV!Next]_(CV!cvars)
  <2>1. t \in Threads
    BY DEF Threads
  <2> QED  BY <1>1, <1>6, <2>1, HandOnInv DEF counters
<1>7. CASE UNCHANGED vars
  BY <1>1, <1>7 DEF vars, counters, Waiting
<1> QED  BY <1>2, <1>3, <1>4, <1>5, <1>6, <1>7 DEF Next, NotifierStep

\* A notification goes to threads that were waiting when it was sent: nobody
\* who starts to wait later takes it from them, and no wait without a period ends
\* by a wakeup that was meant for another.
THEOREM Refinement == PeriodsAlone /\ FewWaiters => (Spec => CV!Spec)
<1>1. Init => CV!Init
  BY DEF Init, CV!Init, Waiting, Threads
<1>2. ASSUME PeriodsAlone, FewWaiters PROVE Spec => CV!Spec
  <2>1. IInv /\ [Next]_vars => [CV!Next]_(CV!cvars)
    BY <1>2, StepRefines
  <2>2. Spec => []IInv
    BY <1>2, Invariance
  <2> QED  BY <1>1, <2>1, <2>2, PTL DEF Spec, CV!Spec
<1> QED  BY <1>2
=============================================================================
