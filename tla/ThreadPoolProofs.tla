-------------------------- MODULE ThreadPoolProofs --------------------------
(***************************************************************************)
(* Proofs about ThreadPool for any number of workers, clients and jobs.    *)
(*                                                                         *)
(* That the types are right needs active_jobs to be the number of running  *)
(* jobs, though it is counted with m released; that no job waits unseen    *)
(* needs no more than the types.  What assign and finish promise holds for *)
(* a pool that one thread assigns to, and for one that one thread closes:  *)
(* the assumptions of those theorems.                                      *)
(***************************************************************************)
EXTENDS ThreadPool, FiniteSetTheorems, SequenceTheorems, TLAPS

Counted == active_jobs = Cardinality({w \in Workers : at[w] = "run"})

HandsFull == \A w \in Workers : at[w] \in {"start", "run"} => job[w] # null

Types == TypeOK /\ Counted /\ HandsFull

-----------------------------------------------------------------------------
(* Types and the count                                                     *)

\* A worker that begins to run a job, or ends, changes the count by one.
LEMMA RunningChanges ==
    ASSUME TypeOK, NEW w \in Workers
    PROVE  /\ Goto(w, "start", "run") =>
                 Cardinality({v \in Workers : at[v] = "run"})' =
                 Cardinality({v \in Workers : at[v] = "run"}) + 1
           /\ Goto(w, "run", "report") =>
                 Cardinality({v \in Workers : at[v] = "run"})' =
                 Cardinality({v \in Workers : at[v] = "run"}) - 1
<1> DEFINE R == {v \in Workers : at[v] = "run"}
<1>1. IsFiniteSet(R)
  BY PoolFinite, FS_Subset
<1>2. ASSUME Goto(w, "start", "run") PROVE R' = R \cup {w} /\ w \notin R
  BY <1>2 DEF Goto, TypeOK, Threads
<1>3. ASSUME Goto(w, "run", "report") PROVE R' = R \ {w} /\ w \in R
  BY <1>3 DEF Goto, TypeOK, Threads
<1> QED  BY <1>1, <1>2, <1>3, FS_AddElement, FS_RemoveElement

\* No other move changes it.
LEMMA RunningStays ==
    ASSUME TypeOK, NEW t \in Threads, NEW p, at' = [at EXCEPT ![t] = p],
           t \in Workers => at[t] # "run" /\ p # "run"
    PROVE  {v \in Workers : at[v] = "run"}' = {v \in Workers : at[v] = "run"}
BY DEF TypeOK, Threads

LEMMA RunningBounded ==
    ASSUME NEW S \in SUBSET Workers
    PROVE  Cardinality(S) \in 0 .. Cardinality(Workers)
BY PoolFinite, FS_Subset, FS_CardinalityType

LEMMA InitTypes == Init => Types
<1> SUFFICES ASSUME Init PROVE Types
  OBVIOUS
<1>1. {w \in Workers : at[w] = "run"} = {}
  BY DEF Init, Threads
<1>2. Counted
  BY <1>1, FS_EmptySet DEF Init, Counted
<1>3. 0 \in 0 .. Cardinality(Workers)
  BY PoolFinite, FS_CardinalityType
<1>4. <<>> \in Seq(Jobs)
  BY EmptySeq
<1>5. at \in [Threads -> {"fetch", "idle"}]
  BY DEF Init
<1>6. TypeOK
  BY <1>3, <1>4, <1>5 DEF Init, TypeOK
<1>7. HandsFull
  BY DEF Init, HandsFull, Threads
<1> QED  BY <1>2, <1>6, <1>7 DEF Types

LEMMA NotifyRemoves ==
    ASSUME NEW queue, NEW queueNext, notify(queue, queueNext)
    PROVE  queueNext \subseteq queue /\ (queue # {} => queueNext # queue)
BY DEF notify

LEMMA Front ==
    ASSUME NEW s \in Seq(Jobs), NEW n \in Nat, n = Len(s) - 1
    PROVE  /\ SubSeq(s, 1, n) \in Seq(Jobs) /\ Len(SubSeq(s, 1, n)) = n
           /\ \A i \in 1 .. n : SubSeq(s, 1, n)[i] = s[i]
<1>1. \A i \in 1 .. n : s[i] \in Jobs
  BY ElementOfSeq, LenProperties
<1>2. /\ SubSeq(s, 1, n) \in Seq(Jobs)
      /\ Len(SubSeq(s, 1, n)) = IF 1 <= n THEN n - 1 + 1 ELSE 0
      /\ \A i \in 1 .. n - 1 + 1 : SubSeq(s, 1, n)[i] = s[1 + i - 1]
  <2>1. 1 \in Int /\ n \in Int
    OBVIOUS
  <2> QED  BY <1>1, <2>1, SubSeqProperties
<1>3. n - 1 + 1 = n /\ (IF 1 <= n THEN n - 1 + 1 ELSE 0) = n
  OBVIOUS
<1>4. \A i \in 1 .. n : 1 + i - 1 = i
  OBVIOUS
<1>5. \A i \in 1 .. n : SubSeq(s, 1, n)[i] = s[i]
  BY <1>2, <1>3, <1>4, Zenon
<1> QED  BY <1>2, <1>3, <1>5, Zenon

\* The last job is taken off the stack ...
LEMMA QueuePop ==
    ASSUME TypeOK, q # <<>>, q' = SubSeq(q, 1, Len(q) - 1)
    PROVE  /\ Len(q) \in Nat \ {0} /\ Len(q)' = Len(q) - 1
           /\ q' \in Seq(Jobs) /\ q[Len(q)] \in Jobs
           /\ \A i \in 1 .. Len(q)' : q'[i] = q[i]
           /\ Queued = Queued' \cup {q[Len(q)]}
<1> q \in Seq(Jobs)
  BY DEF TypeOK
<1>1. Len(q) \in Nat \ {0}
  BY EmptySeq
<1>2. \A i \in 1 .. Len(q) : q[i] \in Jobs
  BY ElementOfSeq
<1>3. /\ q' \in Seq(Jobs) /\ Len(q') = Len(q) - 1
      /\ \A i \in 1 .. Len(q') : q'[i] = q[i]
  <2> DEFINE s == SubSeq(q, 1, Len(q) - 1)
  <2>1. Len(q) - 1 \in Nat
    BY <1>1
  <2>2. /\ s \in Seq(Jobs) /\ Len(s) = Len(q) - 1
        /\ \A i \in 1 .. Len(q) - 1 : s[i] = q[i]
    BY <2>1, Front
  <2>3. q' = s
    OBVIOUS
  <2> HIDE DEF s
  <2> QED  BY <2>2, <2>3
<1> QED  BY <1>1, <1>2, <1>3 DEF Queued

\* ... and a new one put on top of it.
LEMMA QueuePush ==
    ASSUME TypeOK, NEW j \in Jobs, q' = Append(q, j)
    PROVE  /\ q' \in Seq(Jobs) /\ Len(q) \in Nat /\ Len(q)' = Len(q) + 1
           /\ \A i \in 1 .. Len(q) : q'[i] = q[i]
           /\ q'[Len(q)'] = j
           /\ Queued' = Queued \cup {j}
<1> q \in Seq(Jobs)
  BY DEF TypeOK
<1>1. /\ q' \in Seq(Jobs) /\ Len(q) \in Nat /\ Len(q') = Len(q) + 1
      /\ \A i \in 1 .. Len(q) : q'[i] = q[i]
      /\ q'[Len(q) + 1] = j
  BY LenProperties
<1> QED  BY <1>1 DEF Queued

LEMMA NextTypes ==
    ASSUME Types, [Next]_vars
    PROVE  Types'
<1> TypeOK /\ Counted /\ HandsFull
  BY DEF Types
<1> DEFINE R == {v \in Workers : at[v] = "run"}
<1> USE DEF conditions, history, Goto
<1>1. ASSUME NEW w \in Workers, FetchNothing(w) PROVE Types'
  BY <1>1 DEF FetchNothing, Types, TypeOK, Counted, HandsFull
<1>2. ASSUME NEW w \in Workers, FetchDone(w) \/ Leave(w) \/ Report(w) PROVE Types'
  <2>1. R' = R
    BY <1>2, RunningStays DEF FetchDone, Leave, Report, Threads
  <2>2. workerActivity' \subseteq workerActivity
    BY <1>2, NotifyRemoves DEF FetchDone, Leave, Report
  <2>3. UNCHANGED <<job, q, priority_job, active_jobs, done, poolActivity, ran, due>>
    BY <1>2 DEF FetchDone, Leave, Report
  <2>4. TypeOK'
    BY <1>2, <2>2, <2>3 DEF FetchDone, Leave, Report, TypeOK, Threads
  <2>5. HandsFull'
    BY <1>2, <2>3 DEF FetchDone, Leave, Report, HandsFull, TypeOK, Threads
  <2> QED  BY <2>1, <2>3, <2>4, <2>5 DEF Counted, Types
<1>3. ASSUME NEW w \in Workers, FetchPriority(w) PROVE Types'
  <2>1. R' = R
    BY <1>3, RunningStays DEF FetchPriority, Threads
  <2>2. workerActivity' \subseteq workerActivity
    BY <1>3, NotifyRemoves DEF FetchPriority
  <2>3. TypeOK'
    BY <1>3, <2>2 DEF FetchPriority, TypeOK, Threads
  <2>4. HandsFull'
    BY <1>3 DEF FetchPriority, HandsFull, TypeOK, Threads
  <2> QED  BY <1>3, <2>1, <2>3, <2>4 DEF FetchPriority, Counted, Types
<1>4. ASSUME NEW w \in Workers, FetchQueued(w) PROVE Types'
  <2>1. R' = R
    BY <1>4, RunningStays DEF FetchQueued, Threads
  <2>2. q' \in Seq(Jobs) /\ q[Len(q)] \in Jobs
    BY <1>4, QueuePop DEF FetchQueued
  <2>3. TypeOK'
    BY <1>4, <2>2 DEF FetchQueued, TypeOK, Threads
  <2>4. HandsFull'
    BY <1>4, <2>2, Disjoint DEF FetchQueued, HandsFull, TypeOK, Threads
  <2> QED  BY <1>4, <2>1, <2>3, <2>4 DEF FetchQueued, Counted, Types
<1>5. ASSUME NEW w \in Workers, Start(w) \/ Run(w) PROVE Types'
  <2>1. Counted'
    BY <1>5, RunningChanges DEF Start, Run, Counted
  <2>2. active_jobs' \in 0 .. Cardinality(Workers)
    BY <2>1, R' \in SUBSET Workers, RunningBounded DEF Counted
  <2>3. HandsFull'
    BY <1>5 DEF Start, Run, HandsFull, TypeOK, Threads
  <2>4. Run(w) => job[w] \in Jobs
    BY DEF Run, HandsFull, TypeOK, Threads
  <2> QED  BY <1>5, <2>1, <2>2, <2>3, <2>4 DEF Start, Run, TypeOK, Threads, Types
<1>6. ASSUME NEW c \in Clients, NEW j \in Jobs, Assign(c, j) \/ TryAssign(c, j) PROVE Types'
  <2>1. R' = R
    BY <1>6, RunningStays, Disjoint DEF Assign, TryAssign, Threads
  <2>2. PutPriority(c, j)
    BY <1>6 DEF Assign, TryAssign
  <2>3. poolActivity' \subseteq poolActivity
    BY <2>2, NotifyRemoves DEF PutPriority
  <2>4. TypeOK'
    BY <1>6, <2>2, <2>3 DEF Assign, TryAssign, PutPriority, TypeOK, Threads
  <2>5. HandsFull'
    BY <1>6, <2>2, Disjoint DEF Assign, TryAssign, PutPriority, HandsFull, TypeOK, Threads
  <2> QED  BY <2>1, <2>2, <2>4, <2>5 DEF PutPriority, Counted, Types
<1>7. ASSUME NEW c \in Clients, NEW j \in Jobs, AppendJob(c, j) PROVE Types'
  <2>1. R' = R
    BY <1>7, RunningStays, Disjoint DEF AppendJob, Threads
  <2>2. q' \in Seq(Jobs)
    BY <1>7, QueuePush DEF AppendJob
  <2>3. TypeOK'
    BY <1>7, <2>2 DEF AppendJob, TypeOK, Threads
  <2>4. HandsFull'
    BY <1>7, Disjoint DEF AppendJob, HandsFull, TypeOK, Threads
  <2> QED  BY <1>7, <2>1, <2>3, <2>4 DEF AppendJob, Counted, Types
<1>8. ASSUME NEW c \in Clients, ClientStep(c) \/ TryAssignTest(c) \/ FinishCall(c) \/ ShutdownCall(c)
      PROVE  Types'
  <2> USE DEF ClientStep, TryAssignTest, FinishCall, ShutdownCall, AssignTaken, AssignWaitAgain,
              AppendNotify, FinishWait, FinishProceed, SetDone, DropQueue, WakeAll, Join, Assigning
  <2>1. \/ UNCHANGED at
        \/ \E p \in {"idle", "trying", "finishing", "close", "drop", "wake", "join", "closed"} :
              at' = [at EXCEPT ![c] = p]
    BY <1>8
  <2>2. R' = R
    BY <2>1, RunningStays, Disjoint DEF Threads
  <2>3. UNCHANGED <<job, active_jobs, priority_job, ran>>
    BY <1>8
  <2>4. poolActivity' \subseteq poolActivity /\ workerActivity' \subseteq Clients
    BY <1>8, NotifyRemoves DEF TypeOK
  <2>5. done' \in BOOLEAN /\ q' \in Seq(Jobs)
    BY <1>8, EmptySeq DEF TypeOK
  <2>6. due' \subseteq Jobs
    <3>1. Queued \subseteq Jobs /\ InHand \subseteq Jobs
      BY ElementOfSeq DEF Queued, InHand, HandsFull, TypeOK, Threads
    <3> QED  BY <1>8, <3>1 DEF TypeOK
  <2>7. TypeOK'
    BY <2>1, <2>3, <2>4, <2>5, <2>6 DEF TypeOK
  <2>8. HandsFull'
    BY <2>1, <2>3, Disjoint DEF HandsFull, TypeOK, Threads
  <2> QED  BY <2>2, <2>3, <2>7, <2>8 DEF Counted, Types
<1>9. ASSUME NEW t \in Threads, SpuriousWakeup(t) PROVE Types'
  BY <1>9 DEF SpuriousWakeup, Types, TypeOK, Counted, HandsFull
<1>10. CASE UNCHANGED vars
  BY <1>10 DEF vars, Types, TypeOK, Counted, HandsFull
<1> QED
  BY <1>1, <1>2, <1>3, <1>4, <1>5, <1>6, <1>7, <1>8, <1>9, <1>10
     DEF Next, WorkerStep, Fetch, ClientCall

(* The variables keep their types; active_jobs, which workers change with m *)
(* released and which tryAssign and finish look at, stays between 0 and the *)
(* number of workers.                                                       *)
THEOREM TypeCorrect == Spec => []TypeOK
<1>1. Init => Types
  BY InitTypes
<1>2. Types /\ [Next]_vars => Types'
  BY NextTypes
<1>3. Types => TypeOK
  BY DEF Types
<1> QED  BY <1>1, <1>2, <1>3, PTL DEF Spec

LEMMA TypesAlways == Spec => []Types
<1>1. Init => Types
  BY InitTypes
<1>2. Types /\ [Next]_vars => Types'
  BY NextTypes
<1> QED  BY <1>1, <1>2, PTL DEF Spec

-----------------------------------------------------------------------------
(* A pool with a worker never sleeps over a job: neither the notify of      *)
(* assign nor that of append, which comes with m released, is lost.         *)
THEOREM WorkIsSeen == Workers # {} => (Spec => []WorkSeen)
<1> SUFFICES ASSUME Workers # {} PROVE Spec => []WorkSeen
  OBVIOUS
<1>1. Init => WorkSeen
  BY DEF Init, WorkSeen
<1>2. ASSUME Types, WorkSeen, [Next]_vars PROVE WorkSeen'
  <2> TypeOK /\ WorkSeen /\ [Next]_vars
    BY <1>2 DEF Types
  <2> USE DEF conditions, history, Goto
  <2>1. ASSUME NEW w \in Workers, WorkerStep(w) PROVE WorkSeen'
    <3>1. (q # <<>> \/ priority_job # null)' /\ poolActivity' = Workers =>
             (q # <<>> \/ priority_job # null) /\ poolActivity = Workers
      BY <2>1 DEF WorkerStep, Fetch, FetchNothing, FetchDone, FetchPriority, FetchQueued,
                  Start, Run, Report, Leave
    <3>2. \A c \in Clients : at'[c] = at[c]
      BY <2>1, Disjoint DEF WorkerStep, Fetch, FetchNothing, FetchDone, FetchPriority,
                  FetchQueued, Start, Run, Report, Leave, TypeOK, Threads
    <3> QED  BY <3>1, <3>2 DEF WorkSeen
  <2>2. ASSUME NEW c \in Clients, NEW j \in Jobs, Assign(c, j) \/ TryAssign(c, j)
        PROVE  poolActivity' # Workers
    BY <2>2 DEF Assign, TryAssign, PutPriority, notify, TypeOK
  <2>3. ASSUME NEW c \in Clients, NEW j \in Jobs, AppendJob(c, j) PROVE WorkSeen'
    BY <2>3 DEF AppendJob, WorkSeen, TypeOK, Threads
  <2>4. ASSUME NEW c \in Clients, AppendNotify(c) \/ WakeAll(c) PROVE poolActivity' # Workers
    BY <2>4 DEF AppendNotify, WakeAll, notify, TypeOK
  <2>5. ASSUME NEW c \in Clients,
               \/ AssignTaken(c) \/ AssignWaitAgain(c) \/ FinishWait(c) \/ FinishProceed(c)
               \/ SetDone(c) \/ DropQueue(c) \/ Join(c)
               \/ TryAssignTest(c) \/ FinishCall(c) \/ ShutdownCall(c)
        PROVE  WorkSeen'
    <3> USE DEF AssignTaken, AssignWaitAgain, FinishWait, FinishProceed, SetDone, DropQueue,
                Join, TryAssignTest, FinishCall, ShutdownCall, Assigning
    <3>1. UNCHANGED <<priority_job, poolActivity>> /\ (UNCHANGED q \/ q' = <<>>)
      BY <2>5
    <3>2. \A d \in Clients : at[d] \in {"appended", "wake"} => at'[d] = at[d]
      BY <2>5 DEF TypeOK, Threads
    <3> QED  BY <3>1, <3>2 DEF WorkSeen
  <2>6. ASSUME NEW t \in Threads, SpuriousWakeup(t) PROVE WorkSeen'
    BY <2>6 DEF SpuriousWakeup, WorkSeen, TypeOK
  <2>7. CASE UNCHANGED vars
    BY <2>7 DEF vars, WorkSeen
  <2> QED  BY <2>1, <2>2, <2>3, <2>4, <2>5, <2>6, <2>7
              DEF Next, ClientStep, ClientCall, WorkSeen
<1> QED  BY <1>1, <1>2, TypesAlways, PTL DEF Spec

-----------------------------------------------------------------------------
(* What the workers have in hand                                           *)

LEMMA HandTakes ==
    ASSUME TypeOK, NEW w \in Workers, NEW j, at[w] = "fetch",
           at' = [at EXCEPT ![w] = "start"], job' = [job EXCEPT ![w] = j]
    PROVE  InHand' = InHand \cup {j}
BY DEF InHand, TypeOK, Threads

LEMMA HandRuns ==
    ASSUME TypeOK, NEW w \in Workers, Run(w)
    PROVE  /\ InHand = InHand' \cup {job[w]} /\ ran' = ran \cup {job[w]}
           /\ UNCHANGED <<job, q, priority_job, done, due>>
           /\ \A t \in Threads \ {w} : at'[t] = at[t]
BY DEF Run, Goto, InHand, TypeOK, Threads, conditions, history

LEMMA HandStays ==
    ASSUME \A w \in Workers : /\ job'[w] = job[w]
                              /\ at[w] \in {"start", "run"} <=> at'[w] \in {"start", "run"}
    PROVE  InHand' = InHand
BY DEF InHand

\* Steps that change neither the jobs nor what is in hand.
Quiet == UNCHANGED <<job, InHand, Queued, q, priority_job, done, ran>>

LEMMA WorkerMoves ==
    ASSUME TypeOK, NEW w \in Workers, WorkerStep(w)
    PROVE  /\ \A c \in Clients : at'[c] = at[c] /\ job'[c] = job[c]
           /\ UNCHANGED <<done, due>>
           /\ \/ Quiet
              \/ FetchPriority(w) \/ FetchQueued(w) \/ Run(w)
<1> USE DEF conditions, history, Goto
<1>1. \A c \in Clients : at'[c] = at[c] /\ job'[c] = job[c]
  BY Disjoint DEF WorkerStep, Fetch, FetchNothing, FetchDone, FetchPriority, FetchQueued,
                  Start, Run, Report, Leave, TypeOK, Threads
<1>2. UNCHANGED <<done, due>>
  BY DEF WorkerStep, Fetch, FetchNothing, FetchDone, FetchPriority, FetchQueued, Start, Run,
         Report, Leave
<1>3. ASSUME FetchNothing(w) \/ FetchDone(w) \/ Start(w) \/ Report(w) \/ Leave(w) PROVE Quiet
  <2>1. UNCHANGED <<job, q, priority_job, done, ran>>
    BY <1>3 DEF FetchNothing, FetchDone, Start, Report, Leave
  <2>2. \A v \in Workers : at[v] \in {"start", "run"} <=> at'[v] \in {"start", "run"}
    BY <1>3 DEF FetchNothing, FetchDone, Start, Report, Leave, TypeOK, Threads
  <2> QED  BY <2>1, <2>2, HandStays DEF Quiet, Queued
<1> QED  BY <1>1, <1>2, <1>3 DEF WorkerStep, Fetch

\* A client that hands nothing in and drops nothing.
LEMMA ClientMoves ==
    ASSUME TypeOK, NEW c \in Clients,
           \/ ClientStep(c) /\ ~DropQueue(c) /\ ~SetDone(c)
           \/ TryAssignTest(c) \/ FinishCall(c) \/ ShutdownCall(c)
    PROVE  /\ Quiet
           /\ \A t \in Threads \ {c} : at'[t] = at[t]
<1> USE DEF ClientStep, TryAssignTest, FinishCall, ShutdownCall, AssignTaken, AssignWaitAgain,
            AppendNotify, FinishWait, FinishProceed, SetDone, WakeAll, Join, Goto,
            conditions, history
<1>1. UNCHANGED <<job, q, priority_job, done, ran>>
  OBVIOUS
<1>2. \A t \in Threads \ {c} : at'[t] = at[t]
  BY DEF TypeOK, Threads
<1>3. InHand' = InHand
  BY <1>1, <1>2, HandStays, Disjoint DEF Threads
<1> QED  BY <1>1, <1>2, <1>3 DEF Quiet, Queued

\* What assign and tryAssign do to the slot, append to the stack, and what
\* shutdown does.
LEMMA CallMoves ==
    ASSUME TypeOK, NEW c \in Clients
    PROVE  /\ \A j \in Jobs : Assign(c, j) \/ TryAssign(c, j) =>
                 /\ Fresh(j) /\ priority_job' = j /\ job' = [job EXCEPT ![c] = j]
                 /\ UNCHANGED <<InHand, Queued, q, done, ran, due>>
                 /\ at[c] \in {"idle", "trying"} /\ at'[c] \in Assigning
                 /\ at[c] = "idle" => "assign" \in Calls[c]
           /\ \A j \in Jobs : AppendJob(c, j) =>
                 /\ Fresh(j) /\ Queued' = Queued \cup {j} /\ q' = Append(q, j)
                 /\ UNCHANGED <<InHand, job, priority_job, done, ran, due>>
                 /\ at[c] = "idle" /\ at'[c] = "appended"
           /\ SetDone(c) \/ DropQueue(c) =>
                 /\ UNCHANGED <<InHand, job, priority_job, ran, due>>
                 /\ \/ at[c] = "close" /\ at'[c] = "drop" /\ done' = TRUE
                       /\ UNCHANGED <<q, Queued>>
                    \/ at[c] = "drop" /\ at'[c] = "wake" /\ done' = done /\ q' = <<>>
           /\ \/ \E j \in Jobs : Assign(c, j) \/ TryAssign(c, j) \/ AppendJob(c, j)
              \/ SetDone(c) \/ DropQueue(c)
              => \A t \in Threads \ {c} : at'[t] = at[t]
<1> USE DEF Assign, TryAssign, PutPriority, AppendJob, SetDone, DropQueue, Goto, Assigning,
            conditions, history
<1>1. ASSUME \/ \E j \in Jobs : Assign(c, j) \/ TryAssign(c, j) \/ AppendJob(c, j)
             \/ SetDone(c) \/ DropQueue(c)
      PROVE  /\ \A t \in Threads \ {c} : at'[t] = at[t] /\ job'[t] = job[t]
             /\ InHand' = InHand
  <2>1. \A t \in Threads \ {c} : at'[t] = at[t] /\ job'[t] = job[t]
    BY <1>1 DEF TypeOK, Threads
  <2> QED  BY <2>1, HandStays, Disjoint DEF Threads
<1>2. ASSUME NEW j \in Jobs, Assign(c, j) \/ TryAssign(c, j)
      PROVE  /\ Fresh(j) /\ priority_job' = j /\ job' = [job EXCEPT ![c] = j]
             /\ UNCHANGED <<InHand, Queued, q, done, ran, due>>
             /\ at[c] \in {"idle", "trying"} /\ at'[c] \in Assigning
             /\ at[c] = "idle" => "assign" \in Calls[c]
  <2>1. UNCHANGED q /\ InHand' = InHand
    BY <1>1, <1>2
  <2>2. Queued' = Queued
    BY <2>1 DEF Queued
  <2>3. at[c] \in {"idle", "trying"} /\ at'[c] \in Assigning
    BY <1>2 DEF TypeOK, Threads
  <2> QED  BY <1>2, <2>1, <2>2, <2>3
<1>3. ASSUME NEW j \in Jobs, AppendJob(c, j)
      PROVE  /\ Fresh(j) /\ Queued' = Queued \cup {j} /\ q' = Append(q, j)
             /\ UNCHANGED <<InHand, job, priority_job, done, ran, due>>
             /\ at[c] = "idle" /\ at'[c] = "appended"
  BY <1>1, <1>3, QueuePush DEF TypeOK, Threads
<1>4. ASSUME SetDone(c) \/ DropQueue(c)
      PROVE  /\ UNCHANGED <<InHand, job, priority_job, ran, due>>
             /\ \/ at[c] = "close" /\ at'[c] = "drop" /\ done' = TRUE /\ UNCHANGED <<q, Queued>>
                \/ at[c] = "drop" /\ at'[c] = "wake" /\ done' = done /\ q' = <<>>
  <2>1. InHand' = InHand
    BY <1>1, <1>4
  <2>2. UNCHANGED q => UNCHANGED Queued
    BY DEF Queued
  <2>3. c \in Threads /\ at \in [Threads -> {at[t] : t \in Threads}]
    BY DEF TypeOK, Threads
  <2> QED  BY <1>4, <2>1, <2>2, <2>3
<1> QED  BY <1>1, <1>2, <1>3, <1>4

-----------------------------------------------------------------------------
(* One client assigns                                                      *)

MayAssign(c) == Calls[c] \cap {"assign", "tryAssign"} # {}
OneAssigns   == \A c, d \in Clients : MayAssign(c) /\ MayAssign(d) => c = d

\* The slot holds what the client waits for; what is there no more is in hand or done.
SlotKept ==
    /\ \A c \in Clients : at[c] \in Assigning \cup {"trying"} \/ job[c] # null => MayAssign(c)
    /\ priority_job # null => \E c \in Clients : at[c] \in Assigning /\ job[c] = priority_job
    /\ \A c \in Clients : job[c] # null =>
          job[c] \in InHand \cup ran \/ (at[c] \in Assigning /\ job[c] = priority_job)

LEMMA NextSlotKept ==
    ASSUME OneAssigns, Types, SlotKept, [Next]_vars
    PROVE  SlotKept'
<1> TypeOK
  BY DEF Types
<1>1. ASSUME NEW w \in Workers, WorkerStep(w) PROVE SlotKept'
  <2>1. \A c \in Clients : at'[c] = at[c] /\ job'[c] = job[c]
    BY <1>1, WorkerMoves
  <2>2. CASE Quiet
    BY <2>1, <2>2 DEF Quiet, SlotKept
  <2>3. CASE FetchPriority(w)
    <3>1. InHand' = InHand \cup {priority_job} /\ priority_job' = null /\ ran' = ran
      BY <2>3, HandTakes DEF FetchPriority, Goto, history
    <3> QED  BY <2>1, <3>1 DEF SlotKept
  <2>4. CASE FetchQueued(w)
    <3>1. InHand \subseteq InHand' /\ UNCHANGED <<priority_job, ran>>
      BY <2>4, HandTakes DEF FetchQueued, Goto, history
    <3> QED  BY <2>1, <3>1 DEF SlotKept
  <2>5. CASE Run(w)
    <3>1. InHand \cup ran \subseteq (InHand \cup ran)' /\ UNCHANGED priority_job
      BY <2>5, HandRuns
    <3> QED  BY <2>1, <3>1 DEF SlotKept
  <2> QED  BY <1>1, <2>2, <2>3, <2>4, <2>5, WorkerMoves
<1>2. ASSUME NEW c \in Clients, NEW j \in Jobs, Assign(c, j) \/ TryAssign(c, j) PROVE SlotKept'
  <2>1. MayAssign(c)
    BY <1>2, CallMoves DEF SlotKept, MayAssign
  <2>2. \A d \in Clients \ {c} : ~MayAssign(d) /\ job[d] = null /\ at[d] \notin Assigning
    BY <2>1 DEF OneAssigns, SlotKept
  <2>3. priority_job' = j /\ job' = [job EXCEPT ![c] = j] /\ at'[c] \in Assigning
    BY <1>2, CallMoves
  <2>4. job'[c] = j /\ \A d \in Clients \ {c} : job'[d] = job[d]
    BY <2>3 DEF TypeOK, Threads
  <2>5. \A d \in Clients \ {c} : at'[d] = at[d]
    BY <1>2, CallMoves DEF Threads
  <2> QED  BY <2>1, <2>2, <2>3, <2>4, <2>5 DEF SlotKept
<1>3. ASSUME NEW c \in Clients,
             (\E j \in Jobs : AppendJob(c, j)) \/ SetDone(c) \/ DropQueue(c)
      PROVE  SlotKept'
  <2>1. UNCHANGED <<InHand, job, priority_job, ran>>
    BY <1>3, CallMoves
  <2>2. \A d \in Clients :
          at'[d] \in Assigning \cup {"trying"} <=> at[d] \in Assigning \cup {"trying"}
    BY <1>3, CallMoves DEF Assigning, Threads
  <2>3. \A d \in Clients : at'[d] \in Assigning <=> at[d] \in Assigning
    BY <1>3, CallMoves DEF Assigning, Threads
  <2> QED  BY <2>1, <2>2, <2>3 DEF SlotKept
<1>4. ASSUME NEW c \in Clients, AssignTaken(c) PROVE SlotKept'
  <2>1. Quiet /\ priority_job = null /\ \A t \in Threads \ {c} : at'[t] = at[t]
    BY <1>4, ClientMoves DEF ClientStep, DropQueue, SetDone, AssignTaken, Goto, Assigning
  <2>2. at'[c] = "idle"
    BY <1>4 DEF AssignTaken, TypeOK, Threads
  <2> QED  BY <2>1, <2>2, Disjoint DEF SlotKept, Quiet, Assigning, Threads, TypeOK
<1>5. ASSUME NEW c \in Clients,
             \/ ClientStep(c) /\ ~DropQueue(c) /\ ~SetDone(c) /\ ~AssignTaken(c)
             \/ TryAssignTest(c) \/ FinishCall(c) \/ ShutdownCall(c)
      PROVE  SlotKept'
  <2>1. Quiet /\ \A t \in Threads \ {c} : at'[t] = at[t]
    BY <1>5, ClientMoves
  <2>2. /\ at'[c] \in Assigning <=> at[c] \in Assigning
        /\ at'[c] = "trying" => MayAssign(c)
    BY <1>5 DEF ClientStep, TryAssignTest, FinishCall, ShutdownCall, AssignWaitAgain, MayAssign,
                AppendNotify, FinishWait, FinishProceed, WakeAll, Join, Goto, Assigning,
                TypeOK, Threads
  <2> QED  BY <2>1, <2>2 DEF SlotKept, Quiet, Threads
<1>6. ASSUME NEW t \in Threads, SpuriousWakeup(t) PROVE SlotKept'
  BY <1>6 DEF SpuriousWakeup, history, SlotKept, InHand
<1>7. CASE UNCHANGED vars
  BY <1>7 DEF vars, history, SlotKept, InHand
<1> QED  BY <1>1, <1>2, <1>3, <1>4, <1>5, <1>6, <1>7 DEF Next, ClientStep, ClientCall

(* "Assign the given job to a thread immediately or block until one is      *)
(* available": while one thread assigns to a pool, every assign returns     *)
(* only when a worker has taken its job.  (Two may lose one's job: the run  *)
(* pool_two_assigners.)                                                     *)
THEOREM AssignedIsTaken == OneAssigns => (Spec => []AssignedJobTaken)
<1> SUFFICES ASSUME OneAssigns PROVE Spec => []AssignedJobTaken
  OBVIOUS
<1>1. Init => SlotKept
  BY Disjoint DEF Init, SlotKept, Threads, Assigning
<1>2. Types /\ SlotKept /\ [Next]_vars => SlotKept'
  BY NextSlotKept
<1>3. SlotKept => AssignedJobTaken
  BY DEF SlotKept, AssignedJobTaken
<1> QED  BY <1>1, <1>2, <1>3, TypesAlways, PTL DEF Spec

-----------------------------------------------------------------------------
(* One client closes the pool, and nobody else assigns                     *)

MayClose(c) == Calls[c] \cap {"shutdown", "finish"} # {}
OneCloses   == \A c, d \in Clients : MayClose(c) /\ (MayClose(d) \/ MayAssign(d)) => c = d

Past    == {"close", "drop", "wake", "join", "closed"}
Closing == Past \cup {"finishing"}

\* What was handed in stays in the pool until it has been run.
DueKept ==
    /\ \A c \in Clients : at[c] \in Closing => MayClose(c)
    /\ (\A c \in Clients : at[c] \notin Closing) => due = {}
    /\ \A c \in Clients : at[c] = "finishing" => due \subseteq Queued \cup InHand \cup ran
    /\ \A c \in Clients : at[c] \in Past => due \subseteq InHand \cup ran
    /\ \A c \in Clients : at[c] = "closed" => \A w \in Workers : at[w] = "gone"

LEMMA NextDueKept ==
    ASSUME OneCloses, Types, SlotKept, DueKept, [Next]_vars
    PROVE  DueKept'
<1> TypeOK
  BY DEF Types
<1> USE DEF Closing, Past
<1>1. ASSUME NEW w \in Workers, WorkerStep(w) PROVE DueKept'
  <2>1. UNCHANGED due /\ \A c \in Clients : at'[c] = at[c]
    BY <1>1, WorkerMoves
  <2>2. \A c \in Clients : at[c] # "closed"
    BY <1>1 DEF DueKept, WorkerStep, Fetch, FetchNothing, FetchDone, FetchPriority, FetchQueued,
                Start, Run, Report, Leave, Goto
  <2>3. CASE Quiet
    BY <2>1, <2>2, <2>3 DEF Quiet, DueKept
  <2>4. CASE FetchPriority(w)
    <3>1. InHand \subseteq InHand' /\ UNCHANGED <<Queued, ran>>
      BY <2>4, HandTakes DEF FetchPriority, Goto, history, Queued
    <3> QED  BY <2>1, <2>2, <3>1 DEF DueKept
  <2>5. CASE FetchQueued(w)
    <3>1. InHand' = InHand \cup {q[Len(q)]} /\ ran' = ran
      BY <2>5, HandTakes DEF FetchQueued, Goto, history
    <3>2. Queued = Queued' \cup {q[Len(q)]}
      BY <2>5, QueuePop DEF FetchQueued
    <3> QED  BY <2>1, <2>2, <3>1, <3>2 DEF DueKept
  <2>6. CASE Run(w)
    <3>1. InHand \cup ran \subseteq (InHand \cup ran)' /\ UNCHANGED Queued
      BY <2>6, HandRuns DEF Queued
    <3> QED  BY <2>1, <2>2, <3>1 DEF DueKept
  <2> QED  BY <1>1, <2>3, <2>4, <2>5, <2>6, WorkerMoves
<1>2. ASSUME NEW c \in Clients, NEW j \in Jobs,
             Assign(c, j) \/ TryAssign(c, j) \/ AppendJob(c, j)
      PROVE  DueKept'
  <2>1. UNCHANGED <<due, InHand, ran>> /\ Queued \subseteq Queued'
    BY <1>2, CallMoves
  <2>2. /\ \A t \in Threads \ {c} : at'[t] = at[t]
        /\ at[c] \notin Closing /\ at'[c] \notin Closing
    BY <1>2, CallMoves DEF Assigning
  <2> QED  BY <2>1, <2>2, Disjoint DEF DueKept, Threads
<1>3. ASSUME NEW c \in Clients, SetDone(c) PROVE DueKept'
  <2>1. UNCHANGED <<due, InHand, ran, Queued>> /\ at[c] = "close" /\ at'[c] = "drop"
    BY <1>3, CallMoves DEF SetDone, Goto
  <2>2. \A t \in Threads \ {c} : at'[t] = at[t]
    BY <1>3, CallMoves
  <2> QED  BY <2>1, <2>2, Disjoint DEF DueKept, Threads
<1>4. ASSUME NEW c \in Clients, DropQueue(c) PROVE DueKept'
  <2>1. UNCHANGED <<due, InHand, ran>> /\ at[c] = "drop" /\ at'[c] = "wake"
    BY <1>4, CallMoves DEF DropQueue, Goto
  <2>2. \A t \in Threads \ {c} : at'[t] = at[t]
    BY <1>4, CallMoves
  <2>3. \A d \in Clients \ {c} : at[d] \notin Closing
    BY <2>1 DEF DueKept, OneCloses
  <2> QED  BY <2>1, <2>2, <2>3, Disjoint DEF DueKept, Threads
<1>5. ASSUME NEW c \in Clients, FinishCall(c) \/ ShutdownCall(c) PROVE DueKept'
  <2>1. Quiet /\ at[c] = "idle" /\ \A t \in Threads \ {c} : at'[t] = at[t]
    BY <1>5, ClientMoves DEF FinishCall, ShutdownCall, Goto
  <2>2. MayClose(c)
    BY <1>5 DEF FinishCall, ShutdownCall, MayClose
  <2>3. due = {} /\ \A d \in Clients \ {c} : at[d] \notin Closing
    BY <2>1, <2>2 DEF DueKept, OneCloses
  <2>4. priority_job = null
    BY <2>1, <2>2 DEF SlotKept, OneCloses, Assigning
  <2>5. \/ at'[c] = "close" /\ due' = due
        \/ at'[c] = "finishing" /\ due' = Queued \cup InHand \cup ran
    BY <1>5, <2>4 DEF FinishCall, ShutdownCall, Goto, history, TypeOK, Threads
  <2> QED  BY <2>1, <2>2, <2>3, <2>5, Disjoint DEF DueKept, Quiet, Threads
<1>6. ASSUME NEW c \in Clients, FinishProceed(c) PROVE DueKept'
  <2>1. /\ Quiet /\ at[c] = "finishing" /\ at'[c] = "close" /\ UNCHANGED due
        /\ \A t \in Threads \ {c} : at'[t] = at[t]
    <3>1. ClientStep(c) /\ ~DropQueue(c) /\ ~SetDone(c)
      BY <1>6 DEF ClientStep, FinishProceed, DropQueue, SetDone, Goto
    <3>2. at[c] = "finishing" /\ at'[c] = "close" /\ UNCHANGED due
      BY <1>6 DEF FinishProceed, Goto, history, TypeOK, Threads
    <3> QED  BY <3>1, <3>2, ClientMoves
  <2>2. Queued = {}
    BY <1>6 DEF FinishProceed, Unfinished, Queued
  <2> QED  BY <2>1, <2>2, Disjoint DEF DueKept, Quiet, Threads
<1>7. ASSUME NEW c \in Clients,
             \/ AssignTaken(c) \/ AssignWaitAgain(c) \/ AppendNotify(c) \/ TryAssignTest(c)
             \/ FinishWait(c) \/ WakeAll(c) \/ Join(c)
      PROVE  DueKept'
  <2>1. Quiet /\ \A t \in Threads \ {c} : at'[t] = at[t]
    <3>1. ~DropQueue(c) /\ ~SetDone(c)
      BY <1>7 DEF AssignTaken, AssignWaitAgain, AppendNotify, TryAssignTest, FinishWait, WakeAll,
                  Join, DropQueue, SetDone, Goto, Assigning
    <3> QED  BY <1>7, <3>1, ClientMoves DEF ClientStep
  <2>2. /\ UNCHANGED due
        /\ at'[c] \in Closing <=> at[c] \in Closing
        /\ at'[c] \in Past <=> at[c] \in Past
        /\ at'[c] = "closed" /\ at[c] # "closed" => \A w \in Workers : at[w] = "gone"
    BY <1>7 DEF AssignTaken, AssignWaitAgain, AppendNotify, TryAssignTest, FinishWait, WakeAll,
                Join, Goto, Assigning, history, TypeOK, Threads
  <2>3. \A w \in Workers : at'[w] = at[w]
    BY <2>1, Disjoint DEF Threads
  <2>4. \A d \in Clients : /\ at'[d] \in Closing <=> at[d] \in Closing
                           /\ at'[d] \in Past <=> at[d] \in Past
    BY <2>1, <2>2 DEF Threads
  <2>5. at'[c] = "finishing" <=> at[c] = "finishing"
    BY <2>2
  <2> HIDE DEF Past
  <2> QED  BY <2>1, <2>2, <2>3, <2>4, <2>5 DEF DueKept, Quiet, Threads
<1>8. ASSUME NEW t \in Threads, SpuriousWakeup(t) PROVE DueKept'
  BY <1>8 DEF SpuriousWakeup, history, DueKept, InHand, Queued
<1>9. CASE UNCHANGED vars
  BY <1>9 DEF vars, history, DueKept, InHand, Queued
<1> QED  BY <1>1, <1>2, <1>3, <1>4, <1>5, <1>6, <1>7, <1>8, <1>9
            DEF Next, ClientStep, ClientCall

(* "Complete all pending jobs and shutdown": of a pool that one client      *)
(* closes and nobody else assigns to, finish returns only when all that was *)
(* handed in before it has been run, also what a worker had taken and not   *)
(* yet counted when finish looked.                                          *)
THEOREM FinishCompletes == OneAssigns /\ OneCloses => (Spec => []FinishRunsAll)
<1> SUFFICES ASSUME OneAssigns, OneCloses PROVE Spec => []FinishRunsAll
  OBVIOUS
<1>1. Init => SlotKept /\ DueKept
  BY Disjoint DEF Init, SlotKept, DueKept, Threads, Assigning, Closing, Past
<1>2. Types /\ SlotKept /\ DueKept /\ [Next]_vars => SlotKept' /\ DueKept'
  BY NextSlotKept, NextDueKept
<1>3. DueKept => FinishRunsAll
  BY DEF DueKept, FinishRunsAll, InHand, Past
<1> QED  BY <1>1, <1>2, <1>3, TypesAlways, PTL DEF Spec

-----------------------------------------------------------------------------
(* The pool implements JobPool                                             *)

\* A job is in one place at a time, and the pool is closed from SetDone on.
OnePlace ==
    /\ \A i, k \in 1 .. Len(q) : q[i] = q[k] => i = k
    /\ priority_job \notin Queued
    /\ (Queued \cup ({priority_job} \ {null})) \cap (InHand \cup ran) = {}
    /\ InHand \cap ran = {}
    /\ \A v, w \in Workers :
          at[v] \in {"start", "run"} /\ at[w] \in {"start", "run"} /\ job[v] = job[w] => v = w
    /\ \A c \in Clients : at[c] \in {"drop", "wake", "join", "closed"} => done

\* A worker that is about to take a job leaves room in the pool.
LEMMA RoomForOne ==
    ASSUME TypeOK, NEW w \in Workers, at[w] = "fetch"
    PROVE  Cardinality(InHand) \in Nat /\ Cardinality(InHand) < Cardinality(Workers)
<1> DEFINE B == {v \in Workers : at[v] \in {"start", "run"}}
           f == [v \in B |-> job[v]]
<1>1. B \in SUBSET (Workers \ {w})
  OBVIOUS
<1>2. /\ IsFiniteSet(Workers \ {w})
      /\ Cardinality(Workers \ {w}) = Cardinality(Workers) - 1
  BY PoolFinite, FS_RemoveElement
<1>3. IsFiniteSet(B) /\ Cardinality(B) <= Cardinality(Workers) - 1
  BY <1>1, <1>2, FS_Subset
<1>4. f \in Surjection(B, InHand)
  BY DEF Surjection, InHand
<1>5. IsFiniteSet(InHand) /\ Cardinality(InHand) <= Cardinality(B)
  BY <1>3, <1>4, FS_Surjection
<1> QED  BY <1>3, <1>5, PoolFinite, FS_CardinalityType

LEMMA JobsTyped ==
    ASSUME Types
    PROVE  /\ Queued \subseteq Jobs /\ InHand \subseteq Jobs
           /\ null \notin Queued \cup InHand \cup ran
BY ElementOfSeq, Disjoint DEF Types, TypeOK, HandsFull, Queued, InHand, Threads

LEMMA NextOnePlace ==
    ASSUME Types, OnePlace, [Next]_vars
    PROVE  OnePlace'
<1> TypeOK
  BY DEF Types
<1>0. /\ null \notin Queued \cup InHand \cup ran
      /\ q \in Seq(Jobs) /\ Len(q) \in Nat
  BY JobsTyped, LenProperties DEF TypeOK
<1>1. ASSUME NEW w \in Workers, WorkerStep(w) PROVE OnePlace'
  <2>1. UNCHANGED done /\ \A c \in Clients : at'[c] = at[c]
    BY <1>1, WorkerMoves
  <2>2. CASE FetchNothing(w) \/ FetchDone(w) \/ Start(w) \/ Report(w) \/ Leave(w)
    <3>1. Quiet
      BY <1>1, <2>2, WorkerMoves DEF FetchNothing, FetchDone, FetchPriority, FetchQueued, Start,
           Run, Report, Leave, Goto, conditions, history
    <3>2. \A v \in Workers : at'[v] \in {"start", "run"} => at[v] \in {"start", "run"}
      BY <2>2 DEF FetchNothing, FetchDone, Start, Report, Leave, Goto, TypeOK, Threads
    <3> QED  BY <2>1, <3>1, <3>2 DEF OnePlace, Quiet
  <2>3. CASE FetchPriority(w)
    <3>1. /\ InHand' = InHand \cup {priority_job} /\ priority_job' = null
          /\ UNCHANGED <<q, Queued, ran>>
      BY <2>3, HandTakes DEF FetchPriority, Goto, history, Queued
    <3>2. priority_job \notin InHand \cup ran \cup Queued
      BY <2>3 DEF OnePlace, FetchPriority
    <3>3. /\ job' = [job EXCEPT ![w] = priority_job] /\ at' = [at EXCEPT ![w] = "start"]
      BY <2>3 DEF FetchPriority, Goto
    <3>4. \A v, u \in Workers : at'[v] \in {"start", "run"} /\ at'[u] \in {"start", "run"}
                                   /\ job'[v] = job'[u] => v = u
      BY <3>2, <3>3 DEF OnePlace, InHand, TypeOK, Threads
    <3> QED  BY <1>0, <2>1, <3>1, <3>2, <3>4 DEF OnePlace
  <2>4. CASE FetchQueued(w)
    <3> DEFINE j == q[Len(q)]
    <3>1. InHand' = InHand \cup {j} /\ UNCHANGED <<priority_job, ran>>
      BY <2>4, HandTakes DEF FetchQueued, Goto, history
    <3>2. /\ Len(q) \in Nat \ {0} /\ Len(q)' = Len(q) - 1
          /\ \A i \in 1 .. Len(q)' : q'[i] = q[i]
          /\ Queued = Queued' \cup {j}
      BY <2>4, QueuePop DEF FetchQueued
    <3>3. j \notin Queued' \cup InHand \cup ran \cup {priority_job}
      BY <3>2 DEF OnePlace, Queued
    <3>4. /\ job' = [job EXCEPT ![w] = j] /\ at' = [at EXCEPT ![w] = "start"]
      BY <2>4 DEF FetchQueued, Goto
    <3>5. \A v, u \in Workers : at'[v] \in {"start", "run"} /\ at'[u] \in {"start", "run"}
                                   /\ job'[v] = job'[u] => v = u
      <4> HIDE DEF j
      <4> QED  BY <3>3, <3>4 DEF OnePlace, InHand, TypeOK, Threads
    <3>6. \A i, k \in 1 .. Len(q)' : q'[i] = q'[k] => i = k
      BY <3>2 DEF OnePlace
    <3>7. \A c \in Clients : at'[c] \in {"drop", "wake", "join", "closed"} => done'
      BY <2>1 DEF OnePlace
    <3> HIDE DEF j
    <3>8. /\ priority_job' \notin Queued' /\ InHand' \cap ran' = {}
          /\ (Queued' \cup ({priority_job'} \ {null})) \cap (InHand' \cup ran') = {}
      BY <3>1, <3>2, <3>3 DEF OnePlace
    <3> QED  BY <3>5, <3>6, <3>7, <3>8 DEF OnePlace
  <2>5. CASE Run(w)
    <3>1. /\ InHand = InHand' \cup {job[w]} /\ ran' = ran \cup {job[w]}
          /\ UNCHANGED <<job, q, Queued, priority_job>>
          /\ \A t \in Threads \ {w} : at'[t] = at[t]
      BY <2>5, HandRuns DEF Queued
    <3>2. at[w] = "run" /\ at'[w] = "report"
      BY <2>5 DEF Run, Goto, TypeOK, Threads
    <3>3. job[w] \notin InHand'
      BY <3>1, <3>2 DEF OnePlace, InHand, Threads
    <3>4. \A v \in Workers : at'[v] \in {"start", "run"} => at[v] \in {"start", "run"}
      BY <3>1, <3>2 DEF Threads
    <3> QED  BY <2>1, <3>1, <3>3, <3>4 DEF OnePlace
  <2> QED  BY <1>1, <2>2, <2>3, <2>4, <2>5 DEF WorkerStep, Fetch
<1>2. ASSUME NEW c \in Clients, NEW j \in Jobs, Assign(c, j) \/ TryAssign(c, j) PROVE OnePlace'
  <2>1. /\ priority_job' = j /\ job' = [job EXCEPT ![c] = j]
        /\ UNCHANGED <<InHand, Queued, q, done, ran>>
        /\ at'[c] \in Assigning /\ \A t \in Threads \ {c} : at'[t] = at[t]
    BY <1>2, CallMoves
  <2>2. j \notin Queued \cup InHand \cup ran
    BY <1>2, CallMoves DEF Fresh
  <2>3. \A w \in Workers : at'[w] = at[w] /\ job'[w] = job[w]
    BY <2>1, Disjoint DEF Threads, TypeOK
  <2> QED  BY <2>1, <2>2, <2>3, Disjoint DEF OnePlace, Assigning, Threads
<1>3. ASSUME NEW c \in Clients, NEW j \in Jobs, AppendJob(c, j) PROVE OnePlace'
  <2>1. /\ Queued' = Queued \cup {j}
        /\ UNCHANGED <<InHand, job, priority_job, done, ran>>
        /\ at'[c] = "appended" /\ \A t \in Threads \ {c} : at'[t] = at[t]
    BY <1>3, CallMoves
  <2>2. j \notin Queued \cup InHand \cup ran \cup {priority_job}
    BY <1>3, CallMoves DEF Fresh
  <2>3. /\ Len(q)' = Len(q) + 1 /\ q'[Len(q)'] = j
        /\ \A i \in 1 .. Len(q) : q'[i] = q[i]
    BY <1>3, QueuePush DEF AppendJob
  <2>4. \A i, k \in 1 .. Len(q)' : q'[i] = q'[k] => i = k
    BY <1>0, <2>2, <2>3 DEF OnePlace, Queued
  <2>5. \A w \in Workers : at'[w] = at[w]
    BY <2>1, Disjoint DEF Threads
  <2> QED  BY <2>1, <2>2, <2>4, <2>5 DEF OnePlace, Threads
<1>4. ASSUME NEW c \in Clients, SetDone(c) \/ DropQueue(c) PROVE OnePlace'
  <2>1. /\ UNCHANGED <<InHand, job, priority_job, ran>>
        /\ \/ at[c] = "close" /\ at'[c] = "drop" /\ done' = TRUE /\ UNCHANGED <<q, Queued>>
           \/ at[c] = "drop" /\ at'[c] = "wake" /\ done' = done /\ q' = <<>>
        /\ \A t \in Threads \ {c} : at'[t] = at[t]
    BY <1>4, CallMoves
  <2>2. \A w \in Workers : at'[w] = at[w]
    BY <2>1, Disjoint DEF Threads
  <2>3. \/ UNCHANGED <<q, Queued>>
        \/ Len(q)' = 0 /\ Queued' = {}
    BY <2>1 DEF Queued
  <2>4. \A d \in Clients : at'[d] \in {"drop", "wake", "join", "closed"} => done'
    BY <2>1 DEF OnePlace, Threads
  <2> QED  BY <2>1, <2>2, <2>3, <2>4 DEF OnePlace
<1>5. ASSUME NEW c \in Clients,
             \/ ClientStep(c) /\ ~DropQueue(c) /\ ~SetDone(c)
             \/ TryAssignTest(c) \/ FinishCall(c) \/ ShutdownCall(c)
      PROVE  OnePlace'
  <2>1. Quiet /\ \A t \in Threads \ {c} : at'[t] = at[t]
    BY <1>5, ClientMoves
  <2>2. \A w \in Workers : at'[w] = at[w]
    BY <2>1, Disjoint DEF Threads
  <2>3. at'[c] \in {"drop", "wake", "join", "closed"} =>
           at[c] \in {"drop", "wake", "join", "closed"}
    BY <1>5 DEF ClientStep, TryAssignTest, FinishCall, ShutdownCall, AssignTaken, AssignWaitAgain,
         AppendNotify, FinishWait, FinishProceed, WakeAll, Join, Goto, TypeOK, Threads
  <2> QED  BY <2>1, <2>2, <2>3 DEF OnePlace, Quiet, Threads
<1>6. ASSUME NEW t \in Threads, SpuriousWakeup(t) PROVE OnePlace'
  BY <1>6 DEF SpuriousWakeup, history, OnePlace, InHand, Queued
<1>7. CASE UNCHANGED vars
  BY <1>7 DEF vars, history, OnePlace, InHand, Queued
<1> QED  BY <1>1, <1>2, <1>3, <1>4, <1>5, <1>6, <1>7 DEF Next, ClientStep, ClientCall

LEMMA SameCardinality == JP!Cardinality(InHand) = Cardinality(InHand)
BY DEF JP!Cardinality, Cardinality

\* Every step of the pool is a step of JobPool, or changes nothing there.
LEMMA JobPoolStep ==
    ASSUME OneAssigns, Types, SlotKept, OnePlace, [Next]_vars
    PROVE  [JP!Next]_(JP!pvars)
<1> TypeOK
  BY DEF Types
<1> DEFINE Pending == Queued \cup ({priority_job} \ {null})
<1> USE DEF JP!pvars
<1>0. /\ null \notin Queued \cup InHand \cup ran
      /\ Queued \subseteq Jobs /\ InHand \subseteq Jobs
  BY JobsTyped
<1>1. ASSUME NEW w \in Workers, WorkerStep(w) PROVE [JP!Next]_(JP!pvars)
  <2>1. CASE Quiet
    BY <2>1 DEF Quiet
  <2>2. CASE FetchPriority(w)
    <3>1. /\ InHand' = InHand \cup {priority_job} /\ priority_job' = null
          /\ UNCHANGED <<Queued, ran, done>> /\ ~done /\ priority_job # null
      BY <2>2, HandTakes DEF FetchPriority, Goto, history, Queued
    <3>2. priority_job \notin Queued /\ priority_job \in Jobs
      BY <3>1 DEF OnePlace, TypeOK
    <3>3. Cardinality(InHand) < Cardinality(Workers)
      BY <2>2, RoomForOne DEF FetchPriority, Goto
    <3>4. /\ priority_job \in Pending
          /\ Pending' = Pending \ {priority_job}
      BY <3>1, <3>2
    <3>5. JP!Start(priority_job)
      BY <3>1, <3>3, <3>4, SameCardinality DEF JP!Start
    <3> QED  BY <3>2, <3>5 DEF JP!Next
  <2>3. CASE FetchQueued(w)
    <3> DEFINE j == q[Len(q)]
    <3>1. /\ InHand' = InHand \cup {j}
          /\ UNCHANGED <<priority_job, ran, done>> /\ ~done /\ priority_job = null
      BY <2>3, HandTakes DEF FetchQueued, Goto, history
    <3>2. /\ Len(q) \in Nat \ {0} /\ Len(q)' = Len(q) - 1
          /\ \A i \in 1 .. Len(q)' : q'[i] = q[i]
          /\ Queued = Queued' \cup {j}
      BY <2>3, QueuePop DEF FetchQueued
    <3>3. j \notin Queued' /\ j \in Jobs
      BY <1>0, <3>2 DEF OnePlace, Queued
    <3>4. Cardinality(InHand) < Cardinality(Workers)
      BY <2>3, RoomForOne DEF FetchQueued, Goto
    <3> HIDE DEF j
    <3>5. j \in Pending /\ Pending' = Pending \ {j}
      BY <3>1, <3>2, <3>3
    <3>6. JP!Start(j)
      BY <3>1, <3>4, <3>5, SameCardinality DEF JP!Start
    <3> QED  BY <3>3, <3>6 DEF JP!Next
  <2>4. CASE Run(w)
    <3>1. /\ InHand = InHand' \cup {job[w]} /\ ran' = ran \cup {job[w]}
          /\ UNCHANGED <<job, Queued, priority_job, done>>
          /\ \A t \in Threads \ {w} : at'[t] = at[t]
      BY <2>4, HandRuns DEF Queued
    <3>2. at[w] = "run" /\ at'[w] = "report"
      BY <2>4 DEF Run, Goto, TypeOK, Threads
    <3>3. job[w] \notin InHand'
      BY <3>1, <3>2 DEF OnePlace, InHand, Threads
    <3>4. JP!Complete(job[w]) /\ job[w] \in Jobs
      BY <1>0, <3>1, <3>3 DEF JP!Complete
    <3> QED  BY <3>4 DEF JP!Next
  <2> QED  BY <1>1, <2>1, <2>2, <2>3, <2>4, WorkerMoves
<1>2. ASSUME NEW c \in Clients, NEW j \in Jobs, Assign(c, j) \/ TryAssign(c, j)
      PROVE  [JP!Next]_(JP!pvars)
  <2>1. /\ priority_job' = j /\ UNCHANGED <<InHand, Queued, done, ran>>
        /\ Fresh(j) /\ at[c] \in {"idle", "trying"}
        /\ at[c] = "idle" => "assign" \in Calls[c]
    BY <1>2, CallMoves
  <2>2. MayAssign(c)
    BY <2>1 DEF SlotKept, MayAssign
  <2>3. priority_job = null
    BY <2>1, <2>2 DEF SlotKept, OneAssigns, Assigning
  <2>4. JP!Submit(j)
    BY <2>1, <2>3, Disjoint DEF JP!Submit, Fresh
  <2> QED  BY <2>4 DEF JP!Next
<1>3. ASSUME NEW c \in Clients, NEW j \in Jobs, AppendJob(c, j) PROVE [JP!Next]_(JP!pvars)
  <2>1. /\ Fresh(j) /\ Queued' = Queued \cup {j} /\ UNCHANGED <<InHand, priority_job, done, ran>>
    BY <1>3, CallMoves
  <2>2. JP!Submit(j)
    BY <2>1 DEF JP!Submit, Fresh
  <2> QED  BY <2>2 DEF JP!Next
<1>4. ASSUME NEW c \in Clients, SetDone(c) \/ DropQueue(c) PROVE [JP!Next]_(JP!pvars)
  <2>1. /\ UNCHANGED <<InHand, priority_job, ran>>
        /\ \/ done' = TRUE /\ UNCHANGED Queued
           \/ at[c] = "drop" /\ done' = done /\ q' = <<>>
    BY <1>4, CallMoves
  <2>2. CASE done' = TRUE /\ UNCHANGED Queued
    BY <2>1, <2>2 DEF JP!Next, JP!Close, TypeOK
  <2>3. CASE at[c] = "drop" /\ done' = done /\ q' = <<>>
    <3>1. done /\ Queued' = {}
      BY <2>3 DEF OnePlace, Queued
    <3> QED  BY <2>1, <2>3, <3>1 DEF JP!Next, JP!Drop
  <2> QED  BY <2>1, <2>2, <2>3
<1>5. ASSUME NEW c \in Clients,
             \/ ClientStep(c) /\ ~DropQueue(c) /\ ~SetDone(c)
             \/ TryAssignTest(c) \/ FinishCall(c) \/ ShutdownCall(c)
      PROVE  [JP!Next]_(JP!pvars)
  BY <1>5, ClientMoves DEF Quiet
<1>6. CASE (\E t \in Threads : SpuriousWakeup(t)) \/ UNCHANGED vars
  BY <1>6 DEF SpuriousWakeup, vars, history, InHand, Queued
<1> QED  BY <1>1, <1>2, <1>3, <1>4, <1>5, <1>6 DEF Next, ClientStep, ClientCall

(* While one client assigns, the pool is a JobPool: whatever the workers,   *)
(* the flags read without m and the order of the calls, a job is taken at   *)
(* most once, never while all workers are busy nor after the pool was       *)
(* closed, and none disappears before that.                                 *)
THEOREM Refinement == OneAssigns => (Spec => ImplementsJobPool)
<1> SUFFICES ASSUME OneAssigns PROVE Spec => ImplementsJobPool
  OBVIOUS
<1>1. Init => SlotKept /\ OnePlace /\ JP!Init
  <2> SUFFICES ASSUME Init PROVE SlotKept /\ OnePlace /\ JP!Init
    OBVIOUS
  <2>1. Queued = {} /\ InHand = {} /\ Len(q) = 0
    <3>1. Len(q) = 0
      BY EmptySeq DEF Init
    <3>2. Queued = {}
      BY <3>1 DEF Queued
    <3> QED  BY <3>1, <3>2 DEF Init, InHand, Threads
  <2>2. SlotKept
    BY Disjoint DEF Init, SlotKept, Threads, Assigning
  <2>3. OnePlace
    BY <2>1, Disjoint DEF Init, OnePlace, Threads
  <2>4. JP!Init
    BY <2>1 DEF Init, JP!Init
  <2> QED  BY <2>2, <2>3, <2>4
<1>2. Types /\ SlotKept /\ OnePlace /\ [Next]_vars => SlotKept' /\ OnePlace'
  BY NextSlotKept, NextOnePlace
<1>3. Types /\ SlotKept /\ OnePlace /\ [Next]_vars => [JP!Next]_(JP!pvars)
  BY JobPoolStep
<1> QED  BY <1>1, <1>2, <1>3, TypesAlways, PTL DEF Spec, ImplementsJobPool, JP!Spec
=============================================================================
