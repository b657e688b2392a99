----------------------------- MODULE ThreadPool -----------------------------
(***************************************************************************)
(* tango.core.ThreadPool: worker threads that take jobs from a slot for    *)
(* one job to be done at once (assign, tryAssign) or from a stack of jobs  *)
(* to be done some time (append), until shutdown or finish.                *)
(*                                                                         *)
(* An action is one critical section of m, up to its end or to the wait on *)
(* a condition that releases m, or one access to an atomic flag or one     *)
(* notify outside of it.  A worker reads done twice, at the top of its     *)
(* loop and with m held; done is never reset, so the first reading decides *)
(* nothing that the second one would not, and Fetch stands for both.       *)
(***************************************************************************)
EXTENDS Integers, Sequences, FiniteSets

CONSTANTS
    Workers,            \* the threads of pool
    Clients,            \* the threads that use it
    Calls,              \* Calls[c]: the methods that client c calls
    Jobs,               \* what the clients hand in, each once
    null                \* no job

ASSUME Disjoint    == Workers \cap Clients = {} /\ null \notin Jobs
ASSUME PoolFinite  == IsFiniteSet(Workers) /\ IsFiniteSet(Jobs)
ASSUME CallsOfClients ==
    Calls \in [Clients -> SUBSET {"assign", "tryAssign", "append", "shutdown", "finish"}]

VARIABLES
    at,                 \* where each thread is
    job,                \* a worker's local variable; the job a client assigned last
    q,
    priority_job,
    active_jobs,
    done,
    poolActivity,       \* workers blocked in poolActivity.wait()
    workerActivity,     \* clients blocked in workerActivity.wait()
    ran,                \* history: the jobs that were run
    due                 \* history: the jobs handed in when finish was called

conditions == <<poolActivity, workerActivity>>
history    == <<ran, due>>
vars == <<at, job, q, priority_job, active_jobs, done, conditions, history>>

Threads == Workers \cup Clients

Init ==
    /\ at = [t \in Threads |-> IF t \in Workers THEN "fetch" ELSE "idle"]
    /\ job = [t \in Threads |-> null]
    /\ q = <<>>
    /\ priority_job = null
    /\ active_jobs = 0
    /\ done = FALSE
    /\ poolActivity = {}
    /\ workerActivity = {}
    /\ ran = {}
    /\ due = {}

Goto(t, from, to) == at[t] = from /\ at' = [at EXCEPT ![t] = to]

\* Condition.notify: wakes one of the threads that wait, if there are any.
notify(queue, queueNext) ==
    \/ queue = {} /\ queueNext = {}
    \/ \E t \in queue : queueNext = queue \ {t}

SpuriousWakeup(t) ==
    /\ t \in poolActivity \cup workerActivity
    /\ poolActivity' = poolActivity \ {t}
    /\ workerActivity' = workerActivity \ {t}
    /\ UNCHANGED <<at, job, q, priority_job, active_jobs, done, history>>

Queued == {q[i] : i \in 1 .. Len(q)}
InHand == {job[w] : w \in {v \in Workers : at[v] \in {"start", "run"}}}
Assigning == {"assigning", "tryAssigning"}

\* A job that nobody handed in yet.
Fresh(j) ==
    /\ j \notin Queued \cup InHand \cup ran \cup due
    /\ j \notin {priority_job} \cup {job[c] : c \in Clients}

-----------------------------------------------------------------------------
(* doJob                                                                   *)

\* Nothing to do: poolActivity.wait().
FetchNothing(w) ==
    /\ at[w] = "fetch" /\ w \notin poolActivity
    /\ q = <<>> /\ priority_job = null /\ ~done
    /\ poolActivity' = poolActivity \cup {w}
    /\ UNCHANGED <<at, job, q, priority_job, active_jobs, done, workerActivity, history>>

FetchDone(w) ==
    /\ w \notin poolActivity
    /\ done
    /\ Goto(w, "fetch", "leave")
    /\ UNCHANGED <<job, q, priority_job, active_jobs, done, conditions, history>>

\* Mutant: the slot is not emptied.
FetchPriority_Kept(w) ==
    /\ w \notin poolActivity
    /\ ~done /\ priority_job # null
    /\ Goto(w, "fetch", "start")
    /\ job' = [job EXCEPT ![w] = priority_job]
    /\ notify(workerActivity, workerActivity')
    /\ UNCHANGED <<q, priority_job, active_jobs, done, poolActivity, history>>

FetchPriority(w) ==
    /\ w \notin poolActivity
    /\ ~done /\ priority_job # null
    /\ Goto(w, "fetch", "start")
    /\ job' = [job EXCEPT ![w] = priority_job]
    /\ priority_job' = null
    /\ notify(workerActivity, workerActivity')
    /\ UNCHANGED <<q, active_jobs, done, poolActivity, history>>

\* Mutant: the stack is left as it is.
FetchQueued_Kept(w) ==
    /\ w \notin poolActivity
    /\ ~done /\ priority_job = null /\ q # <<>>
    /\ Goto(w, "fetch", "start")
    /\ job' = [job EXCEPT ![w] = q[Len(q)]]
    /\ UNCHANGED <<q, priority_job, active_jobs, done, conditions, history>>

FetchQueued(w) ==
    /\ w \notin poolActivity
    /\ ~done /\ priority_job = null /\ q # <<>>
    /\ Goto(w, "fetch", "start")
    /\ job' = [job EXCEPT ![w] = q[Len(q)]]
    /\ q' = SubSeq(q, 1, Len(q) - 1)
    /\ UNCHANGED <<priority_job, active_jobs, done, conditions, history>>

Fetch(w) == FetchNothing(w) \/ FetchDone(w) \/ FetchPriority(w) \/ FetchQueued(w)

\* active_jobs += 1, with m released since Fetch.
Start(w) ==
    /\ Goto(w, "start", "run")
    /\ active_jobs' = active_jobs + 1
    /\ UNCHANGED <<job, q, priority_job, done, conditions, history>>

\* The job returns or throws; active_jobs -= 1.
Run(w) ==
    /\ Goto(w, "run", "report")
    /\ active_jobs' = active_jobs - 1
    /\ ran' = ran \cup {job[w]}
    /\ UNCHANGED <<job, q, priority_job, done, conditions, due>>

\* Mutant: finish is not told that a job is done.
Report_Silent(w) ==
    /\ Goto(w, "report", "fetch")
    /\ UNCHANGED <<job, q, priority_job, active_jobs, done, conditions, history>>

Report(w) ==
    /\ Goto(w, "report", "fetch")
    /\ notify(workerActivity, workerActivity')
    /\ UNCHANGED <<job, q, priority_job, active_jobs, done, poolActivity, history>>

Leave(w) ==
    /\ Goto(w, "leave", "gone")
    /\ notify(workerActivity, workerActivity')
    /\ UNCHANGED <<job, q, priority_job, active_jobs, done, poolActivity, history>>

-----------------------------------------------------------------------------
(* assign, tryAssign, append                                               *)

\* Puts the job into the slot, tells a worker and waits for the slot to be
\* empty.  The slot may hold the job of another client.
PutPriority(c, j) ==
    /\ Fresh(j)
    /\ priority_job' = j
    /\ job' = [job EXCEPT ![c] = j]
    /\ notify(poolActivity, poolActivity')
    /\ workerActivity' = workerActivity \cup {c}
    /\ UNCHANGED <<q, active_jobs, done, history>>

\* Nobody assigns a job to a pool that is being shut down already.
Assign(c, j) ==
    /\ "assign" \in Calls[c]
    /\ ~done
    /\ Goto(c, "idle", "assigning")
    /\ PutPriority(c, j)

\* Mutant: if in the place of while.
AssignTaken_NoLoop(c) ==
    /\ at[c] \in Assigning /\ c \notin workerActivity
    /\ at' = [at EXCEPT ![c] = "idle"]
    /\ UNCHANGED <<job, q, priority_job, active_jobs, done, conditions, history>>

\* The wait returned and the slot is empty: the job is taken.
AssignTaken(c) ==
    /\ at[c] \in Assigning /\ c \notin workerActivity
    /\ priority_job = null
    /\ at' = [at EXCEPT ![c] = "idle"]
    /\ UNCHANGED <<job, q, priority_job, active_jobs, done, conditions, history>>

AssignWaitAgain(c) ==
    /\ at[c] \in Assigning /\ c \notin workerActivity
    /\ priority_job # null
    /\ workerActivity' = workerActivity \cup {c}
    /\ UNCHANGED <<at, job, q, priority_job, active_jobs, done, poolActivity, history>>

\* tryAssign reads active_jobs without m; returning false changes nothing.
TryAssignTest(c) ==
    /\ "tryAssign" \in Calls[c]
    /\ ~done
    /\ active_jobs < Cardinality(Workers)
    /\ Goto(c, "idle", "trying")
    /\ UNCHANGED <<job, q, priority_job, active_jobs, done, conditions, history>>

TryAssign(c, j) == Goto(c, "trying", "tryAssigning") /\ PutPriority(c, j)

\* append: the job is put on the stack ...
AppendJob(c, j) ==
    /\ "append" \in Calls[c]
    /\ Fresh(j)
    /\ Goto(c, "idle", "appended")
    /\ q' = Append(q, j)
    /\ UNCHANGED <<job, priority_job, active_jobs, done, conditions, history>>

\* Mutant: no worker is told.
AppendNotify_Silent(c) ==
    /\ Goto(c, "appended", "idle")
    /\ UNCHANGED <<job, q, priority_job, active_jobs, done, conditions, history>>

\* ... and then, with m released, a worker is told.
AppendNotify(c) ==
    /\ Goto(c, "appended", "idle")
    /\ notify(poolActivity, poolActivity')
    /\ UNCHANGED <<job, q, priority_job, active_jobs, done, workerActivity, history>>

-----------------------------------------------------------------------------
(* finish, shutdown                                                        *)

FinishCall(c) ==
    /\ "finish" \in Calls[c]
    /\ ~done
    /\ Goto(c, "idle", "finishing")
    /\ due' = Queued \cup InHand \cup ran \cup ({priority_job} \ {null})
    /\ UNCHANGED <<job, q, priority_job, active_jobs, done, conditions, ran>>

\* Mutant: finish looks at the running jobs only.
Unfinished_Active == active_jobs > 0

Unfinished == q # <<>> \/ active_jobs > 0

FinishWait(c) ==
    /\ at[c] = "finishing" /\ c \notin workerActivity
    /\ Unfinished
    /\ workerActivity' = workerActivity \cup {c}
    /\ UNCHANGED <<at, job, q, priority_job, active_jobs, done, poolActivity, history>>

FinishProceed(c) ==
    /\ c \notin workerActivity
    /\ ~Unfinished
    /\ Goto(c, "finishing", "close")
    /\ UNCHANGED <<job, q, priority_job, active_jobs, done, conditions, history>>

ShutdownCall(c) ==
    /\ "shutdown" \in Calls[c]
    /\ ~done
    /\ Goto(c, "idle", "close")
    /\ UNCHANGED <<job, q, priority_job, active_jobs, done, conditions, history>>

SetDone(c) ==
    /\ Goto(c, "close", "drop")
    /\ done' = TRUE
    /\ UNCHANGED <<job, q, priority_job, active_jobs, conditions, history>>

DropQueue(c) ==
    /\ Goto(c, "drop", "wake")
    /\ q' = <<>>
    /\ UNCHANGED <<job, priority_job, active_jobs, done, conditions, history>>

WakeAll(c) ==
    /\ Goto(c, "wake", "join")
    /\ poolActivity' = {}
    /\ UNCHANGED <<job, q, priority_job, active_jobs, done, workerActivity, history>>

Join(c) ==
    /\ \A w \in Workers : at[w] = "gone"
    /\ Goto(c, "join", "closed")
    /\ UNCHANGED <<job, q, priority_job, active_jobs, done, conditions, history>>

-----------------------------------------------------------------------------
WorkerStep(w) == Fetch(w) \/ Start(w) \/ Run(w) \/ Report(w) \/ Leave(w)

\* What a client does once it has called a method.
ClientStep(c) ==
    \/ AssignTaken(c) \/ AssignWaitAgain(c) \/ AppendNotify(c)
    \/ FinishWait(c) \/ FinishProceed(c)
    \/ SetDone(c) \/ DropQueue(c) \/ WakeAll(c) \/ Join(c)

ClientCall(c) ==
    \/ \E j \in Jobs : Assign(c, j) \/ TryAssign(c, j) \/ AppendJob(c, j)
    \/ TryAssignTest(c) \/ FinishCall(c) \/ ShutdownCall(c)

Next == \/ \E w \in Workers : WorkerStep(w)
        \/ \E c \in Clients : ClientStep(c) \/ ClientCall(c)
        \/ \E t \in Threads : SpuriousWakeup(t)

Spec == Init /\ [][Next]_vars

\* Threads that can run do, and jobs end.  Nobody has to call anything.
Fairness == /\ \A w \in Workers : WF_vars(WorkerStep(w))
            /\ \A c \in Clients : WF_vars(ClientStep(c))

FairSpec == Spec /\ Fairness

-----------------------------------------------------------------------------
(* Properties                                                              *)

TypeOK ==
    /\ at \in [Threads -> {"fetch", "start", "run", "report", "leave", "gone",
                           "idle", "assigning", "trying", "tryAssigning", "appended",
                           "finishing", "close", "drop", "wake", "join", "closed"}]
    /\ job \in [Threads -> Jobs \cup {null}]
    /\ q \in Seq(Jobs)
    /\ priority_job \in Jobs \cup {null}
    /\ active_jobs \in 0 .. Cardinality(Workers)
    /\ done \in BOOLEAN
    /\ poolActivity \subseteq Workers
    /\ workerActivity \subseteq Clients
    /\ ran \subseteq Jobs /\ due \subseteq Jobs

\* No job waits while all workers sleep: the notify of assign and append is not
\* lost, even though append sends it after m was released.
WorkSeen ==
    (q # <<>> \/ priority_job # null) /\ poolActivity = Workers
        => \E c \in Clients : at[c] \in {"appended", "wake"}

\* "Assign the given job to a thread immediately or block until one is available":
\* when assign has returned, a worker has the job.
AssignedJobTaken ==
    \A c \in Clients : at[c] \notin Assigning /\ job[c] # null => job[c] \in InHand \cup ran

\* "Complete all pending jobs and shutdown": when finish has returned, what had
\* been handed in when it was called has been run, although a worker that has
\* just taken the last job has not yet counted itself as active.
FinishRunsAll == (\E c \in Clients : at[c] = "closed") => due \subseteq ran

\* Jobs go through the pool once, at most one per worker; none is lost before
\* the pool is closed, and none starts after that.
JP == INSTANCE JobPool WITH
        pending  <- Queued \cup ({priority_job} \ {null}),
        running  <- InHand,
        finished <- ran,
        closed   <- done,
        Capacity <- Cardinality(Workers)
ImplementsJobPool == JP!Spec

\* Until the pool is closed, jobs are started as long as there is one and a worker
\* for it.
ImplementsDiligent == JP!Diligent

\* A client that assigns a job is let go.
AssignReturns == \A c \in Clients : at[c] \in Assigning ~> at[c] = "idle"

\* finish and shutdown return.
CloseReturns == \A c \in Clients : at[c] \in {"finishing", "close"} ~> at[c] = "closed"
=============================================================================
