# Tango: verification of its concurrent core

Tango is a standard library for D: a language runtime (`runtime/`: threads, garbage
collector, compiler hooks) and a user library (`user/tango/`: synchronisation, streams,
containers, text, networking). Most of it is either pure computation on strings and
numbers or a thin layer over system calls. What is hard to get right and hard to test is
the part where threads meet: the synchronisation objects of `tango.core.sync`, the thread
pool, the pipe between threads, the runtime's thread list, the cluster queue with its
file that has to survive a crash, and below them the C half of the runtime, the locks behind `synchronized` and the
search for a catch block. This directory models most of that part in TLA+, checks it with
TLC, and proves about it with TLAPS.

Contents: [1 Inventory](#1-inventory), [2 Modules](#2-modules), [3 Runs](#3-runs),
[4 Fairness](#4-fairness), [5 Proofs](#5-proofs), [6 What the work showed](#6-what-the-work-showed),
[7 Not modelled](#7-not-modelled), [8 Plan](#8-plan).

To repeat the work, in this directory: `tlc -config ThreadPipe_ring.cfg MCThreadPipe`
(likewise for the other configurations, each with the MC module of its prefix), and
`tlapm ThreadPipeProofs.tla`.

## 1 Inventory

### Modelled components

**ReadWriteMutex** (`core/sync/ReadWriteMutex.d`). *State*: a mutex `m_commonMutex`, two
conditions, four counters (readers and writers, queued and active), the policy.
*Operations*: `lock`, `tryLock` and `unlock` of a Reader and of a Writer object.
*Uses*: Mutex and Condition. *Hard*: a woken thread is overtaken by newcomers before it
has the mutex again; which side an unlock alerts depends on the policy and two counters;
a wait that throws leaves `lock` through `scope(exit)`. *Correct when*: a writer is alone,
the counters count the threads, no wakeup is lost, the preferred side is not starved.

**Barrier** (`core/sync/Barrier.d`). *State*: `m_count`, `m_group`, a mutex and a
condition. *Operation*: `wait`, again and again. *Hard*: threads of a group that has
passed are still on their way out while the next group gathers. *Correct when*: threads
travel in groups of exactly `m_limit`, and everybody whose group is complete leaves.

**Condition, Win32** (`core/sync/Condition.d`, `version(Win32)`). *State*: two semaphores
(`m_blockLock` is a gate, `m_blockQueue` holds wakeups), a critical section, three
counters. *Operations*: `wait`, `wait(period)`, `notify`, `notifyAll`. *Hard*: between the
notification and the return of the woken threads nobody else may take the wakeup; time-outs
race notifications; each thread must hand the gate on. *Correct when*: it behaves as a
condition variable whose gate always opens again.

**Condition, POSIX** (same file). A wrapper of `pthread_cond_*`. It has no module of its
own: its promise (wait sets, spurious wakeups) is part of each module that uses it.

**ThreadPool** (`core/ThreadPool.d`). *State*: a stack of jobs, one slot for an assigned
job, the count `active_jobs` and the flag `done`, both read and written outside the mutex,
and two conditions. *Operations*: `assign`, `tryAssign`, `append`, `shutdown`, `finish`;
`doJob`, the workers' loop. *Hard*: flags read outside the mutex, a notify sent after the
mutex was released, one condition shared by waiters with different reasons. *Correct when*:
a job runs once, none is forgotten, who assigns is let go, finish runs everything.

**ThreadPipe** (`io/device/ThreadPipe.d`). *State*: a circular buffer, `_readIdx`,
`_remaining`, `_closed`, a mutex and one condition for readers and writers. *Operations*:
`read`, `write`, `stop`, `clear`. *Hard*: copies in two parts where
the buffer ends, partial reads and writes, readers and writers on one condition. *Correct
when*: it is a bounded first-in first-out stream of bytes that serves every call it can.

**Object monitors** (`runtime/compiler/{dmd,gdc,ldc}/monitor.c`, and the copies of
`patches/proposals/integrated_locks`). *State*: `h->monitor` of each object, blocks of the heap,
`_monitor_critsec`, `_monitors_attr`, `inited`. *Operations*: the functions that `_d_monitorenter`,
`_d_monitorexit` and `_d_monitordelete` of `object_.d` call, or that the proposal has in their place;
constructor and destructor, called by `dmain2.d`. *Hard*: `h->monitor` is tested without the lock
that guards its creation; two threads create one at once; mutexes are recursive only through an
attribute object; there are twelve copies. *Correct when*: all users of an object meet on one lock,
which its holder may enter again, and no monitor is lost or shared.

**Critical sections** (`runtime/compiler/{dmd,gdc,ldc}/critical.c`). *State*: `dcs->next` and the
mutex of each section, `dcs_list`, `critical_section`. *Operations*: `_d_criticalenter`,
`_d_criticalexit`, `_STI_critical_init`, `_STD_critical_term`. *Hard*: the same double check;
`dcs->next` is both the link of the list and the sign that the section is ready; a shutdown
followed by a restart. *Correct when*: a section excludes and nests, the list leads through every
section in use, and whoever locks finds a mutex.

**Exception handling of dmd** (`runtime/compiler/dmd/deh.c` on Win32, `rt/deh2.d` elsewhere: the build
files take `deh.obj` on Windows only, and the second half of deh.c, for Linux, is in no build). *State*:
the stack with each frame's place and `table_index`, the tables of handlers, the exception under way.
*Operations*: `_d_throw` of both, `_d_framehandler`, `_d_local_unwind`, `_d_monitor_handler`, the
translation of the system's exceptions. *Hard*: two walks on Win32 that must agree, one on Linux that
finds its place by return addresses and runs finally blocks before it knows who catches;
`table_index` is kept by compiled code and by the handler. *Correct when*: the innermost catch block
that fits gets the object, and exactly the finally blocks in between run, inner ones first.

**Cluster queue server** (`net/cluster/tina/QueueFile.d`, `ClusterQueue.d`, `QueueThread.d`). *State*:
a file of records with headers; in memory the insert position, the depth, the last header, the position
of the file and one read buffer. *Operations*: the constructor with its sweep, `push`, `pop`;
`put`, `get` and `lookup` of PersistQueue, one thread per client. *Hard*: the server may end between
two writes, and the next one has only the file to go by; replies are copied from the shared buffer
outside the lock. *Correct when*: after every restart exactly the records put and not taken are
there, and each client is sent the record that its pop took. The first fails where the end of the file or
older content misleads the sweep, the second where two clients get at once (section 6).

### Components without a model

| component | state | operations | hard behaviour | correct when |
|---|---|---|---|---|
| Semaphore, Mutex | a system object | acquire, release | none of their own | they are what the modules above assume of them |
| Counter, Atomic | one word | load, store, increment, CAS | memory order | each operation is one step |
| Signal | slot arrays, queued attaches, `m_blk` | call, attach, detach | re-entrancy, a slot that throws, a lock per statement and not per signal | an attached slot is called once per call, a detached one never again |
| Thread | list of threads and contexts, `suspendDepth` | start, join, getAll, joinAll, suspendAll, resumeAll | threads that start or end between two scans, nested suspends | the world is stopped between the outermost suspend and resume and runs after it |
| Fiber | state HOLD/EXEC/TERM, context stack | call, yield, reset | exceptions across the switch | calls nest and each yield returns to its caller |
| Cluster cache, cluster client | hash map with times; a connection, a cache and a task queue | put, get, cull, invalidate | stale entries, late invalidations | a read never returns what was invalidated before it |
| Buffers, streams | a window of an array | read, fill, flush, compress | requests at the buffer's edge | the consumer sees the producer's bytes |
| Selectors | key table, event sets | register, unregister, select | a key that goes away in a select | the tables agree |
| Containers, CacheMap | lists, hash tables | insert, remove, evict | eviction order | they equal a reference collection |
| Log | tree of loggers | add, set level, inherit | insertion between a parent and its children | a level comes from the nearest ancestor |
| Garbage collector | pages, bitmaps | malloc, free, collect | roots in registers of stopped threads | what is reachable survives |

The remaining parts (compiler hooks, text, protocols, VFS, math, processes, headers) are in
`PROJECT.json` with the reason they stay outside.

### How they interact

`synchronized` statements and Mutex give mutual exclusion; a Condition releases its mutex
for the time of a wait. ReadWriteMutex, Barrier, ThreadPool and ThreadPipe are built on
exactly these two, by calls on shared objects; no component sends messages to another one.
Their modules rely on the weakest condition variable the library offers: a woken thread
competes for the mutex with everybody else, and waits may end for no reason. The module
ConditionVariable says what the Win32 class promises, which is stronger. Thread's
stop-the-world protocol interrupts all others at any point without changing their state.
Below them, `synchronized` is ObjectMonitor and CriticalSections, which RuntimeLocks composes: one
program uses both, nested, between the start and the end that `dmain2.d` gives them. An exception
that leaves a synchronized function exits its monitor, which in Exceptions is one of the finally
blocks. PersistQueue calls QueueFile, whose operations are synchronized, and shares nothing with the
others.

## 2 Modules

Names of variables and operators are those of the D source. Every model takes **one
critical section as one action**: from the acquisition of the mutex to its release, or to
the `Condition.wait` that releases it. What follows a wait is an action of its own (that
is where others overtake), and so is every access to shared state outside the mutex. A
condition is the set of threads asleep on it.

| module | what it is | correspondence |
|---|---|---|
| RWLock | abstract: a lock with a policy, only the places of threads | - |
| ReadWriteMutex | the code; implements RWLock | `m_policy` is what the constructor was given, `at` is where a thread stands; `ReaderLock` is `lock` that does not wait, `ReaderQueue` one that does, `ReaderAcquire`/`ReaderWaitAgain` the loop after a wait, `ReaderWaitThrows` its exception path, `ReaderTryLock`, `ReaderUnlock`; the same for writers. A `tryLock` that fails changes nothing and has no action |
| GroupBarrier | abstract: who gathers, who leaves | - |
| Barrier | the code; implements GroupBarrier | `wait` is `Arrive` or `Complete` (the last of a group), then `Leave` or `WaitAgain`; `group` is the local variable |
| ConditionVariable | abstract: who waits, how many notifications are due | - |
| ConditionWin32 | the code; implements ConditionVariable | `timedWait` from `CallWait` to `ReturnFromWait`, one action between any two operations that may block; `NotifyFirst`, `CloseGate`, `WakeFirst` and `NotifyMore` are `notify_(all)`; `ReleaseQueue` is what the system does with a semaphore |
| JobPool | abstract: jobs pending, running, finished | - |
| ThreadPool | the code; implements JobPool | `doJob` is `Fetch` (four outcomes), `Start`, `Run`, `Report`, `Leave`; each method is its calling action and the steps that follow. `ran` and `due` are history variables |
| BytePipe | abstract: a bounded byte stream with calls | - |
| ThreadPipe | the code; implements BytePipe | `read` is `CallRead`, then `Read`, `ReadWait` or `ReadEof`; the same for `write`; `buf` with two-part copies; `result` is a history variable, so that the refinement speaks of the bytes a call moved |
| StepPrograms | notation: a C function as the sequence of its steps | one step is one statement that another thread may see, or one test |
| MonitorBuilds, CriticalBuilds | the copies of monitor.c and of critical.c as data | `Create` is `_d_monitor_create`, `Enter` is `_d_criticalenter`, and so on; a copy is the record of its functions, so that what differs between copies is seen at a glance |
| ObjectMonitor | what the steps of monitor.c do | `fn` and `at` are the function and the step a thread is at; each named step is an action; `Enter`, `Exit`, `Delete` are what object_.d calls |
| CriticalSections | what the steps of critical.c do | the same, with `call` and `pc`; `Start` and `Stop` are the calls of dmain2.d |
| RuntimeLocks | ObjectMonitor and CriticalSections in one program; implements RecursiveLocks | one thread is in one call; `Programs` pairs the copies that are linked together |
| RecursiveLocks | abstract: things a thread may be inside of, as often as it likes, while no other is | - |
| Exceptions | deh.c and deh2.d, chosen by `os` | `NextHandler`, `Search`, `Find` are the first walk of Win32, `_d_local_unwind`, `Unlink`, `EnterCatch` the second; `FindCaller`, `StartIndex`, `WalkTable`, `CatchHere` are `_d_throw` of deh2.d, whose entries have `offset` and `endoffset` (`first` and `last + 1`, `Address` is that of the instruction before a function's first); `GiveUp` is its exit(1), and the system's on Win32; `Go`, `Call`, `Return` are compiled code, which keeps `table_index` |
| RecordStack | abstract: a stack of records, one call at a time, crashes and restarts | - |
| QueueFile | the file and what the class keeps in memory | a cell is four bytes: the first of a header stands for what it says, the others for their place, a record has its pieces; `Lookalikes` is the content that the checksum takes for a header; `PushHeader` and `PushContent` are `push`, `PopMark` and `PopRead` are `pop`, one step per write; `OpenFile` is the constructor, `Sweep` its loop (`EndsAt`, `FailsAt`) |
| PersistQueue | threads that use a QueueFile; implements RecordStack | `PutHeader`, `PutContent`; `GetMark`, `GetRead`, and `GetReply` outside the lock; `Lookup`; `Crash` forgets everything but `file`. `torn` (the last crash cut off a push) and `got` (the record each client's last pop took) are history variables |
| RuntimeLocksInvariants | the places in monitor.c and critical.c that the proofs speak of, and the invariants `MonitorInv`, `SectionInv`, `ListInv` | section 5 |
| ...Proofs | theorems and lemmas about the module of that name | section 5 |
| MC... | the instance of the module of that name for TLC | section 3 |

Operators whose names end in `_` and a word (`Complete_NotifyOne`, `PopRead_NoSeek`, ...) are
not part of the models: they are the definitions as a plausible slip would leave them
(a dropped guard, a missing notify, an off-by-one), each used to make sure that some
property notices.

Refinement mappings: RWLock takes `at` as it is. GroupBarrier takes `gathering` as the
threads in `wait` whose group is still open, `leaving` as the others. ConditionVariable
takes `waiting` as the waiters that have not yet counted themselves off and `due` as
`m_numWaitersToUnblock`; who waits without a period leaves it by a notification that is due and in no
other way. JobPool takes `pending` as the stack and the slot together,
`running` as the jobs in workers' hands. RecursiveLocks takes how often each thread is inside each
object and section, whatever mutex stands behind it. RecordStack takes `records` as what the pops of
a running program will find, going down from the last header (`Held`), and while none runs as what
the sweep of the next one will (`Left`). BytePipe takes `content` as the `remaining` bytes
from `readIdx` on, modulo the buffer's length.

## 3 Runs

| run | instance | shows |
|---|---|---|
| rwmutex_all | 5 threads, either policy; waits may end early, under PREFER_READERS also throw | `MutualExclusion`, `CountersAgree`; no lost wakeup (`ReadersAlerted`, `WriterAlerted`); it implements RWLock, under fairness also its promise to serve; `ReaderNotStarved`, `WritersNotStarved`: the side the policy prefers is not kept out by a stream of the other one |
| barrier_groups | 5 threads, groups of 3, group number modulo 3 | `CountAgrees`, `NobodyLeftAsleep`, GroupBarrier and that everybody leaves |
| condition_all | 4 waiters, one of them with a period, 3 notifiers, limit of gone waiters 3 | `WaitersAccounted`, `GateKept`, ConditionVariable with its promise that due notifications are used, `GateOpens`, `TimedWaitReturns`, with time-outs that race a notification |
| condition_race | 2 waiters with a period, 1 notifier | expected violation of `TimedWaitReturns`, section 6 |
| pool_all | 2 workers, 2 clients, 3 jobs: one client assigns, tries, appends, finishes or shuts down, the other appends | `WorkSeen` (no job waits while all sleep), `AssignedJobTaken`, `FinishRunsAll`, JobPool, `ImplementsDiligent`, `AssignReturns`, `CloseReturns` |
| pool_two_assigners | 2 clients that assign | expected violation of `AssignedJobTaken`, section 6 |
| pool_finish_stuck | 1 worker, one client assigns, one finishes | expected violation of `CloseReturns`, section 6 |
| pipe_ring | 3 threads (a reader, a writer, one that does both), buffer of 3, requests up to 2, bytes 0 and 1 | `SleepersHaveToWait`, BytePipe, and that every call which can end does |
| runtime_locks | 2 threads, 2 locks that are objects or sections, each runtime that differs from the others, nesting up to 2, one shutdown and a restart | RecursiveLocks, `HolderMayReenter`, `BlocksAccounted`, `ListWhole`, `InternalLocksBrief`; `FlawsKnown`: a mutex is used before it is one in the named ways only |
| exceptions | 4 functions with nested try, catch, finally and synchronized, 3 frames, 3 classes and a fault, both systems | `InnermostCatches`, `FinallyInBetween`, `ObjectFits`, `IndexRight` |
| queue_crash | 2 clients, records of 1 and 2 cells, headers of 2, a file of 6 cells that grows; any number of crashes and restarts | RecordStack (a crash touches no record but the one of the call it cuts off), `FileUsable` (a start fails in three ways only) |
| queue_replies | 2 clients | expected violation of `ReplyIsOwn`, section 6 |

The bounds, and why they are enough to be interesting:

- *Five threads* on the reader/writer mutex: one inside, two queued on one side (so that
  `notify` and `notifyAll` differ), one on the other side, and a newcomer. Threads call
  without end; nothing else is bounded, the state space is finite as it is.
- *Barrier*: with five threads and groups of three a second group gathers while two of the
  first are still inside. `GroupMod` 3 makes the group number wrap. The code's number has 32
  bits; it may only wrap if no thread stays inside for the 2^32 groups between two uses of
  a number, and the guard `NotLapped` is that assumption, by name.
- *Condition*: three notifiers make a notification join one in progress, four waiters make
  some of them wait at the gate while others leave. The waiter with a period does not overlap
  with the others (`TimedAlone`): with an overlap the algorithm is not correct, which is the
  run condition_race. `GoneLimit` stands for `int.max / 2`; with 3, the branch behind it is
  reached. `GoneBound` stops callers from accumulating more time-outs than that.
- *Pool*: two workers, so that one is woken and the other one takes the job; a job is
  handed in once and the number of jobs bounds the runs. The first client makes one call
  after another, in any order. In pool_all a single client
  assigns and does nothing else meanwhile; what happens with two is a run of its own.
- *Pipe*: requests of two in a buffer of three make reads and writes end before, at and
  behind the end of the buffer, from every index. Two values of a byte tell
  positions apart, since the contents run through all combinations.
- *Runtime locks*: with two threads every race that two tests outside a lock allow is there, a third
  thread would only repeat one. `MaxLocks` 2 gives two objects, two sections or one of each;
  `MaxNesting` 2 makes a thread enter one lock again or take both; `Monitors` 2 is one block more
  than a single object needs while two threads create its monitor. `MaxStops` 1 lets a program be
  shut down and started once more. Runtimes whose code is the same are checked once
  (`DifferentRuntimes`). After an undefined use of a mutex nothing is said, so such a behaviour ends.
- *Exceptions*: `MaxDepth` 3 gives a frame that throws, one in between and one that catches. The
  functions have a catch block inside a finally inside two catch blocks, and a synchronized one.
  `SectionsNest` is the assumption on the compiler, that sections lie inside each other with the outer one
  first; TLC evaluates it for these. Instructions are of one byte, so that sections may begin right
  behind a call and end right before one, at whose return address the search must look on the right side.
- *Queue*: with `HeaderSize` 2 a push is cut off inside the file, across its end and behind it, the last record
  may end less than a header before the end (`Space` 6), and `Limit` 6 lets two records stand on each other, or
  three where they are short. A short record in the place of a long one leaves the long one's content behind
  itself for the sweep to meet; in queue_crash a record of two cells ends in one that
  passes the checksum with a zero cell behind it (`EqualHalves`), in queue_replies nothing does. A header is
  written wholly or not at all: it is one write of 16 bytes.

Deadlock is checked where the system cannot stop (mutex, barrier, pipe). The pool stops when it is
closed or out of jobs. In the runs about Condition, callers may stop calling; there the
liveness properties say what must not stop. The runtime's locks stop at an undefined use, and two
threads that take two locks in opposite orders block each other; an exception that nobody catches
is the end. A queue whose file cannot be opened stays shut.

## 4 Fairness

- Mutex, barrier, pool and pipe have *weak fairness* on the steps of a thread that is not
  blocked. The mutex is never held across two actions, so the model needs no variable for
  it, and such a thread always has a step to take; weak fairness says that the system does
  not deny it the mutex for ever, which is what each of these classes relies on.
- Condition on Win32 has *strong fairness* on a thread's steps: the gate, the mutex and the
  critical section are taken and released by others over and over, and what is needed is
  that the system serves those who wait in turn. Weak fairness on time-outs: periods elapse.
- The runtime's locks, exceptions and the cluster queue are checked for safety only.
- No fairness on calls, on exceptions or on spurious wakeups: nobody has to call, nothing
  has to fail. Callers that hold the reader/writer mutex release it (weak fairness of
  unlock), and jobs end.

## 5 Proofs

All are checked by tlapm for every value of the constants, under the named assumptions of
the modules: finite sets of threads where counts are involved, positive sizes.

**ReadWriteMutexProofs.** The guards look at counters, the promise is about threads.
`IInv == TypeOK /\ CountersAgree /\ MutualExclusion` ties the two together: exclusion alone
is not inductive, since a wrong counter would admit a writer, and the counters are right only
because every step moves one thread from one place to another (lemma `MoveCounts`).
From it: `TypeCorrect`, `Exclusion`, `Counting`; on top of it the wakeups,
`NoReaderForgotten` (for instances in which no wait throws under PREFER_WRITERS, see section 6) and
`NoWriterForgotten`; and `Refinement`, `Spec => ImplementsRWLock`.

**BarrierProofs.** `IInv == TypeOK /\ CountAgrees /\ NobodyLeftAsleep`. The countdown is right
only if nobody of a passed group is counted with the open one, and `NotLapped` is what
makes a completed group empty `Gathering`. From it `TypeCorrect` (the unsigned `m_count` never
reaches zero between calls), `Counting`, `NoWakeupLost`, and `Refinement`,
`Spec => ImplementsGroupBarrier`.

**ThreadPipeProofs.** `IInv == TypeOK /\ SleepersHaveToWait /\ RequestsMade` (a thread in a
call asked for at least one byte). The body of the work is arithmetic: lemmas `ModOnce` and
`ModWalk` on going round the buffer once, the `Ring...` lemmas on the sequence of bytes that
starts at an index, and from them that the two-part copy of `read` returns the first bytes
(`ReadData`) and that of `write` appends (`Written...`, `RingAppend`). From it `TypeCorrect`,
`NoWakeupLost`, and `Refinement`, `Spec => ImplementsBytePipe`, for every buffer size.

**ConditionWin32Proofs**, under `PeriodsAlone`: who waits with a period does so alone, or nobody does (where
such waits overlap with others the algorithm is not correct, section 6). `IInv` says who is responsible:
`Accounted` (the counters are the number of waiters, and while notifications are due those who have gone
are not counted), `OneCarries` (while notifications are due, exactly one wakeup is on its way: with the
notifier about to send the first, a waiter that got it, or one about to send the next), `OneOpens` (at
most one thread will open the gate by itself, and none while notifications are due) and `CloserAlone`
(who is about to close the gate holds `m_unblockLock`). A wait that times out while it is notified is the
hard case: it takes the notification without its wakeup, which may be sent before or after. `OnlyTimed`
says what it then knows (`numWaitersGone` is 1 exactly while that wakeup has to be cleared), `OneCarries`
where the wakeup is (in the queue, or with its notifier), and `Alone` that no other waiter takes it. None of
these is inductive without the others: where a wakeup goes (lemma `Hands`) needs the count, the one
carrier and `Alone` together. The path behind `int.max / 2` is part of it: there `assertFailed`, and from
then on `Accounted` is only a bound. From it `TypeCorrect`, `EveryWaiterCounted`, `GateIsKept`, and, where
there are at most `GoneLimit + 1` waiters (`FewWaiters`; the limit is `int.max / 2`, and with more a
notifyAll behind the failed assertion would reach only some of them), `Refinement`, `Spec => CV!Spec`: to
time out with no notification due is `Expire`, with one due `Return`. Only who waits with a period may
`Expire`: a wakeup left in the queue that lets another waiter return is no step of the promise. Both hypotheses hold in the run
condition_all.

**ThreadPoolProofs.** `TypeCorrect` without assumption; the bound of `active_jobs` needs the count of
workers that run. `WorkIsSeen` (`Workers # {}`): if work is there and workers sleep, one is on its
way to look, or a notify is still to come. Under `OneAssigns` (one client calls assign; two lose a
job, section 6) the slot belongs to its assigner: `AssignedIsTaken`; with `OneCloses` also
`FinishCompletes`; and `Refinement`, `Spec => ImplementsJobPool`, where a job is in one place at a
time.

**ExceptionsProofs**, for any classes, functions and depth of calls, on both systems, under what the
compiler owes: `SectionsNest` and `FunctionsApart`. Both walks go from a section to the one
around it, in this frame and then in its caller's (lemmas `EnterFrame`, `WalkOut`). `Hunt` says what
the first walk has done at any point: no section that it has left behind catches, and on Linux their
finally blocks have run, inner ones first; `Unwound` says the same of the second walk of Win32.
`IndexKept` ties `table_index` to the section a frame is in, through calls, catch blocks and unwinding;
lemma `Lookup` shows that deh2.d's comparisons (behind `offset`, up to `endoffset`) lead from a return
address to the innermost section of the call before it, at the borders too. Together they are
inductive; the promise alone is not, for it speaks of the end of the walk only. From it
`TypeCorrect`, `TableIndexRight`, `InnermostBlock`, `FinallyBlocks` and `CaughtObject`.

**PersistQueueProofs**, for any records, any size of a header, any content that passes for one (`Lookalikes`),
any limit of the file, any number of clients and of crashes. The
model has the file as it is, cell by cell, and the sweep of a start as a walk over it; the promise is a stack
of records. `IInv == Types /\ Alone /\ FileInv` joins the two by a *trail*: positions
`p[1], p[2], ...`, each behind the content of the record before, and the headers `h` that stand
there (`Trail`). `FileInv` says that there is one, and which, in each of four states: no
program (`ShutState`), no call (`FreeState`), and between the two steps of a push
(`PushState`) or a pop (`PopState`). Part of it is
where the trail ends: behind the last record is no header, for push writes no end mark but no old
header is left there either (`Stops`, `Ends`); what else is there stops the sweep, fails it, or
passes for a header, which is the third way in `FileUsable`. A start where content passes for a
header counts as failed: what a program does that takes it for a record is not followed. The sweep is a recursive
function; that it exists, and what it finds on a trail (`SweepIs`), is proved by induction on the distance to
the end of the file. The library's induction theorems take a predicate, which the provers cannot
instantiate; lemma `UpTo` says the same of a set of numbers, from its least element that is missing (`Least`).
What the pops will find, going down from the last header, is proved in the same way (`HeldIs`). Overwriting a cell
keeps the part of the trail before it. From it `AlwaysUsable` and
`QueueIsRecordStack`, `Spec => ImplementsRecordStack`. The invariant quantifies over functions on Nat, so
that TLC cannot evaluate it; its consequences are what the run checks.

**RuntimeLocksProofs**, for any threads, objects, sections and blocks of memory, for each of the twelve copies
of monitor.c and each of the seven of critical.c in a program. First the copies are read: which step stands
where in which function (`CopiesAre`, the `...Steps`), where a thread may be when it takes a named step, and
where it goes from there. The invariant `MonitorInv` then speaks of places only: who is between which steps
holds `critsec`, has a block in its hand and what the block is, knows that its object has no monitor yet, or
the one it has just set, or one that it is taking apart. `Quiet` says that nobody is inside while `critsec` is
made or destroyed, `AttrReady` that the attribute object has its type before any mutex is made of it, and
`LocksKept` that owner and depth of a mutex are what its object's holder has done. Losing the race for a new
monitor is one of the cases: the loser's block stays in its hand until it is freed. From it
`SpecBlocksAccounted`.

The copies of critical.c are read in the same way (`SectionCopiesAre`); those that make the list on the way
have the common part of `_d_criticalenter` further down, so that places in it are counted from where all
are alike (`Prelude`, `AtEnter`). `SectionInv` is `SectionCalls`, `SectionTypes`, `SectionControl` and
`SectionData`. *Control*: between which steps a thread holds `critical_section` (`GlobalHeld`), that
nobody else is in a section or on the way to one while the list is made or taken apart
(`SectionsQuiet`), where there is no list yet (`Beginning`), and the type of the attribute object when a
mutex is made of it (`SectionAttr`). *Data*: what the list leads to has a `next` (`Chained`); who is
between the test of `next` and the end of the call knows what it is (`NextKnown`); a section with a `next` has
had its mutex made, or a thread inside `critical_section` is about to (`MutexKnown`); holder and count of a mutex
are what the threads inside have done (`InsideKept`). Neither half does without the other: that a mutex is
not made again under the thread that holds it follows from who may be at that step, and that only
one thread is there from the holder of `critical_section`. From both invariants `SpecHolderMayReenter`,
`SpecFlawsKnown` and, with `OneCall` (a thread is in a call of one file only),
`SpecInternalLocksBrief`. `SpecImplementsRecursiveLocks`: locking a mutex is Enter, unlocking it Leave,
of `inUse`; every other step of either file is a stutter.

The list of critical.c comes last. `ListWhole` counts the sections that a recursive function reaches from
the head; it cannot be inductive, for it does not say in which order they are linked. `ListInv` says that there
is a chain, a function from numbers to sections without a repetition that starts at `critical_section` and ends
at the head (`Chain`), and which sections are on it: before the first shutdown all that have a `next`, but
for the one between the two writes that put it at the head (`FirstChain`, `LinkedToHead`), and in the walk
of `_STD_critical_term` all that still have a mutex (`Walk`, `HeadDone`); when the list is empty no mutex is
left (`NoneLeft`). Each step of each copy does one of six things to list and mutexes (`ListStep`, by
lemma `IsListStep` from `SectionInv`): nothing, begin the list, link a section, make it the head, destroy the head's mutex
or take the head off; `ListInv` is shown for these (`ListStepKeeps`), not for the copies. At last
the recursive function is computed on a chain (`LedOn`, `InListIsThrough`, by `UpTo` as above); it has
come to the end after as many steps as there are sections, because a chain does not repeat one
(`ChainEnds`). Hence `SpecListWhole`, for finitely many sections: `ListWhole` itself takes their number. As
with the queue, the invariant quantifies over functions on Nat, so that TLC cannot evaluate it as it
stands; the run checks `ListWhole`.

**Only model-checked.** Every liveness property, `GateOpens`, `TimedWaitReturns`, `ReaderNotStarved`,
`WritersNotStarved`, `AssignReturns`, `CloseReturns`: liveness under fairness and ENABLED are beyond this
proof system, which also holds for the fairness in `ImplementsFairRWLock`, `ImplementsEveryoneLeaves`,
`CV!Prompt` in `ImplementsConditionVariable`, `ImplementsDiligent` and `ImplementsServe`; the safety part of each of
these refinements is a theorem, as is every invariant that a passing run checks, under the hypotheses named
above.

## 6 What the work showed

Four runs end in a counterexample, each against a sentence of the source.

- **condition_race** (`Condition.d:254`; lines 134-135 promise that `wait(period)` returns). Two
  threads wait; `notify` closes the gate for one of them; the other one times out first.
  It takes itself off `m_numWaitersBlocked` and clears `numSignalsLeft` (251-256), and line 263 takes
  the notification off too. If that was the last one, neither 268 nor 302 opens
  the gate, and the next `wait` blocks at 228 for ever, with the caller's mutex in its hands.
- **pool_two_assigners** (`ThreadPool.d:103`; lines 95-96: "Assign the given job to a thread
  immediately or block until one is available"). A second `assign` overwrites the slot, the first
  job is lost, and its caller returns as if it had been taken.
- **pool_finish_stuck** (`ThreadPool.d:246`; line 162: "Complete all pending jobs and shutdown").
  Workers notify one of those who wait for `workerActivity`, where assigners and finishers
  both wait; when the last job's notify wakes the assigner, finish sleeps on.
- **queue_replies** (`ClusterQueue.d:166`; `NetworkQueue.d:75`: "Returns, and removes, a matching entry"). The reply is
  copied from QueueFile's only buffer after the lock is gone. When two clients get from one channel, the
  second pop overwrites what the first has yet to copy: one record is delivered twice, the other not at all.

Seen while modelling, and part of the models, without a run of their own:

- `critical.c:39` and 125, in all three compilers (line 123: "if, in the meantime, another thread didn't
  set it"): `dcs->next` is set before the section's mutex is initialised, and
  is what other threads test without the global lock. A second thread in that window locks raw
  memory, or a mutex that is initialised again while it holds it. `monitor.c` sets `h->monitor`
  last and has no such window. `FlawsKnown` allows it to the copies of critical.c and to the proposal,
  and to nothing else.
- `critical.c:66` (lines 95-97: "keep a linked list of the ones we do use, and in the static destructor code,
  walk the list and release them"): the walk at the end destroys each section's mutex and leaves its
  `dcs->next` set. After `rt_term` and `rt_init` the section passes for one in use, and the
  destroyed mutex is locked. `FlawsKnown` has this as a case of its own; the behaviour ends there.
- `ThreadPool.d:166` (line 162: "Complete all pending jobs and shutdown"): `finish` looks at the stack and at the
  jobs that run, not at the slot of `assign`: with a job in it that no worker has taken yet it closes
  the pool, the job is never run, and its assigner waits for ever. `FinishRunsAll` is therefore
  checked and proved where nobody else assigns while a client finishes (`OneCloses`).
- `QueueFile.d:117` (line 107: "sweep the file and truncate on inconsistencies"): a header is known by a
  16-bit fold of its words, and a word of two equal halves with zeros behind it passes. Push
  12 bytes that end in "aaaa" to a fresh file, pop them, push 8, stop and start again: the sweep takes "aaaa" for a
  size beyond the file, and the constructor throws, on this and every later start, without any crash.
- `QueueFile.d:111`: the sweep reads a whole header wherever it is not yet at the end of
  the file. Where the last record ends less than 16 bytes before the end, as a shorter one may that follows
  a pop in a file which had grown, the read throws, on every start.
- `ReadWriteMutex.d:287`: under PREFER_WRITERS the last queued writer may give up (its wait throws)
  while readers hold the lock; nobody alerts the readers queued because of it. They are
  alerted by the next writer. `ReadersAlerted` is checked with throwing waits under PREFER_READERS
  only, and proved for that case.
- `Condition.d:287` asserts that `ReleaseSemaphore` returned `WAIT_OBJECT_0`, which is 0, the
  value of failure. Builds with assertions throw there; the model follows such a build, and
  `WaitersAccounted` speaks of the time before the assertion has failed.
- `ThreadPool.d:116`: `tryAssign` reads `active_jobs` without the mutex, and workers count
  themselves late: it may find a worker that is not free, and block.
- `patches/proposals/integrated_locks/lib/compiler/dmd/monitor.c:83` and 187 (gdc alike): the proposal sets `h->monitor` before
  it initialises the mutex, and so brings the window of `critical.c` to `monitor.c`.
- `QueueFile.d:124`: where the file ends before the content of a push that was cut off, the sweep does not
  truncate but throws, and so does every later start. `FileUsable` says that this and the two cases before
  are the only ways to a file that does not open; all three happen in queue_crash.
- `QueueFile.d:221`: a push that was cut off after its header leaves a record with the content of an
  older one, which the next program serves; RecordStack allows that.
- `QueueFile.d:222`: a write that fails (a full disk) leaves the file position behind the header while
  `insert` stays; the next push then writes at the wrong place. Failed writes are not in the model.
- `ClusterQueue.d:154`: `size` is read outside the lock of push, so two puts on an empty queue may both find
  2 and announce nothing until the watchdog comes round.
- `gdc/monitor.c:163`: with PTHREAD_MUTEX_ALREADY_RECURSIVE the destructor leaves `_monitor_critsec` as it is,
  and the next constructor initialises it again.

The hazards in `PROJECT.json` list these and the others, each with the properties that watch it. In the modelled components
three have none: the restart of `critical.c:66` and the slot of `ThreadPool.d:166`, for what is said above, and
that the group number of a Barrier comes round while a thread of that number is still inside
(`Barrier.d:89`), which the guard `NotLapped` assumes away. Those of Signal and Thread wait for their models.

## 7 Not modelled

Inside the modelled components: conversion of periods to system units, error returns of system
calls other than where named, destruction of the objects, daemon threads killed at the end of the program,
`pendingJobs` and `activeJobs` (they change nothing), seeking and copying between conduits.
Memory order: the models are sequentially consistent; the pool's flags are atomic in the code, the
double checks of `monitor.c` and `critical.c` are not. In the runtime: dispose events of monitors
(`devt`, `_d_notify_release`), a user's own lock in place of a monitor, failure of `calloc`, a first
section entered by two threads of a program without D main. In exception handling: finally blocks
that throw, catch blocks of an interface, the filter around D main, messages and traces, 32-bit arithmetic of addresses.
In the cluster queue: announcements and the watchdog, `isDirty` and `flush`, writes that fail or are cut
off inside a header, file locks, padding; what a program does with older content that it took for a record
because its size, too, fits; a read buffer that moves for a record of more than 8 KB; MemoryQueue is
commented out in the source. The second half of `dmd/deh.c` and `gdc/deh.c` are in no build: gdc and ldc unwind with
their compilers' runtime. `gdc/config/*.c` are programs that print
constants when the runtime is built.

Outside: see the table in section 1 and the notes in `PROJECT.json`. Sequential code on strings,
numbers or raw memory has no small instance that would show what a unit test does not; system
calls have their state in the kernel.

## 8 Plan

In this order, the most important first.

1. **Announcements** of PersistQueue: put, get and the watchdog against "a queue that is not empty is
   announced in the end"; writes that fail in QueueFile.
2. **Signal**: slots that attach, detach, call again or throw, against "each attached slot once
   per call"; then two threads under the statement-wide locks.
3. **Thread**: the list of threads, `getAll`, `thread_joinAll`, and the nesting of suspend and
   resume with threads that start and end; ThreadGroup on top.
4. **Fiber**: a small state machine.
5. **Cluster cache, QueuedCache, CacheMap**: eviction and invalidation against reference
   collections.
6. As far as they repay it: selectors, the tree of loggers, buffers.

Compositions: ThreadPool and Barrier over ConditionVariable in the place
of their wait sets.

Proofs: no safety property of a passing run is left without a theorem; what new components promise
has to follow.
