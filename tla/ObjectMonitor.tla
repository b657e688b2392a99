---------------------------- MODULE ObjectMonitor ----------------------------
(***************************************************************************)
(* The lock of an object.  An object has a monitor only once somebody has  *)
(* locked it: the first thread to do so creates one, and the object keeps  *)
(* it until it is deleted.                                                 *)
(*                                                                         *)
(* The program is linked with one of the copies of monitor.c.  A thread is *)
(* in no call, or at a step of one of the functions of that copy; an       *)
(* action is one step.  Of the D side, which calls these functions, there  *)
(* is which one it calls: object_.d tests the monitor and calls create and *)
(* lock, the copies of the proposal are called as they are.                *)
(*                                                                         *)
(* To use a mutex that was not initialised is undefined: nothing is said   *)
(* of what comes after it.  Objects with a lock of the user's own in place *)
(* of the monitor do not come here.                                        *)
(***************************************************************************)
EXTENDS MonitorBuilds, Sequences, FiniteSets

CONSTANTS
    Threads,
    Main,           \* the thread that runs the C function main
    Objects,
    Monitors,       \* blocks of the heap that a monitor can be
    Builds,         \* names of copies of monitor.c
    null

Parameters ==
    /\ Main \in Threads
    /\ null \notin Threads \cup Objects \cup Monitors
    /\ Builds \subseteq DOMAIN MonitorCode

VARIABLES
    build,          \* the copy that the program is linked with
    fn,             \* the function that a thread is in, or "none"
    at,             \* the step it is at
    obj,            \* its argument h
    cs,             \* its local variable
    inited, attr, critsec, critsecOwner,
    monitor,        \* h->monitor
    heap,           \* what each block is: free, or a mutex in some state
    owner, depth,   \* of the mutexes
    holds,          \* how often each thread has locked each object
    undefined       \* has a mutex been used that is not one?

calls    == <<build, fn, at, obj>>
globals  == <<inited, attr, critsec, critsecOwner>>
memory   == <<monitor, heap>>
locks    == <<owner, depth, holds>>
vars     == <<calls, cs, globals, memory, locks, undefined>>

Init ==
    /\ build \in Builds
    /\ fn = [t \in Threads |-> "none"]
    /\ at = [t \in Threads |-> 1]
    /\ obj = [t \in Threads |-> null]
    /\ cs = [t \in Threads |-> null]
    /\ inited = FALSE
    /\ attr = "none"
    /\ critsec = "raw"
    /\ critsecOwner = null
    /\ monitor = [o \in Objects |-> null]
    /\ heap = [m \in Monitors |-> "free"]
    /\ owner = [m \in Monitors |-> null]
    /\ depth = [m \in Monitors |-> 0]
    /\ holds = [t \in Threads |-> [o \in Objects |-> 0]]
    /\ undefined = FALSE

-----------------------------------------------------------------------------
(* Calls                                                                   *)

Deleting == {"destroy", "release"}

Idle(t)      == fn[t] = "none"
Calls(t, f, o) ==
    /\ ~undefined
    /\ Idle(t)
    /\ fn' = [fn EXCEPT ![t] = f]
    /\ obj' = [obj EXCEPT ![t] = o]
    /\ UNCHANGED <<build, at, cs, globals, memory, locks, undefined>>

\* Nobody uses an object that is being deleted.
Usable(o) == \A t \in Threads : obj[t] = o => fn[t] \notin Deleting

\* Objects are locked between the constructor and the destructor of the runtime.
Running == inited /\ fn[Main] # "staticdtor"

Is(f) == f \in DOMAIN MonitorCode[build]

\* _d_monitorenter
Enter(t, o) ==
    /\ Running /\ Usable(o)
    /\ Calls(t, IF Is("enter") THEN "enter" ELSE IF monitor[o] = null THEN "create" ELSE "lock",
             o)

\* _d_monitorexit
Exit(t, o) ==
    /\ holds[t][o] > 0
    /\ Calls(t, IF Is("exit") THEN "exit" ELSE "unlock", o)

\* _d_monitorget, which only the proposal has.
Get(t, o) == Is("get") /\ Running /\ Usable(o) /\ Calls(t, "get", o)

\* The object is deleted, by the collector or by its owner: nobody holds it or
\* is about to.
Delete(t, o) ==
    /\ Running
    /\ monitor[o] # null
    /\ \A u \in Threads : obj[u] # o /\ holds[u][o] = 0
    /\ Calls(t, IF Is("release") THEN "release" ELSE "destroy", o)

\* main and rt_init begin with the constructor; both may run.
Start(t) == t = Main /\ Calls(t, "staticctor", null)

\* The end of main: the other threads have been joined.
Stop(t) ==
    /\ t = Main /\ inited
    /\ \A u \in Threads : Idle(u) /\ \A o \in Objects : holds[u][o] = 0
    /\ Calls(t, "staticdtor", null)

-----------------------------------------------------------------------------
(* Steps                                                                   *)

Body(t) == MonitorCode[build][fn[t]]
Step(t) == Body(t)[at[t]]

AtStep(t, what) == ~Idle(t) /\ Step(t).do = what

\* On to another step, or the function returns; _d_monitorenter goes on from
\* create to lock.
Goes(t, to) ==
    /\ at' = [at EXCEPT ![t] = IF to <= Len(Body(t)) THEN to ELSE 1]
    /\ IF to <= Len(Body(t))
       THEN UNCHANGED <<fn, obj>>
       ELSE /\ fn' = [fn EXCEPT ![t] = IF @ = "create" THEN "lock" ELSE "none"]
            /\ obj' = [obj EXCEPT ![t] = IF fn[t] = "create" THEN @ ELSE null]
    /\ UNCHANGED build

\* A statement: on to the next one.
Does(t, what) == ~undefined /\ AtStep(t, what) /\ Goes(t, at[t] + 1)

\* A test: on to the next step, or past the block.
Tests(t, what, holdsNow) ==
    /\ ~undefined /\ AtStep(t, what)
    /\ Goes(t, at[t] + 1 + IF holdsNow THEN 0 ELSE Step(t).skip)
    /\ UNCHANGED <<cs, globals, memory, locks, undefined>>

Test(t) ==
    \/ Tests(t, "inited", inited)
    \/ Tests(t, "not inited", ~inited)
    \/ Tests(t, "no monitor", monitor[obj[t]] = null)
    \/ Tests(t, "monitor", monitor[obj[t]] # null)
    \/ Tests(t, "cs", cs[t] # null)

InitAttr(t) ==
    /\ Does(t, "init attr")
    /\ attr' = "default"
    /\ UNCHANGED <<cs, inited, critsec, critsecOwner, memory, locks, undefined>>

SetAttrType(t) ==
    /\ Does(t, "set type of attr")
    /\ attr' = "recursive"
    /\ UNCHANGED <<cs, inited, critsec, critsecOwner, memory, locks, undefined>>

DeleteAttr(t) ==
    /\ Does(t, "delete attr")
    /\ attr' = "none"
    /\ UNCHANGED <<cs, inited, critsec, critsecOwner, memory, locks, undefined>>

InitCritsec(t) ==
    /\ Does(t, "init critsec")
    /\ critsec' = "ready"
    /\ critsecOwner' = null
    /\ UNCHANGED <<cs, inited, attr, memory, locks, undefined>>

DeleteCritsec(t) ==
    /\ Does(t, "delete critsec")
    /\ critsec' = "deleted"
    /\ UNCHANGED <<cs, inited, attr, critsecOwner, memory, locks, undefined>>

SetInited(t) ==
    /\ Does(t, "set inited") /\ inited' = TRUE
    /\ UNCHANGED <<cs, attr, critsec, critsecOwner, memory, locks, undefined>>

ClearInited(t) ==
    /\ Does(t, "clear inited") /\ inited' = FALSE
    /\ UNCHANGED <<cs, attr, critsec, critsecOwner, memory, locks, undefined>>

\* critsec is not recursive.
LockCritsec(t) ==
    /\ Does(t, "lock critsec")
    /\ critsec = "ready" /\ critsecOwner = null
    /\ critsecOwner' = t
    /\ UNCHANGED <<cs, inited, attr, critsec, memory, locks, undefined>>

UnlockCritsec(t) ==
    /\ Does(t, "unlock critsec")
    /\ critsecOwner' = null
    /\ UNCHANGED <<cs, inited, attr, critsec, memory, locks, undefined>>

Calloc(t) ==
    /\ Does(t, "calloc")
    /\ \E m \in Monitors :
          /\ heap[m] = "free"
          /\ heap' = [heap EXCEPT ![m] = "raw"]
          /\ cs' = [cs EXCEPT ![t] = m]
    /\ UNCHANGED <<globals, monitor, locks, undefined>>

\* The mutex of cs gets the type that the attribute object names, or is one of a
\* kind that is always recursive.
InitMutex(t) ==
    /\ \/ /\ Does(t, "init mutex")
          /\ heap' = [heap EXCEPT ![cs[t]] = "recursive"]
       \/ /\ Does(t, "init mutex of attr")
          /\ heap' = [heap EXCEPT ![cs[t]] = IF attr = "recursive" THEN "recursive" ELSE "plain"]
    /\ UNCHANGED <<cs, globals, monitor, locks, undefined>>

SetMonitor(t) ==
    /\ Does(t, "set monitor")
    /\ monitor' = [monitor EXCEPT ![obj[t]] = cs[t]]
    /\ UNCHANGED <<cs, globals, heap, locks, undefined>>

ForgetCs(t) ==
    /\ Does(t, "forget cs")
    /\ cs' = [cs EXCEPT ![t] = null]
    /\ UNCHANGED <<globals, memory, locks, undefined>>

FreeCs(t) ==
    /\ Does(t, "free cs")
    /\ heap' = [heap EXCEPT ![cs[t]] = "free"]
    /\ cs' = [cs EXCEPT ![t] = null]
    /\ UNCHANGED <<globals, monitor, locks, undefined>>

DeleteMutex(t) ==
    /\ Does(t, "delete mutex")
    /\ heap' = [heap EXCEPT ![monitor[obj[t]]] = "deleted"]
    /\ UNCHANGED <<cs, globals, monitor, locks, undefined>>

FreeMonitor(t) ==
    /\ Does(t, "free monitor")
    /\ heap' = [heap EXCEPT ![monitor[obj[t]]] = "free"]
    /\ UNCHANGED <<cs, globals, monitor, locks, undefined>>

ClearMonitor(t) ==
    /\ Does(t, "clear monitor")
    /\ monitor' = [monitor EXCEPT ![obj[t]] = null]
    /\ UNCHANGED <<cs, globals, heap, locks, undefined>>

IsMutex(m) == heap[m] \in {"plain", "recursive"}

LockMutex(t) ==
    LET m == monitor[obj[t]] IN
    /\ Does(t, "lock mutex")
    /\ IsMutex(m)
    /\ owner[m] = null \/ (owner[m] = t /\ heap[m] = "recursive")
    /\ owner' = [owner EXCEPT ![m] = t]
    /\ depth' = [depth EXCEPT ![m] = @ + 1]
    /\ holds' = [holds EXCEPT ![t][obj[t]] = @ + 1]
    /\ UNCHANGED <<cs, globals, memory, undefined>>

\* The monitor is there, its mutex is not yet.
LockRawMutex(t) ==
    /\ Does(t, "lock mutex")
    /\ ~IsMutex(monitor[obj[t]])
    /\ undefined' = TRUE
    /\ UNCHANGED <<cs, globals, memory, locks>>

UnlockMutex(t) ==
    LET m == monitor[obj[t]] IN
    /\ Does(t, "unlock mutex")
    /\ owner' = [owner EXCEPT ![m] = IF depth[m] = 1 THEN null ELSE @]
    /\ depth' = [depth EXCEPT ![m] = @ - 1]
    /\ holds' = [holds EXCEPT ![t][obj[t]] = @ - 1]
    /\ UNCHANGED <<cs, globals, memory, undefined>>

-----------------------------------------------------------------------------
CallStep(t) ==
    \/ Test(t)
    \/ InitAttr(t) \/ SetAttrType(t) \/ DeleteAttr(t) \/ InitCritsec(t) \/ DeleteCritsec(t)
    \/ SetInited(t) \/ ClearInited(t) \/ LockCritsec(t) \/ UnlockCritsec(t)
    \/ Calloc(t) \/ InitMutex(t) \/ SetMonitor(t) \/ ForgetCs(t) \/ FreeCs(t)
    \/ DeleteMutex(t) \/ FreeMonitor(t) \/ ClearMonitor(t)
    \/ LockMutex(t) \/ LockRawMutex(t) \/ UnlockMutex(t)

Call(t) ==
    \/ Start(t) \/ Stop(t)
    \/ \E o \in Objects : Enter(t, o) \/ Exit(t, o) \/ Get(t, o) \/ Delete(t, o)

Next == \E t \in Threads : CallStep(t) \/ Call(t)

Spec == Init /\ [][Next]_vars

-----------------------------------------------------------------------------
(* Properties                                                              *)

TypeOK ==
    /\ build \in Builds
    /\ \A t \in Threads : ~Idle(t) => Is(fn[t]) /\ at[t] \in 1 .. Len(Body(t))
    /\ obj \in [Threads -> Objects \cup {null}]
    /\ cs \in [Threads -> Monitors \cup {null}]
    /\ {inited, undefined} \subseteq BOOLEAN
    /\ attr \in {"none", "default", "recursive"}
    /\ critsec \in {"raw", "ready", "deleted"}
    /\ critsecOwner \in Threads \cup {null}
    /\ monitor \in [Objects -> Monitors \cup {null}]
    /\ heap \in [Monitors -> {"free", "raw", "plain", "recursive", "deleted"}]
    /\ owner \in [Monitors -> Threads \cup {null}]
    /\ depth \in [Monitors -> Nat]
    /\ holds \in [Threads -> [Objects -> Nat]]

\* synchronized (o) keeps everybody else out of synchronized (o), whoever
\* created the monitor and however often its holder has entered.
Sync == INSTANCE RecursiveLocks WITH Things <- Objects
ImplementsRecursiveLocks == Sync!Spec

\* Who holds an object may lock it again: its mutex is a recursive one, the
\* attribute object being there whenever a mutex is made of it.
HolderMayReenter ==
    \A t \in Threads, o \in Objects : holds[t][o] > 0 => heap[monitor[o]] = "recursive"

\* The copies that the runtimes are built of never lock a monitor whose mutex is
\* not ready, though an object's monitor is tested without critsec.
NeverLocksRaw == build \in DOMAIN ShippedCopies => ~undefined

\* Every block allocated is the monitor of an object or in the hand of the thread
\* that allocated it: what two threads create at once for one object is neither
\* lost nor shared.
Held(m) == {o \in Objects : monitor[o] = m} \cup {t \in Threads : cs[t] = m}
BlocksAccounted ==
    \A m \in Monitors :
        /\ heap[m] # "free" => Held(m) # {}
        /\ heap[m] = "free" => \A x \in Held(m) : \E t \in Threads : AtStep(t, "clear monitor") /\ obj[t] = x
        /\ \A o, p \in Objects : monitor[o] = m /\ monitor[p] = m /\ o # p =>
              \E t \in Threads : obj[t] \in {o, p} /\ AtStep(t, "clear monitor")
=============================================================================
