---------------------------- MODULE RuntimeLocks ----------------------------
(***************************************************************************)
(* The locks of the D runtime put together: threads that use synchronized  *)
(* methods (ObjectMonitor) and synchronized statements (CriticalSections), *)
(* nested as they like, in a program that main starts and stops in the     *)
(* order of dmain2.d.                                                      *)
(***************************************************************************)
EXTENDS Integers, Sequences, FiniteSets

CONSTANTS
    Threads, Main, Objects, Monitors, Sections, global, null,
    Programs,           \* names of a copy of monitor.c and one of critical.c
    MaxLocks,           \* bound of the model: how many locks a program has
    MaxNesting,         \* bound of the model: how deep a thread nests their use
    MaxStops

VARIABLES
    build, fn, at, obj, cs, inited, attr, critsec, critsecOwner, monitor, heap,
    owner, depth, holds, undefined,
    copy, call, pc, dcs, initedC, attrC, list, atexit, next, mutex, holder, count,
    inside, dmain, stops, flaw,
    uses                \* the objects and sections of the program

OM == INSTANCE ObjectMonitor WITH Builds <- {p[1] : p \in Programs}
CS == INSTANCE CriticalSections WITH Copies <- {p[2] : p \in Programs}

ASSUME MonitorParameters == OM!Parameters
ASSUME SectionParameters == CS!Parameters
ASSUME LocksDiffer       == Objects \cap Sections = {}
ASSUME Bounds            == MaxLocks \in Nat /\ MaxNesting \in Nat

monitorVars == <<build, fn, at, obj, cs, inited, attr, critsec, critsecOwner, monitor, heap,
                 owner, depth, holds, undefined>>
sectionVars == <<copy, call, pc, dcs, initedC, attrC, list, atexit, next, mutex, holder,
                 count, inside, dmain, stops, flaw>>
vars == <<monitorVars, sectionVars, uses>>

Init ==
    /\ OM!Init /\ CS!Init
    /\ <<build, copy>> \in Programs
    /\ uses \in {u \in SUBSET (Objects \cup Sections) : Cardinality(u) = MaxLocks}

-----------------------------------------------------------------------------
\* A thread is in one call at a time.
Idle(t) == OM!Idle(t) /\ CS!Idle(t)
AllIdle == \A t \in Threads : Idle(t)

\* Nothing is said of what comes after an undefined use of a mutex.
Broken == undefined \/ flaw # "none"

MonitorStep(t) == ~Broken /\ OM!CallStep(t) /\ UNCHANGED <<sectionVars, uses>>
SectionStep(t) == ~Broken /\ CS!CallStep(t) /\ UNCHANGED <<monitorVars, uses>>

\* How often each thread has locked what.
inUse == [t \in Threads |-> [x \in Objects \cup Sections |->
             IF x \in Objects THEN holds[t][x] ELSE inside[t][x]]]

Nesting(t) == Cardinality({p \in uses \X (1 .. MaxNesting) : p[2] <= inUse[t][p[1]]})

UseObject(t) ==
    /\ ~Broken /\ Idle(t)
    /\ \E o \in Objects \cap uses :
          \/ Nesting(t) < MaxNesting /\ OM!Enter(t, o)
          \/ OM!Exit(t, o) \/ OM!Get(t, o) \/ OM!Delete(t, o)
    /\ UNCHANGED <<sectionVars, uses>>

UseSection(t) ==
    /\ ~Broken /\ Idle(t)
    /\ \E s \in Sections \cap uses :
          \/ Nesting(t) < MaxNesting /\ CS!EnterSection(t, s)
          \/ CS!ExitSection(t, s)
    /\ UNCHANGED <<monitorVars, uses>>

\* main: _STI_monitor_staticctor, _STI_critical_init, ...
Start(t) ==
    /\ ~Broken /\ AllIdle
    /\ \/ OM!Start(t) /\ UNCHANGED sectionVars
       \/ inited /\ CS!Start(t) /\ UNCHANGED monitorVars
    /\ UNCHANGED uses

\* ... _STD_critical_term, _STD_monitor_staticdtor.
Stop(t) ==
    /\ ~Broken /\ AllIdle
    /\ \A u \in Threads, o \in Objects : holds[u][o] = 0
    /\ \/ CS!Stop(t) /\ UNCHANGED monitorVars
       \/ stops > 0 /\ list = null /\ OM!Stop(t) /\ UNCHANGED sectionVars
    /\ UNCHANGED uses

Next == \E t \in Threads :
    MonitorStep(t) \/ SectionStep(t) \/ UseObject(t) \/ UseSection(t) \/ Start(t) \/ Stop(t)

Spec == Init /\ [][Next]_vars

-----------------------------------------------------------------------------
(* Properties                                                              *)

TypeOK == OM!TypeOK /\ CS!TypeOK /\ uses \subseteq Objects \cup Sections

\* synchronized keeps everybody else out, on objects and in sections, whoever
\* created the monitor or listed the section, and however its holder has nested.
Sync == INSTANCE RecursiveLocks WITH Things <- Objects \cup Sections, holds <- inUse
ImplementsRecursiveLocks == Sync!Spec

\* Who holds an object or a section may lock it again: its mutex is a recursive
\* one, whichever copy has initialised it and when.
HolderMayReenter == OM!HolderMayReenter /\ CS!InsiderMayReenter

\* What two threads create at once for one object is neither lost nor shared:
\* _d_monitor_create keeps one and frees the other.
BlocksAccounted == OM!BlocksAccounted

\* Until the program's end dcs_list leads through every section in use, and when
\* _STD_critical_term has walked it no mutex is left behind.
ListWhole == CS!ListWhole /\ CS!AllReleased

\* Whoever locks finds a mutex, with three exceptions.  The copies of monitor.c that
\* the runtimes are built of never lock a monitor whose mutex is not ready, though
\* _d_monitorenter tests h->monitor without critsec; those of the proposal may.
\* A section's mutex is not ready while the thread that has listed it goes on to
\* initialise it, and is one no more when it has outlived a shutdown.
FlawsKnown == OM!NeverLocksRaw /\ CS!FlawsKnown

\* _d_criticalenter never locks a mutex that is not initialised.
SectionReady == CS!NeverLocksRaw

\* The locks of the runtime itself are held only within a call, and by nobody who
\* waits for a lock of the program's: locks of the program can wait for each
\* other in a circle only where the program takes them in one.
AtUsersLock(t) == OM!AtStep(t, "lock mutex") \/ CS!AtStep(t, "lock section")

InternalLocksBrief ==
    /\ critsecOwner # null => ~OM!Idle(critsecOwner) /\ ~AtUsersLock(critsecOwner)
    /\ holder[global] # null => ~CS!Idle(holder[global]) /\ ~AtUsersLock(holder[global])
=============================================================================
