-------------------------- MODULE CriticalSections --------------------------
(***************************************************************************)
(* The locks of synchronized statements without an object.  Each statement *)
(* has a static D_CRITICAL_SECTION, whose mutex is initialised when some   *)
(* thread first gets there; the sections in use form a list, which the end *)
(* of the program walks to destroy them.                                   *)
(*                                                                         *)
(* The program is linked with one of the copies of critical.c; a thread is *)
(* in no call, or at a step of one of the functions of that copy.  To use  *)
(* a mutex that is not initialised, or destroyed, is undefined: nothing is *)
(* said of what comes after it.                                            *)
(***************************************************************************)
EXTENDS CriticalBuilds, FiniteSets

CONSTANTS
    Threads,
    Main,           \* the thread that runs the C function main
    Sections,
    global,         \* critical_section
    Copies,         \* names of copies of critical.c
    MaxStops,       \* bound of the model: how often the runtime is shut down
    null

Parameters ==
    /\ Main \in Threads
    /\ {global, null} \cap (Threads \cup Sections) = {} /\ global # null
    /\ Copies \subseteq DOMAIN CriticalCode
    /\ MaxStops \in Nat

VARIABLES
    copy,           \* the copy that the program is linked with
    call,           \* the function that a thread is in, or "none"
    pc,             \* the step it is at
    dcs,            \* its argument
    initedC, attrC, list, atexit,
    next,           \* dcs->next
    mutex,          \* what each section's mutex is, and critical_section's
    holder, count,  \* of the mutexes
    inside,         \* how often each thread has entered each section
    dmain,          \* has the D runtime's start called _STI_critical_init?
    stops,          \* how often has it been shut down?
    flaw            \* the undefined use of a mutex that ended it all, or "none"

where   == <<copy, call, pc, dcs>>
statics == <<initedC, attrC, list, atexit, next>>
held    == <<holder, count, inside>>
life    == <<dmain, stops>>
vars    == <<where, statics, mutex, held, life, flaw>>

Mutexes == Sections \cup {global}

Init ==
    /\ copy \in Copies
    /\ call = [t \in Threads |-> "none"]
    /\ pc = [t \in Threads |-> 1]
    /\ dcs = [t \in Threads |-> null]
    /\ initedC = FALSE
    /\ attrC = "none"
    /\ list = null
    /\ atexit = FALSE
    /\ next = [x \in Mutexes |-> null]
    /\ mutex = [x \in Mutexes |-> "raw"]
    /\ holder = [x \in Mutexes |-> null]
    /\ count = [x \in Mutexes |-> 0]
    /\ inside = [t \in Threads |-> [s \in Sections |-> 0]]
    /\ dmain = FALSE
    /\ stops = 0
    /\ flaw = "none"

-----------------------------------------------------------------------------
(* Calls                                                                   *)

Idle(t) == call[t] = "none"

Calls(t, f, s) ==
    /\ flaw = "none"
    /\ Idle(t)
    /\ call' = [call EXCEPT ![t] = f]
    /\ dcs' = [dcs EXCEPT ![t] = s]
    /\ UNCHANGED <<copy, pc, statics, mutex, held, flaw>>

\* The copies for pthreads can do without a D main: they initialise the list when
\* the main thread enters its first section.  No other thread comes to a section
\* before that.
Lazy == CriticalCode[copy].enter[1].do = "no list"

EnterSection(t, s) ==
    /\ list # null \/ (t = Main /\ Lazy)
    /\ call[Main] \notin {"init", "term"}
    /\ Calls(t, "enter", s)
    /\ UNCHANGED life

ExitSection(t, s) ==
    /\ inside[t][s] > 0
    /\ Calls(t, "exit", s)
    /\ UNCHANGED life

\* The start of a D main, or rt_init, which a program may call once more after
\* rt_term.
Start(t) ==
    /\ t = Main /\ \A u \in Threads : Idle(u)
    /\ Calls(t, "init", null)
    /\ dmain' = TRUE
    /\ UNCHANGED stops

\* The end of a D main, rt_term, or the function registered with atexit: the
\* other threads have been joined.
Stop(t) ==
    /\ t = Main /\ stops < MaxStops
    /\ dmain \/ atexit
    /\ \A u \in Threads : Idle(u) /\ \A s \in Sections : inside[u][s] = 0
    /\ Calls(t, "term", null)
    /\ stops' = stops + 1
    /\ UNCHANGED dmain

-----------------------------------------------------------------------------
(* Steps                                                                   *)

Body(t) == CriticalCode[copy][call[t]]
Step(t) == Body(t)[pc[t]]

AtStep(t, what) == ~Idle(t) /\ Step(t).do = what

\* On to another step, or the function returns.
Goes(t, to) ==
    /\ pc' = [pc EXCEPT ![t] = IF to <= Len(Body(t)) THEN to ELSE 1]
    /\ IF to <= Len(Body(t))
       THEN UNCHANGED <<call, dcs>>
       ELSE /\ call' = [call EXCEPT ![t] = "none"]
            /\ dcs' = [dcs EXCEPT ![t] = null]
    /\ UNCHANGED <<copy, life>>

\* A statement: on to the next one, or back to the test of its loop.
Does(t, what) == flaw = "none" /\ AtStep(t, what) /\ Goes(t, pc[t] + 1 + Step(t).skip)

\* A test: on to the next step, or past the block.
Tests(t, what, holdsNow) ==
    /\ flaw = "none" /\ AtStep(t, what)
    /\ Goes(t, pc[t] + 1 + IF holdsNow THEN 0 ELSE Step(t).skip)
    /\ UNCHANGED <<statics, mutex, held, flaw>>

Test(t) ==
    \/ Tests(t, "inited", initedC)
    \/ Tests(t, "not inited", ~initedC)
    \/ Tests(t, "list", list # null)
    \/ Tests(t, "no list", list = null)
    \/ Tests(t, "no next", next[dcs[t]] = null)

SetInited(t) ==
    /\ \/ Does(t, "set inited") /\ initedC' = TRUE
       \/ Does(t, "clear inited") /\ initedC' = FALSE
    /\ UNCHANGED <<attrC, list, atexit, next, mutex, held, flaw>>

SetAttr(t) ==
    /\ \/ Does(t, "init attr") /\ attrC' = "default"
       \/ Does(t, "set type of attr") /\ attrC' = "recursive"
    /\ UNCHANGED <<initedC, list, atexit, next, mutex, held, flaw>>

\* atexit(_STD_critical_term)
Register(t) ==
    /\ Does(t, "atexit") /\ atexit' = TRUE
    /\ UNCHANGED <<initedC, attrC, list, next, mutex, held, flaw>>

\* Initialises the mutex of x, be it locked or not.
Initialise(x, kind) ==
    /\ mutex' = [mutex EXCEPT ![x] = kind]
    /\ holder' = [holder EXCEPT ![x] = null]
    /\ count' = [count EXCEPT ![x] = 0]

\* The global mutex need not be recursive.
InitGlobal(t) ==
    /\ Does(t, "init global")
    /\ Initialise(global, "plain")
    /\ UNCHANGED <<statics, inside, flaw>>

InitSection(t) ==
    /\ \/ Does(t, "init section") /\ Initialise(dcs[t], "recursive")
       \/ /\ Does(t, "init section of attr")
          /\ Initialise(dcs[t], IF attrC = "recursive" THEN "recursive" ELSE "plain")
    /\ UNCHANGED <<statics, inside, flaw>>

SetList(t) ==
    /\ \/ Does(t, "list global") /\ list' = global
       \/ Does(t, "set list") /\ list' = dcs[t]
       \/ Does(t, "pop list") /\ list' = next[list]
    /\ UNCHANGED <<initedC, attrC, atexit, next, mutex, held, flaw>>

SetNext(t) ==
    /\ Does(t, "set next")
    /\ next' = [next EXCEPT ![dcs[t]] = list]
    /\ UNCHANGED <<initedC, attrC, list, atexit, mutex, held, flaw>>

DeleteHead(t) ==
    /\ Does(t, "delete head")
    /\ mutex' = [mutex EXCEPT ![list] = "deleted"]
    /\ UNCHANGED <<statics, held, flaw>>

LockGlobal(t) ==
    /\ Does(t, "lock global")
    /\ mutex[global] = "plain" /\ holder[global] = null
    /\ holder' = [holder EXCEPT ![global] = t]
    /\ UNCHANGED <<statics, mutex, count, inside, flaw>>

UnlockGlobal(t) ==
    /\ Does(t, "unlock global")
    /\ holder' = [holder EXCEPT ![global] = null]
    /\ UNCHANGED <<statics, mutex, count, inside, flaw>>

LockSection(t) ==
    LET s == dcs[t] IN
    /\ Does(t, "lock section")
    /\ \/ mutex[s] \in {"plain", "recursive"} /\ holder[s] = null
       \/ mutex[s] = "recursive" /\ holder[s] = t
    /\ holder' = [holder EXCEPT ![s] = t]
    /\ count' = [count EXCEPT ![s] = @ + 1]
    /\ inside' = [inside EXCEPT ![t][s] = @ + 1]
    /\ UNCHANGED <<statics, mutex, flaw>>

\* What is there is not a mutex, not yet or not any more.
LockNoMutex(t) ==
    /\ Does(t, "lock section")
    /\ mutex[dcs[t]] \in {"raw", "deleted"}
    /\ flaw' = mutex[dcs[t]]
    /\ UNCHANGED <<statics, mutex, held>>

UnlockSection(t) ==
    LET s == dcs[t] IN
    /\ Does(t, "unlock section")
    /\ holder' = [holder EXCEPT ![s] = IF count[s] = 1 THEN null ELSE @]
    /\ count' = [count EXCEPT ![s] = @ - 1]
    /\ inside' = [inside EXCEPT ![t][s] = @ - 1]
    /\ UNCHANGED <<statics, mutex, flaw>>

-----------------------------------------------------------------------------
CallStep(t) ==
    \/ Test(t)
    \/ SetInited(t) \/ SetAttr(t) \/ Register(t)
    \/ InitGlobal(t) \/ InitSection(t) \/ SetList(t) \/ SetNext(t) \/ DeleteHead(t)
    \/ LockGlobal(t) \/ UnlockGlobal(t)
    \/ LockSection(t) \/ LockNoMutex(t) \/ UnlockSection(t)

Call(t) ==
    \/ Start(t) \/ Stop(t)
    \/ \E s \in Sections : EnterSection(t, s) \/ ExitSection(t, s)

Next == \E t \in Threads : CallStep(t) \/ Call(t)

Spec == Init /\ [][Next]_vars

-----------------------------------------------------------------------------
(* Properties                                                              *)

TypeOK ==
    /\ copy \in Copies
    /\ \A t \in Threads : ~Idle(t) =>
          call[t] \in DOMAIN CriticalCode[copy] /\ pc[t] \in 1 .. Len(Body(t))
    /\ dcs \in [Threads -> Sections \cup {null}]
    /\ {initedC, atexit, dmain} \subseteq BOOLEAN
    /\ attrC \in {"none", "default", "recursive"}
    /\ list \in Mutexes \cup {null}
    /\ next \in [Mutexes -> Mutexes \cup {null}]
    /\ mutex \in [Mutexes -> {"raw", "plain", "recursive", "deleted"}]
    /\ holder \in [Mutexes -> Threads \cup {null}]
    /\ count \in [Mutexes -> Nat]
    /\ inside \in [Threads -> [Sections -> Nat]]
    /\ stops \in 0 .. MaxStops
    /\ flaw \in {"none", "raw", "deleted"}

\* A section keeps everybody else out of itself.
Sync == INSTANCE RecursiveLocks WITH Things <- Sections, holds <- inside
ImplementsRecursiveLocks == Sync!Spec

\* Who is in a section may enter it again.
InsiderMayReenter ==
    \A t \in Threads, s \in Sections : inside[t][s] > 0 => mutex[s] = "recursive"

\* "walk the list and release them": until the program's end begins, the list
\* leads from its head through every section in use to critical_section.
InList[n \in Nat] ==
    IF n = 0 THEN {list} ELSE InList[n - 1] \cup {next[x] : x \in InList[n - 1] \ {null}}

ListWhole ==
    stops = 0 /\ list # null =>
        LET used == {s \in Sections : next[s] # null}
            new  == {dcs[t] : t \in {u \in Threads : AtStep(u, "set list")}}
        IN  InList[Cardinality(Sections) + 1] = (used \ new) \cup {global, null}

\* ... and when it has come to its end, no mutex is left behind.
AllReleased ==
    stops = 1 /\ list = null /\ Idle(Main) =>
        \A x \in Mutexes : mutex[x] \in {"raw", "deleted"}

\* No thread ever locks a section whose mutex is not initialised.
NeverLocksRaw == flaw # "raw"

\* The undefined uses that there are: a thread that is about to initialise the
\* section has put it into the list already; or the section was destroyed by a
\* shutdown and the runtime was started again.
FlawsKnown ==
    /\ flaw = "raw" => \E t \in Threads :
          \E what \in {"set list", "init section", "init section of attr"} :
              AtStep(t, what) /\ mutex[dcs[t]] = "raw"
    /\ flaw = "deleted" => stops > 0
=============================================================================
