----------------------- MODULE RuntimeLocksInvariants -----------------------
(***************************************************************************)
(* What RuntimeLocksProofs says of RuntimeLocks: the places in the code of *)
(* monitor.c and of critical.c, what their steps do there, and the         *)
(* invariants, MonitorInv, SectionInv and ListInv.                         *)
(*                                                                         *)
(* The invariants speak of places in functions and never of the steps of a *)
(* copy, so that they are the same for all copies.  MonitorInv is about    *)
(* monitor.c, SectionInv about critical.c: neither needs the other.        *)
(* ListInv, about the list of critical.c, rests on SectionInv.             *)
(***************************************************************************)
EXTENDS RuntimeLocks

-----------------------------------------------------------------------------
(* The code of monitor.c                                                   *)

ShippedNames == {"DmdWin32", "DmdPosix", "GdcWin32", "GdcPosix", "GdcAlreadyRecursive",
                 "LdcWin32", "LdcPosix"}
ProposedNames == {"ProposedDmdWin32", "ProposedDmdPosix", "ProposedGdcWin32",
                  "ProposedGdcPosix", "ProposedGdcAlreadyRecursive"}

\* The copies that make their mutexes with an attribute object, and those that keep
\* critsec.
AttrBuilds == {"DmdPosix", "GdcPosix", "LdcPosix", "ProposedDmdPosix", "ProposedGdcPosix"}
KeepBuilds == {"GdcAlreadyRecursive", "ProposedGdcAlreadyRecursive"}

InitStep(b) == IF b \in AttrBuilds THEN "init mutex of attr" ELSE "init mutex"

Ctor(b) == IF b \in AttrBuilds THEN OM!StaticCtorAttr ELSE OM!StaticCtor

Dtor(b) == IF b \in AttrBuilds THEN OM!StaticDtorAttr
           ELSE IF b \in KeepBuilds THEN <<OM!If("inited", 1), OM!Do("clear inited")>>
           ELSE OM!StaticDtor

CopyOf(b) == IF b \in ShippedNames THEN OM!Shipped(Ctor(b), Dtor(b), OM!Create(InitStep(b)))
             ELSE OM!Proposed(Ctor(b), Dtor(b), InitStep(b))

-----------------------------------------------------------------------------
(* The steps of its functions                                              *)

\* The n-th step of c.
Entry(c, n, what, skip) == c[n] = [do |-> what, skip |-> skip]

LooksShipped(r, c, d, i) ==
           /\ DOMAIN r = {"staticctor", "staticdtor", "create", "destroy", "lock", "unlock"}
           /\ r["staticctor"] = c /\ r["staticdtor"] = d /\ r["create"] = i
           /\ Len(r["destroy"]) = 3
           /\ Entry(r["destroy"], 1, "delete mutex", 0)
           /\ Entry(r["destroy"], 2, "free monitor", 0)
           /\ Entry(r["destroy"], 3, "clear monitor", 0)
           /\ Len(r["lock"]) = 1 /\ Entry(r["lock"], 1, "lock mutex", 0)
           /\ Len(r["unlock"]) = 1 /\ Entry(r["unlock"], 1, "unlock mutex", 0)

LooksProposed(r, c, d, i) ==
           /\ DOMAIN r = {"staticctor", "staticdtor", "enter", "exit", "get", "release"}
           /\ r["staticctor"] = c /\ r["staticdtor"] = d
           /\ r["enter"] = OM!ProposedEnter(i) /\ r["get"] = OM!CreateFirst(i)
           /\ Len(r["exit"]) = 1 /\ Entry(r["exit"], 1, "unlock mutex", 0)
           /\ Len(r["release"]) = 4
           /\ Entry(r["release"], 1, "monitor", 3)
           /\ Entry(r["release"], 2, "delete mutex", 0)
           /\ Entry(r["release"], 3, "free monitor", 0)
           /\ Entry(r["release"], 4, "clear monitor", 0)

\* A thread in a function of the copy that the program is linked with.
Functions == {"staticctor", "staticdtor", "create", "destroy", "lock", "unlock",
              "enter", "exit", "get", "release"}

InCode(t) == OM!Is(fn[t]) /\ at[t] \in 1 .. Len(OM!Body(t))

\* The step that a thread is at.
Runs(t, what, skip) == OM!Step(t).do = what /\ OM!Step(t).skip = skip

EnterLength(f) == IF f = "enter" THEN 11 ELSE 10

-----------------------------------------------------------------------------
(* Where a thread goes                                                     *)

CallTypes ==
    /\ build \in DOMAIN OM!MonitorCode
    /\ fn \in [Threads -> Functions \cup {"none"}]
    /\ at \in [Threads -> Nat]
    /\ \A t \in Threads : fn[t] # "none" => InCode(t)
    /\ obj \in [Threads -> Objects \cup {null}]

DataTypes ==
    /\ cs \in [Threads -> Monitors \cup {null}]
    /\ inited \in BOOLEAN /\ undefined \in BOOLEAN
    /\ attr \in {"none", "default", "recursive"}
    /\ critsec \in {"raw", "ready", "deleted"}
    /\ critsecOwner \in Threads \cup {null}
    /\ monitor \in [Objects -> Monitors \cup {null}]
    /\ heap \in [Monitors -> {"free", "raw", "plain", "recursive", "deleted"}]
    /\ owner \in [Monitors -> Threads \cup {null}]
    /\ depth \in [Monitors -> Nat]
    /\ holds \in [Threads -> [Objects -> Nat]]

Moves(t, f, i, o) ==
    /\ build' = build
    /\ fn' = [fn EXCEPT ![t] = f]
    /\ at' = [at EXCEPT ![t] = i]
    /\ obj' = [obj EXCEPT ![t] = o]

\* To step i of the same function; out of it; from create to lock.
GoesTo(t, i) == Moves(t, fn[t], i, obj[t])
Returns(t)   == Moves(t, "none", 1, null)
GoesOn(t)    == Moves(t, "lock", 1, obj[t])

\* What the steps do, apart from where they go.
Nothing ==
    UNCHANGED <<cs, inited, attr, critsec, critsecOwner, monitor, heap, owner, depth, holds, undefined>>

MakesAttr ==
    /\ attr' \in {"none", "default"}
    /\ UNCHANGED <<cs, inited, critsec, critsecOwner, monitor, heap, owner, depth, holds, undefined>>

SetsType ==
    /\ attr' = "recursive"
    /\ UNCHANGED <<cs, inited, critsec, critsecOwner, monitor, heap, owner, depth, holds, undefined>>

MakesCritsec ==
    /\ critsec' = "ready" /\ critsecOwner' = null
    /\ UNCHANGED <<cs, inited, attr, monitor, heap, owner, depth, holds, undefined>>

DeletesCritsec ==
    /\ critsec' = "deleted"
    /\ UNCHANGED <<cs, inited, attr, critsecOwner, monitor, heap, owner, depth, holds, undefined>>

SetsInited ==
    /\ inited' = TRUE
    /\ UNCHANGED <<cs, attr, critsec, critsecOwner, monitor, heap, owner, depth, holds, undefined>>

ClearsInited ==
    /\ inited' = FALSE
    /\ UNCHANGED <<cs, attr, critsec, critsecOwner, monitor, heap, owner, depth, holds, undefined>>

TakesCritsec(t) ==
    /\ critsecOwner = null /\ critsecOwner' = t
    /\ UNCHANGED <<cs, inited, attr, critsec, monitor, heap, owner, depth, holds, undefined>>

LeavesCritsec ==
    /\ critsecOwner' = null
    /\ UNCHANGED <<cs, inited, attr, critsec, monitor, heap, owner, depth, holds, undefined>>

Allocates(t) ==
    /\ \E m \in Monitors : /\ heap[m] = "free"
                           /\ heap' = [heap EXCEPT ![m] = "raw"]
                           /\ cs' = [cs EXCEPT ![t] = m]
    /\ UNCHANGED <<inited, attr, critsec, critsecOwner, monitor, owner, depth, holds, undefined>>

MakesMutex(t) ==
    /\ \/ heap' = [heap EXCEPT ![cs[t]] = "recursive"]
       \/ /\ heap' = [heap EXCEPT ![cs[t]] = "plain"]
          /\ build \in AttrBuilds /\ attr # "recursive"
    /\ UNCHANGED <<cs, inited, attr, critsec, critsecOwner, monitor, owner, depth, holds, undefined>>

SetsMonitor(t) ==
    /\ monitor' = [monitor EXCEPT ![obj[t]] = cs[t]]
    /\ UNCHANGED <<cs, inited, attr, critsec, critsecOwner, heap, owner, depth, holds, undefined>>

Forgets(t) ==
    /\ cs' = [cs EXCEPT ![t] = null]
    /\ UNCHANGED <<inited, attr, critsec, critsecOwner, monitor, heap, owner, depth, holds, undefined>>

FreesCs(t) ==
    /\ heap' = [heap EXCEPT ![cs[t]] = "free"]
    /\ cs' = [cs EXCEPT ![t] = null]
    /\ UNCHANGED <<inited, attr, critsec, critsecOwner, monitor, owner, depth, holds, undefined>>

DeletesMutex(t) ==
    /\ heap' = [heap EXCEPT ![monitor[obj[t]]] = "deleted"]
    /\ UNCHANGED <<cs, inited, attr, critsec, critsecOwner, monitor, owner, depth, holds, undefined>>

FreesMonitor(t) ==
    /\ heap' = [heap EXCEPT ![monitor[obj[t]]] = "free"]
    /\ UNCHANGED <<cs, inited, attr, critsec, critsecOwner, monitor, owner, depth, holds, undefined>>

ClearsMonitor(t) ==
    /\ monitor' = [monitor EXCEPT ![obj[t]] = null]
    /\ UNCHANGED <<cs, inited, attr, critsec, critsecOwner, heap, owner, depth, holds, undefined>>

Locks(t) ==
    LET m == monitor[obj[t]] IN
    /\ heap[m] \in {"plain", "recursive"}
    /\ owner[m] = null \/ owner[m] = t
    /\ owner' = [owner EXCEPT ![m] = t]
    /\ depth' = [depth EXCEPT ![m] = @ + 1]
    /\ holds' = [holds EXCEPT ![t][obj[t]] = @ + 1]
    /\ UNCHANGED <<cs, inited, attr, critsec, critsecOwner, monitor, heap, undefined>>

LocksRaw(t) ==
    /\ heap[monitor[obj[t]]] \notin {"plain", "recursive"}
    /\ undefined' = TRUE
    /\ UNCHANGED <<cs, inited, attr, critsec, critsecOwner, monitor, heap, owner, depth, holds>>

Unlocks(t) ==
    LET m == monitor[obj[t]] IN
    /\ owner' = [owner EXCEPT ![m] = IF depth[m] = 1 THEN null ELSE @]
    /\ depth' = [depth EXCEPT ![m] = @ - 1]
    /\ holds' = [holds EXCEPT ![t][obj[t]] = @ - 1]
    /\ UNCHANGED <<cs, inited, attr, critsec, critsecOwner, monitor, heap, undefined>>

Onward(t) == OM!Goes(t, at[t] + 1)
Past(t)   == OM!Goes(t, at[t] + 1 + OM!Step(t).skip)

-----------------------------------------------------------------------------
(* Where a thread may be                                                   *)

InCreate(t, I) == fn[t] = "create" /\ at[t] \in I
InEnter(t, I)  == fn[t] \in {"enter", "get"} /\ at[t] \in I

\* It has locked critsec.
Locked(t)   == InCreate(t, 2 .. 7) \/ InEnter(t, 4 .. 8)

\* It has a block in its hand; or may have one; the mutex of that block is made.
Hand(t)     == InCreate(t, {4, 5, 6, 9}) \/ InEnter(t, {3, 4, 5, 6, 7, 10})
MayHand(t)  == Hand(t) \/ InEnter(t, {8, 9})
Made(t)     == InCreate(t, {5, 6}) \/ InEnter(t, {7})

\* Its object has no monitor; has one; has the block in its hand for one, and that
\* is a mutex or not yet.
Empty(t)    == InCreate(t, 3 .. 5) \/ InEnter(t, {5})
Known(t)    == \/ InCreate(t, 6 .. 9) \/ InEnter(t, 6 .. 11)
               \/ fn[t] \in {"lock", "unlock", "exit", "destroy", "release"}
Linked(t)   == InCreate(t, {6}) \/ InEnter(t, {6, 7})
Unready(t)  == InEnter(t, {6})

\* It deletes a monitor; has deleted the mutex; has freed the block as well.
Deletes(t)  == fn[t] \in {"destroy", "release"}
Gone(t)     == (fn[t] = "destroy" /\ at[t] = 2) \/ (fn[t] = "release" /\ at[t] = 3)
Clearing(t) == (fn[t] = "destroy" /\ at[t] = 3) \/ (fn[t] = "release" /\ at[t] = 4)

Unlocking(t) == fn[t] \in {"unlock", "exit"}

-----------------------------------------------------------------------------
(* The invariant of monitor.c                                              *)

\* What a function is called with.
Arguments ==
    \A t \in Threads :
        /\ fn[t] = "none" => at[t] = 1
        /\ fn[t] \in {"none", "staticctor", "staticdtor"} => obj[t] = null
        /\ fn[t] \in {"staticctor", "staticdtor"} => t = Main
        /\ fn[t] \in Functions \ {"staticctor", "staticdtor"} => obj[t] \in Objects

\* While critsec is made or destroyed, nobody is there to lock it.
Quiet ==
    ~inited \/ fn[Main] = "staticdtor" =>
        /\ \A t \in Threads \ {Main} : fn[t] = "none"
        /\ fn[Main] \in {"none", "staticctor", "staticdtor"}
        /\ \A t \in Threads, o \in Objects : holds[t][o] = 0

Starting ==
    (fn[Main] = "staticctor" /\ at[Main] > 1) \/ (fn[Main] = "staticdtor" /\ at[Main] > 2)
        => ~inited

AttrReady ==
    build \in AttrBuilds =>
        /\ inited => attr = "recursive"
        /\ fn[Main] = "staticctor" /\ at[Main] \in {4, 5} => attr = "recursive"

CritsecHeld == \A t \in Threads : critsecOwner = t <=> Locked(t)

Control == Arguments /\ Quiet /\ Starting /\ AttrReady /\ CritsecHeld

\* Who has a block in its hand, and what the block is.
Blocks ==
    \A t \in Threads :
        /\ cs[t] # null => MayHand(t)
        /\ Hand(t) => cs[t] # null
        /\ cs[t] # null => heap[cs[t]] = IF Made(t) THEN "recursive" ELSE "raw"

\* What is known of the monitor of the argument.
MonitorKnown ==
    \A t \in Threads :
        /\ Empty(t) => monitor[obj[t]] = null
        /\ Known(t) => monitor[obj[t]] # null
        /\ Linked(t) => monitor[obj[t]] = cs[t]
        /\ Unready(t) => \A u \in Threads : holds[u][obj[t]] = 0

DeleterAlone ==
    \A t \in Threads : Deletes(t) =>
        \A u \in Threads : holds[u][obj[t]] = 0 /\ (u # t => obj[u] # obj[t])

\* The monitor of o is free already, and not yet forgotten.
Stale(o) == \E t \in Threads : obj[t] = o /\ Clearing(t)

\* What the block of a monitor is.
MonitorHeap ==
    \A o \in Objects : monitor[o] # null =>
        \/ heap[monitor[o]] = "recursive"
        \/ heap[monitor[o]] = "raw" /\ \E t \in Threads : obj[t] = o /\ Unready(t)
        \/ heap[monitor[o]] = "deleted" /\ \E t \in Threads : obj[t] = o /\ Gone(t)
        \/ Stale(o)

Unshared ==
    /\ \A t, u \in Threads : cs[t] # null /\ cs[t] = cs[u] => t = u
    /\ \A o, p \in Objects : monitor[o] # null /\ monitor[o] = monitor[p] =>
          o = p \/ Stale(o) \/ Stale(p)
    /\ \A t \in Threads, o \in Objects : cs[t] # null /\ cs[t] = monitor[o] =>
          (obj[t] = o /\ Linked(t)) \/ Stale(o)

Accounted ==
    \A m \in Monitors : heap[m] # "free" =>
        \/ \E t \in Threads : cs[t] = m
        \/ \E o \in Objects : monitor[o] = m /\ ~Stale(o)

LocksKept ==
    /\ \A t \in Threads, o \in Objects : holds[t][o] > 0 =>
          monitor[o] # null /\ owner[monitor[o]] = t /\ depth[monitor[o]] = holds[t][o]
    /\ \A m \in Monitors :
          /\ owner[m] = null => depth[m] = 0
          /\ owner[m] # null => \E o \in Objects : monitor[o] = m /\ holds[owner[m]][o] > 0
    /\ \A t \in Threads : Unlocking(t) => holds[t][obj[t]] > 0

Heap == /\ Blocks /\ MonitorKnown /\ DeleterAlone /\ MonitorHeap /\ Unshared /\ Accounted
        /\ LocksKept

MonitorInv == CallTypes /\ DataTypes /\ Control /\ Heap /\ OM!NeverLocksRaw

-----------------------------------------------------------------------------
(* What one step leaves alone                                              *)

Others(t) ==
    \A u \in Threads \ {t} :
        /\ obj'[u] = obj[u]
        /\ Locked(u)' <=> Locked(u)
        /\ Hand(u)' <=> Hand(u)
        /\ MayHand(u)' <=> MayHand(u)
        /\ Made(u)' <=> Made(u)
        /\ Empty(u)' <=> Empty(u)
        /\ Known(u)' <=> Known(u)
        /\ Linked(u)' <=> Linked(u)
        /\ Unready(u)' <=> Unready(u)
        /\ Deletes(u)' <=> Deletes(u)
        /\ Gone(u)' <=> Gone(u)
        /\ Clearing(u)' <=> Clearing(u)
        /\ Unlocking(u)' <=> Unlocking(u)

\* Nothing of this holds of t.
Plain(t) == ~Linked(t) /\ ~Unready(t) /\ ~Gone(t) /\ ~Clearing(t) /\ ~Unlocking(t)

\* The same for a step that keeps the object and the monitors.
Stays(t) ==
    /\ Others(t) /\ obj'[t] = obj[t]
    /\ Empty(t)' => Empty(t)
    /\ Known(t)' => Known(t)
    /\ Deletes(t)' <=> Deletes(t)
    /\ ~Unlocking(t) /\ ~Unlocking(t)'

\* A thread that is done.
Leaves(t) ==
    /\ Others(t) /\ obj'[t] = null
    /\ Plain(t)' /\ ~Hand(t)' /\ ~Made(t)' /\ ~Known(t)' /\ ~Empty(t)' /\ ~Deletes(t)'

-----------------------------------------------------------------------------
(* Steps of the functions that users of monitors call                      *)

UserFunctions == Functions \ {"staticctor", "staticdtor"}

\* Where a user's thread goes it has no business with the start or the end.
Inside(t) ==
    \/ \E i \in Nat : GoesTo(t, i)
    \/ Returns(t)
    \/ GoesOn(t) /\ fn[t] = "create"

\* The kinds of step that they take: what a step does, at places where that is right.
Waiting(t) ==
    /\ Nothing
    /\ Plain(t) /\ Plain(t)' /\ ~Made(t) /\ ~Made(t)'
    /\ cs[t] # null => MayHand(t)'
    /\ Hand(t)' => cs[t] # null
    /\ Empty(t)' => monitor[obj[t]] = null /\ obj'[t] = obj[t]
    /\ Known(t)' => monitor[obj[t]] # null /\ obj'[t] = obj[t]
    /\ Deletes(t)' => Deletes(t) /\ obj'[t] = obj[t]
    /\ Locked(t)' <=> Locked(t)

Entering(t) ==
    /\ TakesCritsec(t)
    /\ Plain(t) /\ Plain(t)' /\ ~Made(t) /\ ~Made(t)'
    /\ cs[t] # null => MayHand(t)'
    /\ Hand(t)' => cs[t] # null
    /\ Empty(t)' => monitor[obj[t]] = null /\ obj'[t] = obj[t]
    /\ Known(t)' => monitor[obj[t]] # null /\ obj'[t] = obj[t]
    /\ Deletes(t)' => Deletes(t) /\ obj'[t] = obj[t]
    /\ Locked(t)'

Leaving(t) ==
    /\ LeavesCritsec
    /\ Plain(t) /\ Plain(t)' /\ ~Made(t) /\ ~Made(t)'
    /\ cs[t] # null => MayHand(t)'
    /\ Hand(t)' => cs[t] # null
    /\ Empty(t)' => monitor[obj[t]] = null /\ obj'[t] = obj[t]
    /\ Known(t)' => monitor[obj[t]] # null /\ obj'[t] = obj[t]
    /\ Deletes(t)' => Deletes(t) /\ obj'[t] = obj[t]
    /\ Locked(t) /\ ~Locked(t)'

Allocating(t) ==
    /\ Allocates(t)
    /\ obj'[t] = obj[t] /\ (Empty(t)' => Empty(t)) /\ (Known(t)' => Known(t))
    /\ (Deletes(t)' <=> Deletes(t)) /\ ~Unlocking(t) /\ ~Unlocking(t)'
    /\ Plain(t) /\ Plain(t)'
    /\ ~Deletes(t) /\ ~MayHand(t) /\ Hand(t)' /\ MayHand(t)' /\ ~Made(t)'
    /\ Locked(t)' <=> Locked(t)

Making(t) ==
    /\ MakesMutex(t)
    /\ obj'[t] = obj[t] /\ (Empty(t)' => Empty(t)) /\ (Known(t)' => Known(t))
    /\ (Deletes(t)' <=> Deletes(t)) /\ ~Unlocking(t) /\ ~Unlocking(t)'
    /\ Hand(t) /\ Hand(t)' /\ MayHand(t)' /\ ~Made(t) /\ Made(t)' /\ (Linked(t)' <=> Linked(t))
    /\ (Unready(t) => Linked(t)) /\ ~Unready(t)' /\ ~Deletes(t)
    /\ ~Gone(t) /\ ~Gone(t)' /\ ~Clearing(t) /\ ~Clearing(t)'
    /\ Locked(t)' <=> Locked(t)

Setting(t) ==
    /\ SetsMonitor(t)
    /\ obj'[t] = obj[t] /\ Hand(t) /\ Hand(t)' /\ MayHand(t)' /\ (Made(t)' <=> Made(t))
    /\ Empty(t) /\ ~Empty(t)' /\ Locked(t) /\ Known(t)' /\ ~Linked(t) /\ Linked(t)'
    /\ ~Unready(t) /\ (Unready(t)' <=> ~Made(t)) /\ ~Deletes(t) /\ ~Deletes(t)'
    /\ ~Gone(t) /\ ~Gone(t)' /\ ~Clearing(t) /\ ~Clearing(t)'
    /\ ~Unlocking(t) /\ ~Unlocking(t)'
    /\ Locked(t)' <=> Locked(t)

Forgetting(t) ==
    /\ Forgets(t)
    /\ obj'[t] = obj[t] /\ (Empty(t)' => Empty(t)) /\ (Known(t)' => Known(t))
    /\ (Deletes(t)' <=> Deletes(t)) /\ ~Unlocking(t) /\ ~Unlocking(t)'
    /\ Hand(t) /\ ~Hand(t)' /\ ~Made(t)' /\ Linked(t) /\ ~Linked(t)' /\ ~Unready(t) /\ ~Unready(t)'
    /\ ~Deletes(t) /\ ~Gone(t) /\ ~Gone(t)' /\ ~Clearing(t) /\ ~Clearing(t)'
    /\ Locked(t)' <=> Locked(t)

Freeing(t) ==
    /\ FreesCs(t)
    /\ Plain(t) /\ Plain(t)' /\ Hand(t) /\ ~Hand(t)' /\ ~Made(t)' /\ ~Deletes(t) /\ ~Deletes(t)'
    /\ (Empty(t)' => Empty(t) /\ obj'[t] = obj[t]) /\ (Known(t)' => Known(t) /\ obj'[t] = obj[t])
    /\ Locked(t)' <=> Locked(t)

DeletingMutex(t) ==
    /\ DeletesMutex(t)
    /\ obj'[t] = obj[t] /\ (Empty(t)' => Empty(t)) /\ (Known(t)' => Known(t))
    /\ (Deletes(t)' <=> Deletes(t)) /\ ~Unlocking(t) /\ ~Unlocking(t)'
    /\ Deletes(t) /\ Plain(t) /\ Gone(t)' /\ ~Clearing(t)' /\ ~Made(t) /\ ~Made(t)'
    /\ ~Hand(t)' /\ ~Linked(t)' /\ ~Unready(t)'
    /\ Locked(t)' <=> Locked(t)

FreeingMonitor(t) ==
    /\ FreesMonitor(t)
    /\ obj'[t] = obj[t] /\ (Empty(t)' => Empty(t)) /\ (Known(t)' => Known(t))
    /\ (Deletes(t)' <=> Deletes(t)) /\ ~Unlocking(t) /\ ~Unlocking(t)'
    /\ Deletes(t) /\ Gone(t) /\ Clearing(t)' /\ ~Clearing(t) /\ ~Gone(t)' /\ ~Made(t) /\ ~Made(t)'
    /\ ~Hand(t)' /\ ~Linked(t) /\ ~Linked(t)' /\ ~Unready(t) /\ ~Unready(t)'
    /\ Locked(t)' <=> Locked(t)

ClearingMonitor(t) ==
    /\ ClearsMonitor(t)
    /\ obj'[t] = null /\ Deletes(t) /\ Clearing(t) /\ ~Gone(t) /\ ~Unready(t)
    /\ Plain(t)' /\ ~Hand(t)' /\ ~Made(t)' /\ ~Known(t)' /\ ~Empty(t)' /\ ~Deletes(t)'
    /\ Locked(t)' <=> Locked(t)

Locking(t) ==
    /\ Locks(t)
    /\ obj'[t] = null /\ Plain(t)' /\ ~Hand(t)' /\ ~Made(t)' /\ ~Known(t)' /\ ~Empty(t)' /\ ~Deletes(t)'
    /\ Plain(t) /\ Known(t) /\ ~Deletes(t) /\ ~MayHand(t)
    /\ Locked(t)' <=> Locked(t)

LockingRaw(t) ==
    /\ LocksRaw(t)
    /\ Plain(t) /\ Plain(t)' /\ ~Made(t) /\ ~Made(t)'
    /\ cs[t] # null => MayHand(t)'
    /\ Hand(t)' => cs[t] # null
    /\ Empty(t)' => monitor[obj[t]] = null /\ obj'[t] = obj[t]
    /\ Known(t)' => monitor[obj[t]] # null /\ obj'[t] = obj[t]
    /\ Deletes(t)' => Deletes(t) /\ obj'[t] = obj[t]
    /\ Known(t) /\ ~Deletes(t) /\ (Locked(t)' <=> Locked(t))

UnlockingMutex(t) ==
    /\ Unlocks(t)
    /\ obj'[t] = null /\ Plain(t)' /\ ~Hand(t)' /\ ~Made(t)' /\ ~Known(t)' /\ ~Empty(t)' /\ ~Deletes(t)'
    /\ Unlocking(t) /\ Known(t) /\ ~Deletes(t) /\ ~MayHand(t) /\ ~Clearing(t) /\ ~Gone(t)
    /\ Locked(t)' <=> Locked(t)

UserStep(t) ==
    \/ Waiting(t)
    \/ Entering(t)
    \/ Leaving(t)
    \/ Allocating(t)
    \/ Making(t)
    \/ Setting(t)
    \/ Forgetting(t)
    \/ Freeing(t)
    \/ DeletingMutex(t)
    \/ FreeingMonitor(t)
    \/ ClearingMonitor(t)
    \/ Locking(t)
    \/ LockingRaw(t)
    \/ UnlockingMutex(t)

HandKnown(t) ==
    /\ cs[t] # null => MayHand(t)
    /\ Hand(t) => cs[t] # null
    /\ Empty(t) => monitor[obj[t]] = null
    /\ Known(t) => monitor[obj[t]] # null

-----------------------------------------------------------------------------
(* Steps of the constructor and the destructor of the runtime              *)

StartFunctions == {"staticctor", "staticdtor"}

\* They change the globals only, and critsec while nobody is there to lock it.
Globally(t) ==
    /\ UNCHANGED <<cs, monitor, heap, owner, depth, holds, undefined>>
    /\ inited' \in BOOLEAN
    /\ attr' \in {"none", "default", "recursive"}
    /\ critsec' \in {"raw", "ready", "deleted"}
    /\ critsecOwner' = critsecOwner \/ (critsecOwner' = null /\ ~inited)
    /\ build \in AttrBuilds /\ inited' => attr' = "recursive"

StartGoes(t, i) ==
    /\ GoesTo(t, i)
    /\ fn[t] = "staticctor" \/ i > 2 => ~inited'
    /\ build \in AttrBuilds /\ fn[t] = "staticctor" /\ i \in {4, 5} => attr' = "recursive"

StartStep(t) ==
    /\ Globally(t)
    /\ inited /\ fn[t] = "staticctor" => inited' = inited /\ Returns(t)
    /\ Returns(t) \/ \E i \in Nat : StartGoes(t, i)

-----------------------------------------------------------------------------
(* Calls                                                                   *)

\* f may be called with o.
MayCall(t, f, o) ==
    /\ f \in StartFunctions => t = Main /\ o = null
    /\ f \in UserFunctions => o \in Objects /\ inited /\ fn[Main] # "staticdtor"
    /\ f = "staticdtor" => \A u \in Threads : fn[u] = "none" /\ \A p \in Objects : holds[u][p] = 0
    /\ f \in {"lock", "unlock", "exit", "destroy", "release"} => monitor[o] # null
    /\ f \in {"unlock", "exit"} => holds[t][o] > 0
    /\ f \in {"destroy", "release"} => \A u \in Threads : holds[u][o] = 0 /\ obj[u] # o
    /\ \A u \in Threads : Deletes(u) => obj[u] # o

-----------------------------------------------------------------------------
(* The code of critical.c                                                  *)

SectionsWin32 == {"DmdWin32", "GdcWin32", "LdcWin32"}
SectionsAttr  == {"DmdPosix", "GdcPosix", "LdcPosix"}

\* The steps of _d_criticalenter before those that all copies have.
Prelude(c) == IF c \in SectionsWin32 THEN 0 ELSE IF c \in SectionsAttr THEN 7 ELSE 5

SectionForm(c, i, t, e) ==
    /\ c.init = i /\ c.term = t /\ c.enter = e
    /\ Len(c.exit) = 1 /\ Entry(c.exit, 1, "unlock section", 0)

SectionInit(c) == IF c \in SectionsWin32 THEN CS!Init32
                  ELSE IF c \in SectionsAttr THEN CS!InitAttr ELSE CS!InitNoAttr

SectionTerm(c) == IF c \in SectionsWin32 THEN CS!Term32 ELSE CS!TermPosix

SectionStart(c) == IF c \in SectionsAttr THEN "init section of attr" ELSE "init section"

SectionEnter(c) ==
    IF c \in SectionsWin32 THEN CS!Enter(SectionStart(c))
    ELSE CS!LazyEnter(SectionInit(c), SectionStart(c))

\* The part of _d_criticalenter that all copies have, after k steps.
Common(c, k, i) ==
    /\ Entry(c, k + 1, "no next", 6)
    /\ Entry(c, k + 2, "lock global", 0)
    /\ Entry(c, k + 3, "no next", 3)
    /\ Entry(c, k + 4, "set next", 0)
    /\ Entry(c, k + 5, "set list", 0)
    /\ Entry(c, k + 6, i, 0)
    /\ Entry(c, k + 7, "unlock global", 0)
    /\ Entry(c, k + 8, "lock section", 0)

\* c is a followed by b.
Joins(S, c, a, b) ==
    /\ c \in Seq(S) /\ Len(c) = Len(a) + Len(b)
    /\ \A j \in 1 .. Len(a) : c[j] = a[j]
    /\ \A j \in 1 .. Len(b) : c[Len(a) + j] = b[j]

\* What LazyEnter puts together: a test, the code of _STI_critical_init, a statement, and
\* what all copies have.
Lazily(c, h, x, r, e) ==
    /\ Len(c) = Len(x) + 2 + Len(e)
    /\ c[1] = h
    /\ \A j \in 1 .. Len(x) : c[1 + j] = x[j]
    /\ c[Len(x) + 2] = r
    /\ \A j \in 1 .. Len(e) : c[(Len(x) + 2) + j] = e[j]

SInCode(t) == call[t] \in {"init", "term", "enter", "exit"} /\ pc[t] \in 1 .. Len(CS!Body(t))

SectionCalls ==
    /\ copy \in DOMAIN CS!CriticalCode
    /\ call \in [Threads -> {"none", "init", "term", "enter", "exit"}]
    /\ pc \in [Threads -> Nat]
    /\ \A t \in Threads : call[t] # "none" => SInCode(t)
    /\ dcs \in [Threads -> Sections \cup {null}]

SectionTypes ==
    /\ initedC \in BOOLEAN /\ atexit \in BOOLEAN /\ dmain \in BOOLEAN
    /\ attrC \in {"none", "default", "recursive"}
    /\ list \in Sections \cup {global, null}
    /\ next \in [Sections \cup {global} -> Sections \cup {global, null}]
    /\ mutex \in [Sections \cup {global} -> {"raw", "plain", "recursive", "deleted"}]
    /\ holder \in [Sections \cup {global} -> Threads \cup {null}]
    /\ count \in [Sections \cup {global} -> Nat]
    /\ inside \in [Threads -> [Sections -> Nat]]
    /\ stops \in 0 .. MaxStops
    /\ flaw \in {"none", "raw", "deleted"}

-----------------------------------------------------------------------------
(* The invariant of critical.c                                             *)

\* Step n of _d_criticalenter, counted from where all copies are alike.
AtEnter(t, n) == call[t] = "enter" /\ pc[t] = Prelude(copy) + n

\* It has locked critical_section.
Inner(t)  == AtEnter(t, 3) \/ AtEnter(t, 4) \/ AtEnter(t, 5) \/ AtEnter(t, 6) \/ AtEnter(t, 7)

\* Its section is not in the list; is not but in its next; is there; is there
\* without a mutex.
New(t)    == AtEnter(t, 4)
Listed(t) == AtEnter(t, 5) \/ AtEnter(t, 6) \/ AtEnter(t, 7) \/ AtEnter(t, 8)
Half(t)   == AtEnter(t, 5) \/ AtEnter(t, 6)

\* It initialises the list on the way; is about to leave its section.
Early(t)   == call[t] = "enter" /\ pc[t] < Prelude(copy)
Exiting(t) == call[t] = "exit"

\* What a function is called with.
SectionArguments ==
    \A t \in Threads :
        /\ call[t] = "none" => pc[t] = 1
        /\ call[t] \in {"none", "init", "term"} => dcs[t] = null
        /\ call[t] \in {"init", "term"} => t = Main
        /\ call[t] \in {"enter", "exit"} => dcs[t] \in Sections

\* While the list is made or taken apart, nobody else is in a section or comes
\* to one.
SectionsQuiet ==
    list = null \/ call[Main] = "term" =>
        /\ \A t \in Threads \ {Main} : call[t] = "none"
        /\ call[Main] \in {"none", "init", "term"} \/ Early(Main)
        /\ \A t \in Threads, s \in Sections : inside[t][s] = 0

\* Where there is no list yet.
Beginning ==
    /\ \A t \in Threads : Early(t) /\ pc[t] > 1 => list = null /\ t = Main
    /\ call[Main] = "init" /\ copy \notin SectionsWin32 /\ pc[Main] > 1 => list = null
    /\ call[Main] = "init" /\ copy \in SectionsWin32 /\ pc[Main] > 1 =>
          ~initedC /\ (list = null <=> pc[Main] # 4)
    /\ copy \in SectionsWin32 /\ ~initedC /\ list # null =>
          \/ call[Main] = "init" /\ pc[Main] = 4
          \/ call[Main] = "term" /\ pc[Main] > 2
    /\ copy \in SectionsWin32 /\ initedC => list # null
    /\ call[Main] = "term" /\ copy \in SectionsWin32 /\ pc[Main] > 2 => ~initedC
    /\ call[Main] = "term" /\ pc[Main] \in (IF copy \in SectionsWin32 THEN {4, 5} ELSE {3, 4})
          => list # null

SectionAttr ==
    copy \in SectionsAttr =>
        /\ list # null => attrC = "recursive"
        /\ call[Main] = "init" /\ pc[Main] \in {4, 5} => attrC = "recursive"
        /\ call[Main] = "enter" /\ pc[Main] \in {5, 6} => attrC = "recursive"

GlobalHeld == \A t \in Threads : holder[global] = t <=> Inner(t)

SectionControl == SectionArguments /\ SectionsQuiet /\ Beginning /\ SectionAttr /\ GlobalHeld

\* What is in the list has a next; what is in it or was has had its mutex made, or
\* will have.
Chained ==
    /\ next[global] = null
    /\ \A s \in Sections : list = s \/ (\E x \in Sections : next[x] = s) => next[s] # null

NextKnown ==
    \A t \in Threads :
        /\ New(t) => next[dcs[t]] = null
        /\ Listed(t) => next[dcs[t]] # null
        /\ Half(t) => mutex[dcs[t]] = "raw"

MutexKnown ==
    \A s \in Sections :
        /\ mutex[s] # "plain"
        /\ next[s] = null => mutex[s] = "raw"
        /\ next[s] # null /\ mutex[s] = "raw" => \E t \in Threads : dcs[t] = s /\ Half(t)

Stopped ==
    /\ call[Main] = "term" => stops > 0
    /\ \A s \in Sections : mutex[s] = "deleted" => stops > 0

InsideKept ==
    /\ \A s \in Sections :
          /\ \A t \in Threads : inside[t][s] = IF holder[s] = t THEN count[s] ELSE 0
          /\ holder[s] = null => count[s] = 0
          /\ holder[s] # null => count[s] > 0 /\ mutex[s] = "recursive"
    /\ \A t \in Threads : Exiting(t) => inside[t][dcs[t]] > 0

\* CS!FlawsKnown
FlawsNamed ==
    /\ flaw = "raw" => \E t \in Threads : Half(t) /\ mutex[dcs[t]] = "raw"
    /\ flaw = "deleted" => stops > 0

SectionData == Chained /\ NextKnown /\ MutexKnown /\ Stopped /\ InsideKept /\ FlawsNamed

SectionInv == SectionCalls /\ SectionTypes /\ SectionControl /\ SectionData

-----------------------------------------------------------------------------
(* What the steps of critical.c do                                         *)

\* t goes to step i of f, with s for an argument.
Shifts(t, f, i, s) ==
    /\ call' = [call EXCEPT ![t] = f]
    /\ pc' = [pc EXCEPT ![t] = i]
    /\ dcs' = [dcs EXCEPT ![t] = s]
    /\ UNCHANGED <<copy, dmain, stops>>

StepsTo(t, i) == Shifts(t, call[t], i, dcs[t])
Ends(t)       == Shifts(t, "none", 1, null)

\* What the steps do, apart from where they go.
AllKept ==
    UNCHANGED <<initedC, attrC, list, atexit, next, mutex, holder, count, inside, flaw>>

AttrMade ==
    /\ attrC' = "default"
    /\ UNCHANGED <<initedC, list, atexit, next, mutex, holder, count, inside, flaw>>

AttrTyped ==
    /\ attrC' = "recursive"
    /\ UNCHANGED <<initedC, list, atexit, next, mutex, holder, count, inside, flaw>>

InitedSet ==
    /\ initedC' = TRUE
    /\ UNCHANGED <<attrC, list, atexit, next, mutex, holder, count, inside, flaw>>

InitedCleared ==
    /\ initedC' = FALSE
    /\ UNCHANGED <<attrC, list, atexit, next, mutex, holder, count, inside, flaw>>

Registered ==
    /\ atexit' = TRUE
    /\ UNCHANGED <<initedC, attrC, list, next, mutex, holder, count, inside, flaw>>

GlobalMade ==
    /\ CS!Initialise(global, "plain")
    /\ UNCHANGED <<initedC, attrC, list, atexit, next, inside, flaw>>

SectionMade(t) ==
    /\ \/ CS!Initialise(dcs[t], "recursive")
       \/ CS!Initialise(dcs[t], "plain") /\ copy \in SectionsAttr /\ attrC # "recursive"
    /\ UNCHANGED <<initedC, attrC, list, atexit, next, inside, flaw>>

GlobalListed ==
    /\ list' = global
    /\ UNCHANGED <<initedC, attrC, atexit, next, mutex, holder, count, inside, flaw>>

SectionListed(t) ==
    /\ list' = dcs[t]
    /\ UNCHANGED <<initedC, attrC, atexit, next, mutex, holder, count, inside, flaw>>

HeadPopped ==
    /\ list' = next[list]
    /\ UNCHANGED <<initedC, attrC, atexit, next, mutex, holder, count, inside, flaw>>

NextSet(t) ==
    /\ next' = [next EXCEPT ![dcs[t]] = list]
    /\ UNCHANGED <<initedC, attrC, list, atexit, mutex, holder, count, inside, flaw>>

HeadDeleted ==
    /\ mutex' = [mutex EXCEPT ![list] = "deleted"]
    /\ UNCHANGED <<initedC, attrC, list, atexit, next, holder, count, inside, flaw>>

GlobalTaken(t) ==
    /\ holder[global] = null /\ holder' = [holder EXCEPT ![global] = t]
    /\ UNCHANGED <<initedC, attrC, list, atexit, next, mutex, count, inside, flaw>>

GlobalLeft ==
    /\ holder' = [holder EXCEPT ![global] = null]
    /\ UNCHANGED <<initedC, attrC, list, atexit, next, mutex, count, inside, flaw>>

SectionLocked(t) ==
    /\ (holder[dcs[t]] = null \/ holder[dcs[t]] = t)
    /\ mutex[dcs[t]] \in {"plain", "recursive"}
    /\ holder' = [holder EXCEPT ![dcs[t]] = t]
    /\ count' = [count EXCEPT ![dcs[t]] = @ + 1]
    /\ inside' = [inside EXCEPT ![t][dcs[t]] = @ + 1]
    /\ UNCHANGED <<initedC, attrC, list, atexit, next, mutex, flaw>>

NoMutexLocked(t) ==
    /\ mutex[dcs[t]] \in {"raw", "deleted"} /\ flaw' = mutex[dcs[t]]
    /\ UNCHANGED <<initedC, attrC, list, atexit, next, mutex, holder, count, inside>>

SectionUnlocked(t) ==
    /\ holder' = [holder EXCEPT ![dcs[t]] = IF count[dcs[t]] = 1 THEN null ELSE @]
    /\ count' = [count EXCEPT ![dcs[t]] = @ - 1]
    /\ inside' = [inside EXCEPT ![t][dcs[t]] = @ - 1]
    /\ UNCHANGED <<initedC, attrC, list, atexit, next, mutex, flaw>>

OnTo(t)   == CS!Goes(t, pc[t] + 1)
JumpTo(t) == CS!Goes(t, pc[t] + 1 + CS!Step(t).skip)

-----------------------------------------------------------------------------
(* Where the functions of critical.c go                                    *)

\* Where a function goes on or ends.
SGoes(t) ==
    /\ call[t] # "none"
    /\ \/ Ends(t)
       \/ \E i \in 1 .. Len(CS!Body(t)) : StepsTo(t, i)

-----------------------------------------------------------------------------
(* Places in critical.c                                                    *)

\* t has gone from its place; the others are where they were.
SOthers(t) ==
    /\ copy' = copy
    /\ \A u \in Threads \ {t} : call'[u] = call[u] /\ pc'[u] = pc[u] /\ dcs'[u] = dcs[u]

\* t is at step n of the common part of _d_criticalenter.
Stands(t, n) ==
    /\ Inner(t) <=> n \in 3 .. 7
    /\ New(t) <=> n = 4
    /\ Listed(t) <=> n \in 5 .. 8
    /\ Half(t) <=> n \in 5 .. 6
    /\ ~Early(t) /\ ~Exiting(t)

\* t is elsewhere, but not in _d_criticalexit.
Outside(t) == ~Inner(t) /\ ~New(t) /\ ~Listed(t) /\ ~Half(t) /\ ~Exiting(t)

-----------------------------------------------------------------------------
(* What keeps the data of critical.c                                       *)

\* Nothing of a section changes, but perhaps of critical_section.
SectionsStay ==
    /\ next' = next /\ inside' = inside /\ flaw' = flaw
    /\ \A s \in Sections : mutex'[s] = mutex[s] /\ holder'[s] = holder[s] /\ count'[s] = count[s]

\* The thread that has moved is where the data has it.
Placed(t) ==
    /\ New(t)' => next'[dcs'[t]] = null
    /\ Listed(t)' => next'[dcs'[t]] # null
    /\ Half(t)' => mutex'[dcs'[t]] = "raw"
    /\ Exiting(t)' => inside'[t][dcs'[t]] > 0

\* The shutdowns are counted.
StopsKnown ==
    /\ stops \in Nat /\ stops' \in Nat /\ stops' >= stops
    /\ call'[Main] = "term" => stops' > 0

-----------------------------------------------------------------------------
(* The functions of critical.c keep what is said of them                   *)

\* Nothing that the data knows of.
Aside == AllKept \/ AttrMade \/ AttrTyped \/ InitedSet \/ InitedCleared \/ Registered \/ GlobalListed

-----------------------------------------------------------------------------
(* Calls of critical.c                                                     *)

\* f may be called with s.
SMayCall(t, f, s) ==
    /\ f \in {"init", "term", "enter", "exit"}
    /\ f \in {"init", "term"} => t = Main /\ s = null
    /\ f \in {"enter", "exit"} => s \in Sections
    /\ f = "exit" => inside[t][s] > 0
    /\ f = "term" => stops' > 0 /\ \A u \in Threads : /\ call[u] = "none"
                                                    /\ \A x \in Sections : inside[u][x] = 0
    /\ f = "enter" => list # null \/ (t = Main /\ copy \notin SectionsWin32)
    /\ f = "enter" => call[Main] \notin {"init", "term"}

-----------------------------------------------------------------------------
(* What follows from the invariants                                        *)

\* No thread is in a call of both files.
OneCall == \A t \in Threads : OM!Idle(t) \/ CS!Idle(t)

-----------------------------------------------------------------------------
(* The invariant of the list of critical.c                                 *)

\* c leads from critical_section, the list's end, to its head in k steps.
Chain(c, k) ==
    /\ c \in [Nat -> Sections \cup {global}] /\ k \in Nat
    /\ c[0] = global /\ c[k] = list
    /\ \A i \in 1 .. k : c[i] \in Sections /\ next[c[i]] = c[i - 1]
    /\ \A i, j \in 1 .. k : c[i] = c[j] => i = j

Members(c, k) == {c[i] : i \in 1 .. k}

\* The sections that have a next already and are not in the list yet.
Linking == {dcs[t] : t \in {u \in Threads : AtEnter(u, 5)}}

\* _STD_critical_term is about to take the head off.
Popping == call[Main] = "term" /\ pc[Main] = IF copy \in SectionsWin32 THEN 5 ELSE 4

NoMutex(x) == mutex[x] \in {"raw", "deleted"}

\* Before the first shutdown every section that has a next is in the list, but the
\* one that is being put there, and that one stands before the head.
FirstChain ==
    stops = 0 /\ list # null =>
        \E k \in Nat, c \in [Nat -> Sections \cup {global}] :
            /\ Chain(c, k)
            /\ \A s \in Sections : s \in Members(c, k) <=> next[s] # null /\ s \notin Linking

LinkedToHead == \A s \in Linking : next[s] = list

Unlisted == stops = 0 /\ list = null => \A s \in Sections : next[s] = null

\* The first shutdown has left no mutex but those that are in the list still.
HeadDone == Popping => mutex[list] = "deleted"

Walk ==
    stops = 1 /\ call[Main] = "term" /\ list # null =>
        \E k \in Nat, c \in [Nat -> Sections \cup {global}] :
            /\ Chain(c, k)
            /\ \A s \in Sections : NoMutex(s) \/ s \in Members(c, k)

NoneLeft ==
    stops <= 1 /\ list = null =>
        /\ \A s \in Sections : NoMutex(s)
        /\ NoMutex(global) \/ call[Main] \in {"init", "enter"}

ListInv == FirstChain /\ LinkedToHead /\ Unlisted /\ HeadDone /\ Walk /\ NoneLeft

-----------------------------------------------------------------------------
(* What the steps of critical.c do to the list                             *)

ListStays ==
    /\ list' = list /\ next' = next /\ Linking' = Linking /\ ~Popping'
    /\ call'[Main] = "term" => call[Main] = "term"
    /\ call'[Main] = "term" \/ list = null => \A s \in Sections : mutex'[s] = mutex[s]
    /\ list = null /\ call'[Main] \notin {"init", "enter"} =>
          mutex'[global] = mutex[global] /\ call[Main] \notin {"init", "enter"}

ListBegins ==
    /\ list = null /\ list' = global /\ next' = next /\ Linking' = {}
    /\ call'[Main] # "term"

ListLinks(x) ==
    /\ list # null /\ next[x] = null
    /\ next' = [next EXCEPT ![x] = list] /\ list' = list
    /\ Linking = {} /\ Linking' = {x} /\ call'[Main] # "term"

ListGrows(x) ==
    /\ list # null /\ next[x] # null
    /\ list' = x /\ next' = next
    /\ Linking = {x} /\ Linking' = {} /\ call'[Main] # "term"

HeadGoes ==
    /\ list # null /\ list' = list /\ next' = next /\ Linking' = {}
    /\ mutex' = [mutex EXCEPT ![list] = "deleted"]
    /\ call[Main] = "term"

ListShrinks ==
    /\ list # null /\ list' = next[list] /\ next' = next /\ Linking' = {}
    /\ mutex' = mutex
    /\ Popping /\ ~Popping'

ListStep ==
    \/ ListStays \/ ListBegins \/ HeadGoes \/ ListShrinks
    \/ \E x \in Sections : ListLinks(x) \/ ListGrows(x)

-----------------------------------------------------------------------------
(* The sections that the list leads through                                *)

\* The body of CS!InList.
Led(g, n) == IF n = 0 THEN {list} ELSE g[n - 1] \cup {next[x] : x \in g[n - 1] \ {null}}

\* The sections that n steps from the head of a chain lead through.
LedThrough(c, k, n) ==
    IF n <= k THEN {c[i] : i \in k - n .. k} ELSE {c[i] : i \in 0 .. k} \cup {null}
=============================================================================
