---------------------------- MODULE MonitorBuilds ----------------------------
(***************************************************************************)
(* The copies of monitor.c, which stands behind synchronized methods and   *)
(* synchronized (object) statements: three compilers, two systems, gdc on  *)
(* systems whose mutexes are recursive already (ALREADY_RECURSIVE), and    *)
(* the copies that the proposal for integrated locks puts in their place.  *)
(*                                                                         *)
(* A copy is the record of its functions.  Steps are named after what they *)
(* do: "lock" is EnterCriticalSection on Win32 and pthread_mutex_lock with *)
(* pthreads.  calloc does not fail.                                        *)
(***************************************************************************)
EXTENDS StepPrograms

-----------------------------------------------------------------------------
(* The forms that the functions take                                       *)

StaticCtor == <<If("not inited", 2), Do("init critsec"), Do("set inited")>>

StaticDtor == <<If("inited", 2), Do("clear inited"), Do("delete critsec")>>

\* Mutant: the attribute object does not get its type.
StaticCtorAttr_NoType ==
    <<If("not inited", 3), Do("init attr"), Do("init critsec"), Do("set inited")>>

StaticCtorAttr ==
    <<If("not inited", 4), Do("init attr"), Do("set type of attr"), Do("init critsec"),
                           Do("set inited")>>

StaticDtorAttr ==
    <<If("inited", 3), Do("clear inited"), Do("delete critsec"), Do("delete attr")>>

\* Mutant: critsec is released by the thread that made the monitor only.
Create_UnlockInside(init) ==
    <<Do("lock critsec"),
      If("no monitor", 5), Do("calloc"), Do(init), Do("set monitor"), Do("forget cs"),
                           Do("unlock critsec"),
      If("cs", 1), Do("free cs")>>

\* _d_monitor_create: init is the way a mutex is initialised.
Create(init) ==
    <<Do("lock critsec"),
      If("no monitor", 4), Do("calloc"), Do(init), Do("set monitor"), Do("forget cs"),
      Do("unlock critsec"),
      If("cs", 1), Do("free cs")>>

Shipped(ctor, dtor, create) ==
    [staticctor |-> ctor, staticdtor |-> dtor, create |-> create,
     destroy    |-> <<Do("delete mutex"), Do("free monitor"), Do("clear monitor")>>,
     lock       |-> <<Do("lock mutex")>>,
     unlock     |-> <<Do("unlock mutex")>>]

-----------------------------------------------------------------------------
(* The copies the runtimes are built of                                    *)

DmdWin32 == Shipped(StaticCtor, StaticDtor, Create("init mutex"))
DmdPosix == Shipped(StaticCtorAttr, StaticDtorAttr, Create("init mutex of attr"))

\* Mutant: the object is not looked at again with critsec held.
GdcWin32_NoSecondTest == Shipped(StaticCtor, StaticDtor,
    <<Do("lock critsec"), Do("calloc"), Do("init mutex"), Do("set monitor"), Do("forget cs"),
      Do("unlock critsec"), If("cs", 1), Do("free cs")>>)

GdcWin32 == Shipped(StaticCtor, StaticDtor, Create("init mutex"))
GdcPosix == Shipped(StaticCtorAttr, StaticDtorAttr, Create("init mutex of attr"))

\* With PTHREAD_MUTEX_ALREADY_RECURSIVE there is no attribute object, and the
\* global mutex is not destroyed.
GdcAlreadyRecursive ==
    Shipped(StaticCtor, <<If("inited", 1), Do("clear inited")>>, Create("init mutex"))

LdcWin32 == Shipped(StaticCtor, StaticDtor, Create("init mutex"))

\* Mutant: the monitor is set before its mutex is initialised.
LdcPosix_SetFirst == Shipped(StaticCtorAttr, StaticDtorAttr,
    <<Do("lock critsec"),
      If("no monitor", 4), Do("calloc"), Do("set monitor"), Do("init mutex of attr"),
                           Do("forget cs"),
      Do("unlock critsec"), If("cs", 1), Do("free cs")>>)

LdcPosix == Shipped(StaticCtorAttr, StaticDtorAttr, Create("init mutex of attr"))

-----------------------------------------------------------------------------
(* The copies of the proposal                                              *)

\* What _d_monitorenter and _d_monitorget begin with.
CreateFirst(init) ==
    <<If("no monitor", 9),
        Do("calloc"),
        Do("lock critsec"),
        If("no monitor", 3), Do("set monitor"), Do(init), Do("forget cs"),
        Do("unlock critsec"),
        If("cs", 1), Do("free cs")>>

\* Mutant: the monitor that another thread's made superfluous is not freed.
ProposedEnter_Leaks(init) ==
    <<If("no monitor", 7),
        Do("calloc"),
        Do("lock critsec"),
        If("no monitor", 3), Do("set monitor"), Do(init), Do("forget cs"),
        Do("unlock critsec"),
      Do("lock mutex")>>

ProposedEnter(init) ==
    <<If("no monitor", 9),
        Do("calloc"),
        Do("lock critsec"),
        If("no monitor", 3), Do("set monitor"), Do(init), Do("forget cs"),
        Do("unlock critsec"),
        If("cs", 1), Do("free cs"),
      Do("lock mutex")>>

Proposed(ctor, dtor, init) ==
    [staticctor |-> ctor, staticdtor |-> dtor,
     enter      |-> ProposedEnter(init),
     exit       |-> <<Do("unlock mutex")>>,
     get        |-> CreateFirst(init),
     release    |-> <<If("monitor", 3), Do("delete mutex"), Do("free monitor"),
                                        Do("clear monitor")>>]

ProposedDmdWin32 == Proposed(StaticCtor, StaticDtor, "init mutex")
ProposedDmdPosix == Proposed(StaticCtorAttr, StaticDtorAttr, "init mutex of attr")
ProposedGdcWin32 == Proposed(StaticCtor, StaticDtor, "init mutex")
ProposedGdcPosix == Proposed(StaticCtorAttr, StaticDtorAttr, "init mutex of attr")
ProposedGdcAlreadyRecursive ==
    Proposed(StaticCtor, <<If("inited", 1), Do("clear inited")>>, "init mutex")

-----------------------------------------------------------------------------
(* The copies by their names                                               *)

ShippedCopies ==
    [DmdWin32 |-> DmdWin32, DmdPosix |-> DmdPosix,
     GdcWin32 |-> GdcWin32, GdcPosix |-> GdcPosix, GdcAlreadyRecursive |-> GdcAlreadyRecursive,
     LdcWin32 |-> LdcWin32, LdcPosix |-> LdcPosix]

ProposedCopies ==
    [ProposedDmdWin32 |-> ProposedDmdWin32, ProposedDmdPosix |-> ProposedDmdPosix,
     ProposedGdcWin32 |-> ProposedGdcWin32, ProposedGdcPosix |-> ProposedGdcPosix,
     ProposedGdcAlreadyRecursive |-> ProposedGdcAlreadyRecursive]

MonitorCode ==
    [b \in DOMAIN ShippedCopies \cup DOMAIN ProposedCopies |->
        IF b \in DOMAIN ShippedCopies THEN ShippedCopies[b] ELSE ProposedCopies[b]]
=============================================================================
