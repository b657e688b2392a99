--------------------------- MODULE CriticalBuilds ---------------------------
(***************************************************************************)
(* The copies of critical.c, which stands behind synchronized statements   *)
(* without an object: three compilers, two systems, and gdc on systems     *)
(* whose mutexes are recursive already.  Steps are named as in             *)
(* MonitorBuilds; "global" is critical_section, "list" is dcs_list.        *)
(***************************************************************************)
EXTENDS StepPrograms, Sequences

-----------------------------------------------------------------------------
(* The forms that the functions take                                       *)

\* Win32: _STI_critical_init and _STD_critical_term.
Init32 == <<If("not inited", 3), Do("init global"), Do("list global"), Do("set inited")>>

\* Mutant: the head of the list is taken off before it is deleted.
Term32_PopFirst ==
    <<If("inited", 4), Do("clear inited"),
                       If("list", 2), Do("pop list"), Last("delete head", 2)>>

Term32 ==
    <<If("inited", 4), Do("clear inited"),
                       If("list", 2), Do("delete head"), Last("pop list", 2)>>

\* pthreads.
InitAttr ==
    <<If("no list", 4), Do("init attr"), Do("set type of attr"), Do("init global"),
                        Do("list global")>>

InitNoAttr == <<If("no list", 2), Do("init global"), Do("list global")>>

TermPosix ==
    <<If("list", 3), If("list", 2), Do("delete head"), Last("pop list", 2)>>

\* Mutant: the section is not looked at again with the global lock held.
Enter_NoSecondTest(init) ==
    <<If("no next", 5),
        Do("lock global"),
        Do("set next"), Do("set list"), Do(init),
        Do("unlock global"),
      Do("lock section")>>

\* Mutant: the mutex of a new section is not initialised.
Enter_NoInit(init) ==
    <<If("no next", 5),
        Do("lock global"),
        If("no next", 2), Do("set next"), Do("set list"),
        Do("unlock global"),
      Do("lock section")>>

\* _d_criticalenter: init is the way a section's mutex is initialised.
Enter(init) ==
    <<If("no next", 6),
        Do("lock global"),
        If("no next", 3), Do("set next"), Do("set list"), Do(init),
        Do("unlock global"),
      Do("lock section")>>

\* With pthreads it looks first whether the list has been initialised.
LazyEnter(start, init) ==
    <<If("no list", Len(start) + 1)>> \o start \o <<Do("atexit")>> \o Enter(init)

Critical(start, term, enter) ==
    [init |-> start, term |-> term, enter |-> enter, exit |-> <<Do("unlock section")>>]

-----------------------------------------------------------------------------
(* The copies                                                              *)

CriticalDmdWin32 == Critical(Init32, Term32, Enter("init section"))
CriticalDmdPosix == Critical(InitAttr, TermPosix, LazyEnter(InitAttr, "init section of attr"))
CriticalGdcWin32 == Critical(Init32, Term32, Enter("init section"))
CriticalGdcPosix == Critical(InitAttr, TermPosix, LazyEnter(InitAttr, "init section of attr"))
CriticalGdcAlreadyRecursive ==
    Critical(InitNoAttr, TermPosix, LazyEnter(InitNoAttr, "init section"))
CriticalLdcWin32 == Critical(Init32, Term32, Enter("init section"))
CriticalLdcPosix == Critical(InitAttr, TermPosix, LazyEnter(InitAttr, "init section of attr"))

CriticalCode ==
    [DmdWin32 |-> CriticalDmdWin32, DmdPosix |-> CriticalDmdPosix,
     GdcWin32 |-> CriticalGdcWin32, GdcPosix |-> CriticalGdcPosix,
     GdcAlreadyRecursive |-> CriticalGdcAlreadyRecursive,
     LdcWin32 |-> CriticalLdcWin32, LdcPosix |-> CriticalLdcPosix]
=============================================================================
