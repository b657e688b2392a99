--------------------------- MODULE MCRuntimeLocks ---------------------------
EXTENDS RuntimeLocks, TLC

MB == INSTANCE MonitorBuilds
CB == INSTANCE CriticalBuilds

\* Each runtime, and the proposal with the critical.c that it leaves in place.
Runtimes ==
    <<<<"DmdWin32", "DmdWin32">>, <<"DmdPosix", "DmdPosix">>,
      <<"GdcWin32", "GdcWin32">>, <<"GdcPosix", "GdcPosix">>,
      <<"GdcAlreadyRecursive", "GdcAlreadyRecursive">>,
      <<"LdcWin32", "LdcWin32">>, <<"LdcPosix", "LdcPosix">>,
      <<"ProposedDmdWin32", "DmdWin32">>, <<"ProposedDmdPosix", "DmdPosix">>,
      <<"ProposedGdcWin32", "GdcWin32">>, <<"ProposedGdcPosix", "GdcPosix">>,
      <<"ProposedGdcAlreadyRecursive", "GdcAlreadyRecursive">>>>

Code(r) == <<MB!MonitorCode[r[1]], CB!CriticalCode[r[2]], r[1] \in DOMAIN MB!ShippedCopies>>

\* Runtimes of the same code are checked once.
DifferentRuntimes ==
    {Runtimes[i] : i \in {j \in DOMAIN Runtimes :
        \A k \in 1 .. j - 1 : Code(Runtimes[k]) # Code(Runtimes[j])}}

Alike == Permutations(Monitors) \cup Permutations(Objects) \cup Permutations(Sections)
=============================================================================
