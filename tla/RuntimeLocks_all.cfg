SPECIFICATION Spec
CONSTANTS
    Threads = {t1, t2}
    Main = t1
    Objects = {o1, o2}
    Monitors = {m1, m2}
    Sections = {s1, s2}
    global = global
    null = null
    Programs <- DifferentRuntimes
    MaxLocks = 2
    MaxNesting = 2
    MaxStops = 1
SYMMETRY Alike
INVARIANTS
    HolderMayReenter
    BlocksAccounted
    ListWhole
    FlawsKnown
    InternalLocksBrief
PROPERTY ImplementsRecursiveLocks
CHECK_DEADLOCK FALSE
