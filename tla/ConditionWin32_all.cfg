SPECIFICATION FairSpec
CONSTANTS
    Waiters = {w1, w2, w3, w4}
    Timed = {w1}
    Notifiers = {n1, n2, n3}
    None = None
    TimedAlone = TRUE
    GoneLimit = 3
    GoneBound = 9
INVARIANTS
    WaitersAccounted
    GateKept
PROPERTIES
    ImplementsConditionVariable
    GateOpens
    TimedWaitReturns
CHECK_DEADLOCK FALSE
