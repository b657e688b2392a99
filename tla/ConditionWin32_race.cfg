SPECIFICATION FairSpec
CONSTANTS
    Waiters = {w1, w2}
    Timed = {w1, w2}
    Notifiers = {n1}
    None = None
    TimedAlone = FALSE
    GoneLimit = 10
    GoneBound = 4
PROPERTY TimedWaitReturns
CHECK_DEADLOCK FALSE
