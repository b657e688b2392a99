SPECIFICATION FairSpec
CONSTANTS
    Workers = {w1, w2}
    Clients = {"c1", "c2"}
    Calls <- CallsAll
    Jobs = {j1, j2, j3}
    null = null
INVARIANTS
    WorkSeen
    AssignedJobTaken
    FinishRunsAll
PROPERTIES
    ImplementsJobPool
    ImplementsDiligent
    AssignReturns
    CloseReturns
CHECK_DEADLOCK FALSE
