SPECIFICATION FairSpec
CONSTANTS
    Workers = {w1}
    Clients = {"c1", "c2"}
    Calls <- CallsAssignFinish
    Jobs = {j1, j2}
    null = null
PROPERTY CloseReturns
CHECK_DEADLOCK FALSE
