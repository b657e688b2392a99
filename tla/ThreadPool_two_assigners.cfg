SPECIFICATION Spec
CONSTANTS
    Workers = {w1, w2}
    Clients = {"c1", "c2"}
    Calls <- CallsAssign
    Jobs = {j1, j2}
    null = null
INVARIANT AssignedJobTaken
CHECK_DEADLOCK FALSE
