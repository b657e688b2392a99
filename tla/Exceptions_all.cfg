SPECIFICATION Spec
CONSTANTS
    Base <- Tree
    Functions <- AllFunctions
    Address <- Addresses
    Bottoms = {1, 2}
    Faults = {"STATUS_ACCESS_VIOLATION"}
    MaxDepth = 3
    null = null
INVARIANTS
    InnermostCatches
    FinallyInBetween
    ObjectFits
    IndexRight
CHECK_DEADLOCK FALSE
