SPECIFICATION Spec
CONSTANTS
    short = short
    long = long
    Threads = {t1, t2}
    Content = {short, long}
    Size <- Sizes
    HeaderSize = 2
    Lookalikes <- EqualHalves
    Space = 6
    Limit = 6
INVARIANTS
    FileUsable
PROPERTIES
    ImplementsRecordStack
CHECK_DEADLOCK FALSE
