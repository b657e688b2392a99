SPECIFICATION Spec
CONSTANTS
    short = short
    long = long
    Threads = {t1, t2}
    Content = {short, long}
    Size <- Sizes
    HeaderSize = 2
    Lookalikes = {}
    Space = 6
    Limit = 6
INVARIANTS
    ReplyIsOwn
CHECK_DEADLOCK FALSE
