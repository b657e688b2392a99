SPECIFICATION FairSpec
CONSTANTS
    Threads = {t1, t2, t3, t4, t5}
    WaitMayThrow = {"PREFER_READERS"}
INVARIANTS
    MutualExclusion
    CountersAgree
    ReadersAlerted
    WriterAlerted
PROPERTIES
    ImplementsRWLock
    ImplementsFairRWLock
    ReaderNotStarved
    WritersNotStarved
