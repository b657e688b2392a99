SPECIFICATION FairSpec
CONSTANTS
    Threads = {t1, t2, t3, t4, t5}
    Limit = 3
    GroupMod = 3
INVARIANTS
    CountAgrees
    NobodyLeftAsleep
PROPERTIES
    ImplementsGroupBarrier
    ImplementsEveryoneLeaves
