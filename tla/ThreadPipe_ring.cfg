SPECIFICATION FairSpec
CONSTANTS
    Readers = {t1, t2}
    Writers = {t2, t3}
    Bytes = {0, 1}
    BufferSize = 3
    MaxRequest = 2
    Eof = Eof
INVARIANTS
    SleepersHaveToWait
PROPERTIES
    ImplementsBytePipe
    ImplementsServe
