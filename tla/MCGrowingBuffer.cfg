SPECIFICATION FairSpec
CONSTANTS
    Threads = {t1, t2}
    Source <- MCSource
    InitialCapacity = 1
    ChunkSize = 2
    Null = Null
INVARIANTS
    InsertInRoom
    ResultComplete
    VisitedOnce
PROPERTIES
    IterationEnds
CHECK_DEADLOCK FALSE
