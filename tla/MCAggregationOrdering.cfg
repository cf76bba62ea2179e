CONSTANTS
    Null = Null
    Undef = Undef
    MaxInt = 7
    NoLimit = NoLimit
    NoWindow = NoWindow
    Width = 4
    Threads = {t1, t2}
    Queries <- MCQueries
    Tables <- MCTables
SPECIFICATION MCSpec
CHECK_DEADLOCK FALSE
INVARIANTS
    ResultIsAggregate
    PartialsCombine
    ResultIsOrdered
    WindowValuesAreFrames
