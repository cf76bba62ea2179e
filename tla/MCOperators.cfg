CONSTANTS
    NULL = NULL
    MaxSubGraphs = 7
    Queries <- MCQueries
    HashSize = 5
    Row <- MCRow
    MaxCopies = 2
SPECIFICATION MCSpec
CHECK_DEADLOCK FALSE
INVARIANTS
    ResultIsJoin
    MarkersAreMatches
    ResultIsSetOperation
    ColumnsProvided
    ResultIsQuery
    OrdersFound
