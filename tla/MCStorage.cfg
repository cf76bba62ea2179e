SPECIFICATION Spec
CONSTANTS
    r1 = r1
    r2 = r2
    r3 = r3
    h1 = h1
    h2 = h2
    Rows = {r1, r2, r3}
    Hashes = {h1, h2}
    Hash <- MCHash
    HasPk = TRUE
    None = None
    Torn = Torn
    Unset = Unset
    Junk = Junk
    LazyWrites = FALSE
    UnpersistedAppends = FALSE
    KillInOperation = TRUE
INVARIANTS
    AckedRowsKept
    IndexComplete
    RowCountRight
    PersistedOnDisk
