SPECIFICATION FairSpec
CONSTANTS
    e1 = e1
    e2 = e2
    e3 = e3
    e4 = e4
    Threads = {t1, t2, t3}
    Entries <- MCEntries
    Hashes <- MCHashes
    Hash <- MCHash
    TagBits <- MCTagBits
    TagOf <- MCTagOf
    HtSize = 4
    TagFilter = TRUE
    Null = Null
INVARIANTS
    NoLostEntry
    TagCovers
    ProbeExact
PROPERTIES
    BuildEnds
    ImplementsJoinTable
