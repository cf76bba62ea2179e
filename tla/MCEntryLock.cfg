SPECIFICATION FairSpec
CONSTANTS
    x1 = x1
    x2 = x2
    x3 = x3
    x4 = x4
    Threads = {t1, t2, t3}
    Tuples <- MCTuples
    N = 2
    Target <- MCTarget
INVARIANTS
    MutualExclusion
    ChainKept
PROPERTIES
    ReductionIsAtomic
    AllDone
