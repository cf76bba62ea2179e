SPECIFICATION AggregationSpec
CONSTANTS
    r1 = r1
    r2 = r2
    r3 = r3
    r4 = r4
    r5 = r5
    ka = ka
    kb = kb
    kc = kc
    kd = kd
    ke = ke
    Rows = {r1, r2, r3, r4, r5}
    Keys = {ka, kb, kc, kd, ke}
    KeyOf <- MCKeyOf
    Hash <- MCHash
    TagOf <- MCTagOf
    PartitionHash <- MCPartitionHash
    PartitionTag <- MCPartitionTag
    Null = Null
    Threads = {t1, t2}
    InitialCapacity = 1
    numOutputs = 4
    hashtableSize = 1
INVARIANTS
    EntriesFindable
    LookupsRight
    GroupsListedOnce
PROPERTIES
    BothImplementGroupBy
