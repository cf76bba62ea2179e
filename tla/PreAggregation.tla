---------------------------- MODULE PreAggregation ---------------------------
(***************************************************************************)
(* Parallel aggregation with runtime::PreAggregationHashtable.  Every      *)
(* worker has a fragment: a small cache of one entry per slot, in which a  *)
(* collision evicts, and one output buffer per partition of the hash       *)
(* space.  An evicted group gets a second entry when its key comes again,  *)
(* so that a fragment may hold a group several times.  merge then works on *)
(* the partitions in parallel, each with a chained table of its own, and   *)
(* collects the merged entries in one buffer under a mutex.                *)
(***************************************************************************)
EXTENDS ChainedTable, SequencesExt

VARIABLES
    todo,       \* rows of the pipeline's source that are left
    ht,         \* fragment->ht: the caches
    outputs,    \* fragment->outputs: entries by partition, in buffer order
    agg,        \* the aggregate in each entry
    phase,      \* "build", "merge", "done"
    input,      \* a partition's entries that are left to merge, by fragment
    part,       \* a partition's merged table and local buffer
    buffer,     \* res->buffer: the merged entries
    probe       \* the last lookup in the merged table

vars == <<todo, ht, outputs, agg, phase, input, part, buffer, probe>>

Partitions == 0 .. numOutputs - 1

(* hash & outputMask, and the rest of the hash, hash >> htShift *)
partition(h) == h % numOutputs
shifted(h) == h \div numOutputs
cacheSlot(h) == shifted(h) % hashtableSize

(* The order in which getTls enumerates the fragments *)
order == CHOOSE o \in [Threads -> 1 .. Cardinality(Threads)] : \A t, u \in Threads : o[t] = o[u] => t = u

(* nextPow2, which is 0 for 0 *)
nextPow2(v) ==
    LET power[i \in 0 .. v] == IF i = 0 THEN 1 ELSE 2 * power[i - 1]
    IN  IF v = 0 THEN 0 ELSE CHOOSE p \in {power[i] : i \in 0 .. v} : v <= p /\ 2 * v > p

larger(a, b) == IF a > b THEN a ELSE b

(* std::max(nextPow2(totalValues * 1.25), 1ul) *)
htSize(totalValues) == larger(nextPow2((totalValues * 5) \div 4), 1)

(* The entries of a partition, of which a row makes one at most *)
entriesLeft(p) == UNION {ToSet(input[p][t]) : t \in Threads}

tableSize(T) == Cardinality(DOMAIN T.slots)

(* hash >> 6 & htMask *)
bucket(T, h) == shifted(h) % tableSize(T)

(* The generated lookup in a fragment: the cached entry if hash and key match *)
cached(t, k) ==
    LET e == ht[t][cacheSlot(Hash[k])]
    IN  IF e # Null /\ matches(e, k) THEN e ELSE Null

-----------------------------------------------------------------------------
Init ==
    /\ todo = Rows
    /\ ht = [t \in Threads |-> [s \in 0 .. hashtableSize - 1 |-> Null]]
    /\ outputs = [t \in Threads |-> [p \in Partitions |-> <<>>]]
    /\ agg = [e \in Rows |-> initial]
    /\ phase = "build"
    /\ input = [p \in Partitions |-> [t \in Threads |-> <<>>]]
    /\ part = [p \in Partitions |-> [slots |-> zeroed(0), next |-> NoNext, local |-> <<>>, task |-> "waiting"]]
    /\ buffer = <<>>
    /\ probe = [key |-> Null, entry |-> Null]

(* The row's group is in the cache: the row is reduced into it *)
Hit(t) ==
    /\ phase = "build"
    /\ \E r \in todo :
          /\ cached(t, KeyOf[r]) # Null
          /\ todo' = todo \ {r}
          /\ agg' = [agg EXCEPT ![cached(t, KeyOf[r])] = reduce(@, r)]
    /\ UNCHANGED <<ht, outputs, phase, input, part, buffer, probe>>

(* It is not: PreAggregationHashtableFragment::insert makes an entry, which   *)
(* replaces what the slot held, and the row is reduced into it                *)
Insert(t) ==
    /\ phase = "build"
    /\ \E r \in todo :
          LET h == hashValue(r) IN
          /\ cached(t, KeyOf[r]) = Null
          /\ todo' = todo \ {r}
          /\ outputs' = [outputs EXCEPT ![t][partition(h)] = Append(@, r)]
          /\ ht' = [ht EXCEPT ![t][cacheSlot(h)] = r]
          /\ agg' = [agg EXCEPT ![r] = reduce(@, r)]
    /\ UNCHANGED <<phase, input, part, buffer, probe>>

(* PreAggregationHashtable::merge collects the outputs of all fragments by partition *)
StartMerge ==
    /\ phase = "build"
    /\ todo = {}
    /\ phase' = "merge"
    /\ input' = [p \in Partitions |-> [t \in Threads |-> outputs[t][p]]]
    /\ UNCHANGED <<todo, ht, outputs, agg, part, buffer, probe>>

(* A partition's task starts: a zeroed table for all its entries *)
StartPartition(p) ==
    /\ phase = "merge"
    /\ part[p].task = "waiting"
    /\ part' = [part EXCEPT ![p] = [slots |-> zeroed(htSize(Cardinality(entriesLeft(p)))), next |-> NoNext,
                                    local |-> <<>>, task |-> "running"]]
    /\ UNCHANGED <<todo, ht, outputs, agg, phase, input, buffer, probe>>

(* The task goes through the fragments' buffers one after the other *)
Iterated(p, t) ==
    /\ phase = "merge"
    /\ part[p].task = "running"
    /\ input[p][t] # <<>>
    /\ \A u \in Threads : order[u] < order[t] => input[p][u] = <<>>

(* Slip: an entry that was combined is pushed as well *)
MergeEntryTwice(p, t) ==
    LET T == part[p]
        e == Head(input[p][t])
        b == bucket(T, hashValue(e))
        c == find(T.next, untag(T.slots[b]), KeyOf[e])
    IN
    /\ Iterated(p, t)
    /\ agg' = IF c = Null THEN agg ELSE [agg EXCEPT ![c] = combine(@, agg[e])]
    /\ part' = [part EXCEPT ![p] = [push(T, b, e) EXCEPT !.local = Append(@, e)]]
    /\ input' = [input EXCEPT ![p][t] = Tail(@)]
    /\ UNCHANGED <<todo, ht, outputs, phase, buffer, probe>>

(* The task's callback for one entry: combine it with the entry of its key,   *)
(* or put it in the table and in the local buffer                             *)
MergeEntry(p, t) ==
    LET T == part[p]
        e == Head(input[p][t])
        b == bucket(T, hashValue(e))
        c == find(T.next, untag(T.slots[b]), KeyOf[e])
    IN
    /\ Iterated(p, t)
    /\ IF c # Null
       THEN /\ agg' = [agg EXCEPT ![c] = combine(@, agg[e])]
            /\ UNCHANGED part
       ELSE /\ part' = [part EXCEPT ![p] = [push(T, b, e) EXCEPT !.local = Append(@, e)]]
            /\ UNCHANGED agg
    /\ input' = [input EXCEPT ![p][t] = Tail(@)]
    /\ UNCHANGED <<todo, ht, outputs, phase, buffer, probe>>

(* Slip: the result's buffer replaced by the partition's *)
EndPartitionReplacing(p) ==
    /\ phase = "merge"
    /\ part[p].task = "running"
    /\ entriesLeft(p) = {}
    /\ buffer' = part[p].local
    /\ part' = [part EXCEPT ![p].task = "merged"]
    /\ UNCHANGED <<todo, ht, outputs, agg, phase, input, probe>>

(* The task's end: under the mutex its buffer is put in front of the result's *)
EndPartition(p) ==
    /\ phase = "merge"
    /\ part[p].task = "running"
    /\ entriesLeft(p) = {}
    /\ buffer' = part[p].local \o buffer
    /\ part' = [part EXCEPT ![p].task = "merged"]
    /\ UNCHANGED <<todo, ht, outputs, agg, phase, input, probe>>

EndMerge ==
    /\ phase = "merge"
    /\ \A p \in Partitions : part[p].task = "merged"
    /\ phase' = "done"
    /\ UNCHANGED <<todo, ht, outputs, agg, input, part, buffer, probe>>

(* subop.lookup in the merged table: partition, bucket, tag filter, chain *)
Lookup(k) ==
    LET T == part[partition(Hash[k])] IN
    /\ phase = "done"
    /\ probe' = [key |-> k,
                 entry |-> find(T.next, filterTagged(T.slots[bucket(T, Hash[k])], Hash[k]), k)]
    /\ UNCHANGED <<todo, ht, outputs, agg, phase, input, part, buffer>>

Next ==
    \/ \E t \in Threads : Hit(t) \/ Insert(t)
    \/ StartMerge
    \/ \E p \in Partitions :
          StartPartition(p) \/ (\E t \in Threads : MergeEntry(p, t)) \/ EndPartition(p)
    \/ EndMerge
    \/ \E k \in Keys : Lookup(k)

Spec == Init /\ [][Next]_vars

-----------------------------------------------------------------------------
(* Properties *)

(* The buffer that the next pipeline scans lists a group once, although the   *)
(* fragments had several entries of it.                                       *)
GroupsListedOnce ==
    \A i, j \in DOMAIN buffer : KeyOf[buffer[i]] = KeyOf[buffer[j]] => i = j

(* A lookup in the merged table returns the group of the key if it has one,   *)
(* also when the key's partition is empty.                                    *)
LookupRight ==
    probe.key # Null =>
        IF \E r \in Rows : KeyOf[r] = probe.key
        THEN probe.entry \in ToSet(buffer) /\ KeyOf[probe.entry] = probe.key
        ELSE probe.entry = Null

(* The buffer that the next pipeline scans is the group-by of the rows: one   *)
(* entry per key, complete.                                                   *)
Abstract == INSTANCE GroupBy WITH
    groups <- IF phase = "done" THEN {<<KeyOf[e], agg[e]>> : e \in ToSet(buffer)} ELSE Null
ImplementsGroupBy == Abstract!Spec

-----------------------------------------------------------------------------
(* The inductive invariant *)

bucketOf(n) == [e \in Rows |-> shifted(hashValue(e)) % n]

TypeOK ==
    /\ todo \subseteq Rows
    /\ ht \in [Threads -> [0 .. hashtableSize - 1 -> Rows \cup {Null}]]
    /\ outputs \in [Threads -> [Partitions -> Seq(Rows)]]
    /\ agg \in [Rows -> [Rows -> Nat]]
    /\ phase \in {"build", "merge", "done"}
    /\ input \in [Partitions -> [Threads -> Seq(Rows)]]
    /\ part = [p \in Partitions |-> part[p]]
    /\ buffer \in Seq(Rows)

(* A partition's table has the entries of its local buffer. *)
PartOK(T) ==
    /\ T = [slots |-> T.slots, next |-> T.next, local |-> T.local, task |-> T.task]
    /\ T.task \in {"waiting", "running", "merged"}
    /\ T.task = "waiting" => T.local = <<>>
    /\ T.task # "waiting" =>
          /\ tableSize(T) \in Nat \ {0}
          /\ T.slots = [s \in 0 .. tableSize(T) - 1 |-> T.slots[s]]
          /\ Chained(T, T.local, bucketOf(tableSize(T)))

(* An entry is in one place of fragment buffers, in the partition of its hash *)
Placed(place) ==
    /\ \A t \in Threads : \A p \in Partitions : \A i \in DOMAIN place[p][t] :
          partition(hashValue(place[p][t][i])) = p
    /\ \A t, u \in Threads : \A p \in Partitions : \A i \in DOMAIN place[p][t], j \in DOMAIN place[p][u] :
          place[p][t][i] = place[p][u][j] => t = u /\ i = j

fragments == [p \in Partitions |-> [t \in Threads |-> outputs[t][p]]]

(* The entries that count: all at first, then those left and those merged *)
Live ==
    IF phase = "build" THEN UNION {ToSet(outputs[t][p]) : t \in Threads, p \in Partitions}
    ELSE UNION {entriesLeft(p) \cup ToSet(part[p].local) : p \in Partitions}

PartitionsApart ==
    /\ \A p \in Partitions : PartOK(part[p])
    /\ Placed(fragments) /\ Placed(input)
    /\ \A p \in Partitions : \A i \in DOMAIN part[p].local :
          /\ partition(hashValue(part[p].local[i])) = p
          /\ part[p].local[i] \notin entriesLeft(p)

MergeInOrder ==
    /\ phase = "build" => /\ \A p \in Partitions : part[p].task = "waiting"
                          /\ \A t \in Threads : \A s \in 0 .. hashtableSize - 1 : ht[t][s] \in Live \cup {Null}
    /\ phase # "build" => todo = {}
    /\ phase = "done" => \A p \in Partitions : part[p].task = "merged"
    /\ \A p \in Partitions : part[p].task = "merged" => entriesLeft(p) = {}
    /\ probe.key # Null => phase = "done"

Listed ==
    /\ ToSet(buffer) = UNION {ToSet(part[p].local) : p \in {q \in Partitions : part[q].task = "merged"}}
    /\ OneEach(buffer)

RowsCounted ==
    /\ CountedOnce(Live, agg, KeyOf, todo)
    /\ \A e \in todo : e \notin Live /\ agg[e] = initial

TableInv == TypeOK /\ PartitionsApart /\ MergeInOrder /\ Listed /\ RowsCounted /\ LookupRight
=============================================================================
