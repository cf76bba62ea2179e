---------------------------- MODULE ChainedTable -----------------------------
(***************************************************************************)
(* Operators shared by the hash tables of aggregations (Hashtable and      *)
(* PreAggregationHashtable): tagged slot pointers, chains of entries, and  *)
(* aggregates.                                                             *)
(*                                                                         *)
(* An entry is named after the row that made it: the row fixes its key and *)
(* its hash.  An aggregate is the bag of rows that went into it, so that a *)
(* row lost and a row counted twice both show.                             *)
(***************************************************************************)
EXTENDS Integers, Sequences, FiniteSets

CONSTANTS
    Rows,       \* input rows of the aggregation
    Keys,       \* group-by keys
    KeyOf,      \* the key of a row
    Hash,       \* hash value of a key
    TagOf,      \* hash & tagMask, as a set of bits
    Null,
    Threads,            \* the workers
    InitialCapacity,    \* of a Hashtable: 4 in generated code; slots are twice as many
    numOutputs,         \* partitions of a PreAggregationHashtable (64)
    hashtableSize       \* slots of a fragment's cache (1024)

ASSUME ChainedTableAssumption ==
    /\ KeyOf \in [Rows -> Keys]
    /\ Hash \in [Keys -> Nat]
    /\ DOMAIN TagOf = {Hash[k] : k \in Keys}
    /\ Null \notin Rows /\ Null \notin Threads
    /\ IsFiniteSet(Rows)
    /\ {InitialCapacity, numOutputs, hashtableSize} \subseteq Nat \ {0}

(* entry->hashValue *)
hashValue(e) == Hash[KeyOf[e]]

NullPtr == [ptr |-> Null, tag |-> {}]

(* Slip: the chain's tag bits dropped *)
tagForgetful(e, previous, h) == [ptr |-> e, tag |-> TagOf[h]]

(* runtime::tag *)
tag(e, previous, h) == [ptr |-> e, tag |-> previous.tag \cup TagOf[h]]

(* runtime::untag *)
untag(p) == p.ptr

(* util.filter_tagged_ptr of generated code *)
filterTagged(p, h) == IF TagOf[h] \subseteq p.tag THEN p.ptr ELSE Null

(* FixedSizedBuffer::createZeroed *)
zeroed(size) == [s \in 0 .. size - 1 |-> NullPtr]

NoNext == [e \in Rows |-> Null]

(* Put an entry in front of the chain of a slot *)
push(T, pos, e) ==
    [T EXCEPT !.slots[pos] = tag(e, T.slots[pos], hashValue(e)),
              !.next[e] = untag(T.slots[pos])]

(* The comparison of a chain walk: hash first, then the key's equality *)
matches(e, k) == hashValue(e) = Hash[k] /\ KeyOf[e] = k

(* The chain walk: the first entry from `first` on that matches, or Null *)
find(next, first, k) ==
    LET walk[e \in Rows \cup {Null}] ==
            IF e = Null \/ matches(e, k) THEN e ELSE walk[next[e]]
    IN  walk[first]

(* Aggregates: the initial value, the reduction of a row, and combineFn *)
initial == [x \in Rows |-> 0]
reduce(a, r) == [a EXCEPT ![r] = @ + 1]
combine(a, b) == [x \in Rows |-> a[x] + b[x]]

-----------------------------------------------------------------------------
(* The shape of a table whose entries v[1], ..., v[n] have been pushed in this *)
(* order, entry e at slot at[e]: a slot points to the latest of its entries,   *)
(* an entry to the latest before it, and a slot's tag covers all of them.      *)

Latest(p, v, n, at, s) ==
    \/ p = Null /\ \A j \in 1 .. n : at[v[j]] # s
    \/ \E i \in 1 .. n : p = v[i] /\ at[v[i]] = s /\ \A j \in i + 1 .. n : at[v[j]] # s

Linked(T, v, n, at) ==
    /\ \A s \in DOMAIN T.slots : Latest(T.slots[s].ptr, v, n, at, s)
    /\ \A i \in 1 .. n : Latest(T.next[v[i]], v, i - 1, at, at[v[i]])
    /\ \A i \in 1 .. n : TagOf[hashValue(v[i])] \subseteq T.slots[at[v[i]]].tag

(* A group has one entry *)
OneEach(v) == \A i, j \in DOMAIN v : KeyOf[v[i]] = KeyOf[v[j]] => i = j

(* The table T of the entries v *)
Chained(T, v, at) ==
    /\ v \in Seq(Rows) /\ OneEach(v)
    /\ T.next \in [Rows -> Rows \cup {Null}]
    /\ \A e \in Rows : (\A i \in DOMAIN v : v[i] # e) => T.next[e] = Null
    /\ Linked(T, v, Len(v), at)

(* Every row but those of left is counted once, in one of the holders, whose   *)
(* aggregates are bag and which have the row's key.                            *)
CountedOnce(holders, bag, key, left) ==
    /\ \A h \in holders : \A x \in Rows :
          bag[h][x] = 0 \/ (bag[h][x] = 1 /\ x \notin left /\ KeyOf[x] = key[h])
    /\ \A x \in Rows \ left : \E h \in holders : bag[h][x] = 1
    /\ \A g, h \in holders : \A x \in Rows : bag[g][x] = 1 /\ bag[h][x] = 1 => g = h
=============================================================================
