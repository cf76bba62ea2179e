------------------------------ MODULE Hashtable ------------------------------
(***************************************************************************)
(* Parallel aggregation with runtime::Hashtable: every worker has a table  *)
(* of its own, which doubles as it fills; at the end of the pipeline the   *)
(* tables are merged into the first one, which is then looked up in.       *)
(***************************************************************************)
EXTENDS ChainedTable, SequencesExt

VARIABLES
    todo,      \* rows of the pipeline's source that are left
    tables,    \* thread-local tables
    used,      \* workers whose table has been created
    first,     \* the table merged into
    pending,   \* entries of the table being merged that are left
    phase,     \* "build", "merge", "done"
    probe      \* the last lookup in the merged table

vars == <<todo, tables, used, first, pending, phase, probe>>

size(T) == Cardinality(DOMAIN T.slots)
pos(T, h) == h % size(T)

(* The constructor: values is the entries' FlexibleBuffer, in iteration order *)
newTable ==
    [slots |-> zeroed(2 * InitialCapacity), next |-> NoNext, values |-> <<>>,
     agg |-> [e \in Rows |-> initial]]

resizeNoRehash(T) ==
    [T EXCEPT !.slots = [s \in 0 .. 2 * size(T) - 1 |-> IF s < size(T) THEN T.slots[s] ELSE NullPtr]]

(* Hashtable::resize: twice as many slots, zeroed, and every entry pushed again *)
resize(T) ==
    LET pushed[n \in 0 .. Len(T.values)] ==
            IF n = 0 THEN [T EXCEPT !.slots = zeroed(2 * size(T))]
            ELSE push(pushed[n - 1], pos(pushed[n - 1], hashValue(T.values[n])), T.values[n])
    IN  pushed[Len(T.values)]

(* Hashtable::insert *)
insert(T, e) ==
    LET R == IF Len(T.values) > (size(T) - 1) \div 2 THEN resize(T) ELSE T
    IN  [push(R, pos(R, hashValue(e)), e) EXCEPT !.values = Append(@, e)]

(* The generated lookup: slot, tag filter, chain walk *)
lookup(T, k) == find(T.next, filterTagged(T.slots[pos(T, Hash[k])], Hash[k]), k)

(* subop.lookup_or_insert followed by the reduction of the row *)
lookupOrInsert(T, r) ==
    LET e == lookup(T, KeyOf[r])
        R == IF e = Null THEN insert(T, r) ELSE T
        target == IF e = Null THEN r ELSE e
    IN  [R EXCEPT !.agg[target] = reduce(@, r)]

(* Hashtable::mergeEntries, for one entry e of the other table: combine with   *)
(* the entry of its key, or copy it.  (The C++ filterTagged compares the       *)
(* hash's tag with itself and so never filters.)                               *)
mergeEntry(T, e, a) ==
    LET c == find(T.next, untag(T.slots[pos(T, hashValue(e))]), KeyOf[e])
    IN  IF c # Null THEN [T EXCEPT !.agg[c] = combine(@, a)]
        ELSE [insert(T, e) EXCEPT !.agg[e] = a]

-----------------------------------------------------------------------------
Init ==
    /\ todo = Rows
    /\ tables = [t \in Threads |-> newTable]
    /\ used = {}
    /\ first = Null
    /\ pending = [from |-> Null, entries |-> <<>>]
    /\ phase = "build"
    /\ probe = [key |-> Null, entry |-> Null]

(* A worker takes a row; its table is created when it takes its first *)
Consume(t) ==
    /\ phase = "build"
    /\ \E r \in todo :
          /\ todo' = todo \ {r}
          /\ tables' = [tables EXCEPT ![t] = lookupOrInsert(@, r)]
    /\ used' = used \cup {t}
    /\ UNCHANGED <<first, pending, phase, probe>>

(* Hashtable::merge: getTls creates a table if no worker has; the first one   *)
(* of the enumeration is merged into                                         *)
StartMerge ==
    /\ phase = "build"
    /\ todo = {}
    /\ \E t \in IF used = {} THEN Threads ELSE used :
          first' = t /\ used' = used \ {t}
    /\ phase' = "merge"
    /\ UNCHANGED <<todo, tables, pending, probe>>

(* Its loop goes on to the next table *)
NextTable ==
    /\ phase = "merge"
    /\ pending.entries = <<>>
    /\ \E t \in used :
          /\ pending' = [from |-> t, entries |-> tables[t].values]
          /\ used' = used \ {t}
    /\ UNCHANGED <<todo, tables, first, phase, probe>>

(* The callback of mergeEntries *)
MergeEntry ==
    LET e == Head(pending.entries) IN
    /\ phase = "merge"
    /\ pending.entries # <<>>
    /\ tables' = [tables EXCEPT ![first] = mergeEntry(@, e, tables[pending.from].agg[e])]
    /\ pending' = [pending EXCEPT !.entries = Tail(@)]
    /\ UNCHANGED <<todo, used, first, phase, probe>>

EndMerge ==
    /\ phase = "merge"
    /\ pending.entries = <<>>
    /\ used = {}
    /\ phase' = "done"
    /\ UNCHANGED <<todo, tables, used, first, pending, probe>>

(* subop.lookup in the merged table *)
Lookup(k) ==
    /\ phase = "done"
    /\ probe' = [key |-> k, entry |-> lookup(tables[first], k)]
    /\ UNCHANGED <<todo, tables, used, first, pending, phase>>

Next ==
    \/ \E t \in Threads : Consume(t)
    \/ StartMerge \/ NextTable \/ MergeEntry \/ EndMerge
    \/ \E k \in Keys : Lookup(k)

Spec == Init /\ [][Next]_vars

-----------------------------------------------------------------------------
(* Properties *)

Entries(T) == ToSet(T.values)

(* Every entry is found again by its key, through slot, tag filter and chain, *)
(* however often the table has been resized since it was inserted.            *)
EntriesFindable ==
    \A t \in Threads : \A e \in Entries(tables[t]) : lookup(tables[t], KeyOf[e]) = e

(* A lookup in the merged table returns the group of the key if it has one.   *)
LookupRight ==
    probe.key # Null =>
        IF \E r \in Rows : KeyOf[r] = probe.key
        THEN probe.entry # Null /\ KeyOf[probe.entry] = probe.key
        ELSE probe.entry = Null

(* The merged table is the group-by of the rows, whatever the distribution of *)
(* rows to workers and the order of the merge: one group per key, complete.   *)
Abstract == INSTANCE GroupBy WITH
    groups <- IF phase = "done"
              THEN {<<KeyOf[e], tables[first].agg[e]>> : e \in Entries(tables[first])}
              ELSE Null
ImplementsGroupBy == Abstract!Spec

-----------------------------------------------------------------------------
(* The inductive invariant *)

slotOf(n) == [e \in Rows |-> hashValue(e) % n]

(* A table is well-formed; what is no entry has counted nothing. *)
TableOK(T) ==
    /\ T = [slots |-> T.slots, next |-> T.next, values |-> T.values, agg |-> T.agg]
    /\ size(T) \in Nat \ {0}
    /\ T.slots = [s \in 0 .. size(T) - 1 |-> T.slots[s]]
    /\ Chained(T, T.values, slotOf(size(T)))
    /\ T.agg \in [Rows -> [Rows -> Nat]]
    /\ \A e \in Rows : (\A i \in DOMAIN T.values : T.values[i] # e) => T.agg[e] = initial

TypeOK ==
    /\ todo \subseteq Rows
    /\ tables = [t \in Threads |-> tables[t]]
    /\ \A t \in Threads : TableOK(tables[t])
    /\ used \subseteq Threads
    /\ first \in Threads \cup {Null}
    /\ pending \in [from : Threads \cup {Null}, entries : Seq(Rows)]
    /\ phase \in {"build", "merge", "done"}

(* Only entries that are not merged yet, or are in the first table, count *)
Live(t) ==
    IF t = pending.from THEN ToSet(pending.entries)
    ELSE IF t = first \/ t \in used THEN Entries(tables[t]) ELSE {}

Holders == {h \in Threads \X Rows : h[2] \in Live(h[1])}
Counts == [h \in Threads \X Rows |-> tables[h[1]].agg[h[2]]]
HolderKey == [h \in Threads \X Rows |-> KeyOf[h[2]]]

RowsCounted == CountedOnce(Holders, Counts, HolderKey, todo)

MergeInOrder ==
    /\ phase = "build" =>
          /\ first = Null /\ pending.from = Null
          /\ \A t \in Threads \ used : tables[t].values = <<>>
    /\ phase # "build" => todo = {} /\ first \in Threads
    /\ phase = "done" => used = {} /\ pending.entries = <<>>
    /\ pending.from = Null => pending.entries = <<>>
    /\ first \notin used /\ pending.from \notin used
    /\ pending.from = first => first = Null
    /\ OneEach(pending.entries)

TableInv == TypeOK /\ RowsCounted /\ MergeInOrder /\ LookupRight
=============================================================================
