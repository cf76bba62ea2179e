-------------------------- MODULE HashAggregation ---------------------------
(***************************************************************************)
(* The two hash tables of parallel aggregations.  A query uses one or the  *)
(* other for an aggregation, depending on its pipelines; each has hash     *)
(* values of its own here, so that instances can make both collide.        *)
(***************************************************************************)
EXTENDS Hashtable

CONSTANTS PartitionHash, PartitionTag   \* Hash and TagOf of the PreAggregationHashtable

ASSUME PartitionAssumption ==
    /\ PartitionHash \in [Keys -> Nat]
    /\ DOMAIN PartitionTag = {PartitionHash[k] : k \in Keys}

VARIABLES table,    \* the kind of table that is used
          rowsLeft, cache, outputs, aggregate, stage, input, part, buffer, found

P == INSTANCE PreAggregation WITH
    Hash <- PartitionHash, TagOf <- PartitionTag,
    todo <- rowsLeft, ht <- cache, agg <- aggregate, phase <- stage, probe <- found

preVars == <<rowsLeft, cache, outputs, aggregate, stage, input, part, buffer, found>>

AggregationInit ==
    /\ table \in {"Hashtable", "PreAggregationHashtable"}
    /\ Init
    /\ P!Init
AggregationNext ==
    \/ table = "Hashtable" /\ Next /\ UNCHANGED <<table, preVars>>
    \/ table = "PreAggregationHashtable" /\ P!Next /\ UNCHANGED <<table, vars>>
AggregationSpec == AggregationInit /\ [][AggregationNext]_<<table, vars, preVars>>

-----------------------------------------------------------------------------
(* Properties *)

(* A lookup in the merged table, or in the table of the key's partition even  *)
(* if that is empty, returns the group of the key if it has one.              *)
LookupsRight == LookupRight /\ P!LookupRight

(* The buffer that a PreAggregationHashtable passes to the next pipeline      *)
(* lists a group once, although the fragments had several entries of it.      *)
GroupsListedOnce == P!GroupsListedOnce

(* Both tables implement the group-by of the rows: one group per key,         *)
(* complete, however rows fall to workers and in whatever order they merge.   *)
BothImplementGroupBy == ImplementsGroupBy /\ P!ImplementsGroupBy
=============================================================================
