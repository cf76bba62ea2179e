------------------------- MODULE MCHashAggregation --------------------------
(***************************************************************************)
(* Instances of the two hash tables of parallel aggregations, of which one *)
(* execution uses one.  Five rows of four keys; a fifth key has no row.    *)
(*                                                                         *)
(* In the Hashtable two keys have the same hash, two the same slot of the  *)
(* full-grown table, and behind the tag and slot of the fifth key there    *)
(* are others.  The PreAggregationHashtable has four partitions: keys a, b *)
(* and c share the only cache slot and fall into partition 0, b and c with *)
(* the same hash; d is alone in partition 1, the fifth key belongs to the  *)
(* empty partition 2, and partition 3 is empty as well.                    *)
(***************************************************************************)
EXTENDS HashAggregation

CONSTANTS r1, r2, r3, r4, r5, ka, kb, kc, kd, ke

MCKeyOf == (r1 :> ka) @@ (r2 :> kb) @@ (r3 :> ka) @@ (r4 :> kc) @@ (r5 :> kd)
MCHash == (ka :> 1) @@ (kb :> 3) @@ (kc :> 3) @@ (kd :> 9) @@ (ke :> 11)
MCTagOf == (1 :> {48}) @@ (3 :> {49}) @@ (9 :> {50}) @@ (11 :> {49})
MCPartitionHash == (ka :> 8) @@ (kb :> 16) @@ (kc :> 16) @@ (kd :> 5) @@ (ke :> 18)
MCPartitionTag == (8 :> {48}) @@ (16 :> {49}) @@ (5 :> {48, 49}) @@ (18 :> {49})
=============================================================================
