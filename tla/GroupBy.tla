------------------------------ MODULE GroupBy --------------------------------
(***************************************************************************)
(* What a hash aggregation promises: rows are consumed in any order, and   *)
(* when all have been, there is one group per key, with every row of the   *)
(* key counted once.                                                       *)
(***************************************************************************)
EXTENDS Integers, FiniteSets

CONSTANTS Rows, KeyOf, Null

VARIABLES
    todo,      \* rows not consumed yet
    groups     \* the result, as pairs of a key and its aggregate

vars == <<todo, groups>>

Aggregate(k) == [r \in Rows |-> IF KeyOf[r] = k THEN 1 ELSE 0]

Init == todo = Rows /\ groups = Null

Consume ==
    /\ groups = Null
    /\ \E r \in todo : todo' = todo \ {r}
    /\ UNCHANGED groups

Finish ==
    /\ todo = {}
    /\ groups = Null
    /\ groups' = {<<KeyOf[r], Aggregate(KeyOf[r])>> : r \in Rows}
    /\ UNCHANGED todo

Next == Consume \/ Finish

Spec == Init /\ [][Next]_vars
=============================================================================
