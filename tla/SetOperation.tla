---------------------------- MODULE SetOperation ----------------------------
(***************************************************************************)
(* UNION, EXCEPT and INTERSECT, with and without ALL, and SELECT DISTINCT, *)
(* as RelAlgToSubOp translates them: pipelines that insert the rows of     *)
(* both sides into one map, keyed by all columns with NULLs comparing      *)
(* equal, and a scan of the map that emits a row as often as its counters  *)
(* say.  A bag of rows is a function from rows to multiplicities.          *)
(***************************************************************************)
EXTENDS Integers

CONSTANTS Row,        \* rows with a value for every column, NULL included
          MaxCopies   \* how often a row occurs in one input

ASSUME MaxCopiesAssumption == MaxCopies \in Nat

Counting == {"except", "exceptAll", "intersect", "intersectAll"}
Operations == Counting \cup {"unionAll", "union", "distinct"}

VARIABLES op,           \* the operator
          left, right,  \* its inputs
          restL, restR, \* rows the pipelines have not read
          phase,        \* left, right, scan, done
          entries,      \* keys in the map
          counter1,     \* their counters: rows of the left side
          counter2,     \* and of the right side
          toScan,       \* entries the scan has not reached
          out           \* the result

vars == <<op, left, right, restL, restR, phase, entries, counter1, counter2, toScan, out>>

Zero == [r \in Row |-> 0]

\* DISTINCT is a projection and has one input.
Init ==
    /\ op \in Operations
    /\ left \in [Row -> 0..MaxCopies]
    /\ right \in IF op = "distinct" THEN {Zero} ELSE [Row -> 0..MaxCopies]
    /\ restL = left /\ restR = right
    /\ phase = "left"
    /\ entries = {} /\ toScan = {}
    /\ counter1 = Zero /\ counter2 = Zero /\ out = Zero

\* The entries after a row was looked up with NULLs comparing equal and, if
\* there was none, inserted; UNION ALL has no map.
LookupOrInsert(r) == IF op = "unionAll" THEN entries ELSE entries \cup {r}

\* A row of the left side: UNION ALL passes it on, the others look it up or
\* insert it, and EXCEPT and INTERSECT count it.
ReadLeft(r) ==
    /\ phase = "left" /\ restL[r] > 0
    /\ restL' = [restL EXCEPT ![r] = @ - 1]
    /\ out' = IF op = "unionAll" THEN [out EXCEPT ![r] = @ + 1] ELSE out
    /\ entries' = LookupOrInsert(r)
    /\ counter1' = IF op \in Counting THEN [counter1 EXCEPT ![r] = @ + 1] ELSE counter1
    /\ UNCHANGED <<op, left, right, restR, phase, counter2, toScan>>

EndLeft ==
    /\ phase = "left" /\ \A r \in Row : restL[r] = 0
    /\ phase' = "right"
    /\ UNCHANGED <<op, left, right, restL, restR, entries, counter1, counter2, toScan, out>>

ReadRight(r) ==
    /\ phase = "right" /\ restR[r] > 0
    /\ restR' = [restR EXCEPT ![r] = @ - 1]
    /\ out' = IF op = "unionAll" THEN [out EXCEPT ![r] = @ + 1] ELSE out
    /\ entries' = LookupOrInsert(r)
    /\ counter2' = IF op \in Counting THEN [counter2 EXCEPT ![r] = @ + 1] ELSE counter2
    /\ UNCHANGED <<op, left, right, restL, phase, counter1, toScan>>

EndRight ==
    /\ phase = "right" /\ \A r \in Row : restR[r] = 0
    /\ phase' = "scan" /\ toScan' = entries
    /\ UNCHANGED <<op, left, right, restL, restR, entries, counter1, counter2, out>>

\* Mutant: the operands of the select are swapped.
MutRepeatNum(r) ==
    LET leftVal == counter1[r]
        rightVal == counter2[r]
    IN  IF op = "exceptAll" THEN IF leftVal - rightVal < 0 THEN 0 ELSE leftVal - rightVal
        ELSE IF op = "intersectAll" THEN IF leftVal > rightVal THEN leftVal ELSE rightVal
        ELSE IF \/ op = "except" /\ ~(leftVal > 0 /\ rightVal = 0)
                \/ op = "intersect" /\ ~(leftVal > 0 /\ rightVal > 0)
        THEN 0 ELSE 1

\* How often the scan emits a row: the filter of the distinct operators, the
\* repeat number of the others.
RepeatNum(r) ==
    LET leftVal == counter1[r]
        rightVal == counter2[r]
    IN  IF op = "exceptAll" THEN IF leftVal - rightVal < 0 THEN 0 ELSE leftVal - rightVal
        ELSE IF op = "intersectAll" THEN IF leftVal > rightVal THEN rightVal ELSE leftVal
        ELSE IF \/ op = "except" /\ ~(leftVal > 0 /\ rightVal = 0)
                \/ op = "intersect" /\ ~(leftVal > 0 /\ rightVal > 0)
        THEN 0 ELSE 1

Scan(r) ==
    /\ phase = "scan" /\ r \in toScan
    /\ toScan' = toScan \ {r}
    /\ out' = [out EXCEPT ![r] = @ + RepeatNum(r)]
    /\ UNCHANGED <<op, left, right, restL, restR, phase, entries, counter1, counter2>>

EndScan ==
    /\ phase = "scan" /\ toScan = {}
    /\ phase' = "done"
    /\ UNCHANGED <<op, left, right, restL, restR, entries, counter1, counter2, toScan, out>>

Next ==
    \/ \E r \in Row : ReadLeft(r) \/ ReadRight(r) \/ Scan(r)
    \/ EndLeft \/ EndRight \/ EndScan

Spec == Init /\ [][Next]_vars

-----------------------------------------------------------------------------
(* Bags of rows, entries of the map, and where the scan stands.            *)
TypeOK ==
    /\ op \in Operations
    /\ left \in [Row -> Nat] /\ right \in [Row -> Nat]
    /\ restL \in [Row -> Nat] /\ restR \in [Row -> Nat]
    /\ phase \in {"left", "right", "scan", "done"}
    /\ entries \subseteq Row /\ toScan \subseteq entries
    /\ counter1 \in [Row -> Nat] /\ counter2 \in [Row -> Nat]
    /\ out \in [Row -> Nat]

\* SQL's definition of the multiplicity of a row in the result.
Multiplicity(r) ==
    LET m == left[r]
        n == right[r]
    IN  IF op = "unionAll" THEN m + n
        ELSE IF op = "exceptAll" THEN IF m > n THEN m - n ELSE 0
        ELSE IF op = "intersectAll" THEN IF m < n THEN m ELSE n
        ELSE IF \/ op \in {"union", "distinct"} /\ m + n > 0
                \/ op = "except" /\ m > 0 /\ n = 0
                \/ op = "intersect" /\ m > 0 /\ n > 0
        THEN 1 ELSE 0

\* The translated pipelines return every row as often as SQL says.
ResultIsSetOperation == phase = "done" => \A r \in Row : out[r] = Multiplicity(r)

-----------------------------------------------------------------------------
(* The inductive invariant behind ResultIsSetOperation.                    *)

\* A row is in the map iff one of the pipelines has read a copy of it.
EntriesRead ==
    op # "unionAll" => \A r \in Row : r \in entries <=> restL[r] + restR[r] < left[r] + right[r]

\* The counters are the numbers of copies that were read.
CountersRead ==
    op \in Counting => \A r \in Row : /\ counter1[r] + restL[r] = left[r]
                                      /\ counter2[r] + restR[r] = right[r]

\* What is unread in each phase.
RestOfPhase ==
    \A r \in Row : /\ restL[r] <= left[r] /\ restR[r] <= right[r]
                   /\ phase # "left" => restL[r] = 0
                   /\ phase \in {"scan", "done"} => restR[r] = 0

\* The result consists of the rows that were passed on or scanned.
OutOfPhase ==
    /\ op = "unionAll" => \A r \in Row : out[r] + restL[r] + restR[r] = left[r] + right[r]
    /\ op = "unionAll" => entries = {}
    /\ op # "unionAll" =>
         \A r \in Row : out[r] = IF phase \in {"scan", "done"} /\ r \in entries \ toScan THEN RepeatNum(r) ELSE 0

SetInv ==
    /\ TypeOK
    /\ EntriesRead
    /\ CountersRead
    /\ RestOfPhase
    /\ OutOfPhase
    /\ phase = "done" => toScan = {}
    /\ phase \in {"left", "right"} => toScan = {}
=============================================================================
