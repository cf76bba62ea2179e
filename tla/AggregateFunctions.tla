------------------------- MODULE AggregateFunctions -------------------------
(* The aggregate functions of RelAlgToSubOp.cpp: for each its default state, the
   reduction of one more value into a state, and the combination of the states of
   two workers. An operation of the DB dialect with a nullable operand is wrapped
   in a NULL check by EliminateNulls.cpp.

   A function is a record f with f.fn the function and f.nullable whether the type
   of its state is nullable. *)
EXTENDS Integers, Sequences

CONSTANTS
    Null,       \* the SQL NULL
    Undef,      \* the undefined initial state of ANY
    MaxInt      \* the largest value of the column's type

ASSUME NullAssumption == Null \notin Int
ASSUME MaxIntAssumption == MaxInt \in Int

----------------------------------------------------------------------------
(* Wrapped operations *)

IsNull(v) == v = Null

AddOp(x, y) == IF IsNull(x) \/ IsNull(y) THEN Null ELSE x + y

SubOp(x, y) == IF IsNull(x) \/ IsNull(y) THEN Null ELSE x - y

MulOp(x, y) == IF IsNull(x) \/ IsNull(y) THEN Null ELSE x * y

\* DeriveTruth of a comparison: unknown is false.
LtTruth(x, y) == ~IsNull(x) /\ ~IsNull(y) /\ x < y

ZeroIfNull(v) == IF IsNull(v) THEN 0 ELSE v

----------------------------------------------------------------------------
(* The functions *)

MaxDefault(f) == IF f.nullable THEN Null ELSE 0
MaxAggregate(f, state, arg) ==
    IF f.nullable THEN (IF LtTruth(state, arg) \/ IsNull(state) THEN arg ELSE state)
                  ELSE (IF state < arg THEN arg ELSE state)
\* Mutant: the left state is kept when it is NULL.
MaxCombineNull(f, left, right) ==
    IF f.nullable THEN (IF LtTruth(left, right) THEN right ELSE left)
                  ELSE (IF left < right THEN right ELSE left)
MaxCombine(f, left, right) ==
    IF f.nullable THEN (IF LtTruth(left, right) \/ IsNull(left) THEN right ELSE left)
                  ELSE (IF left < right THEN right ELSE left)

MinDefault(f) == IF f.nullable THEN Null ELSE MaxInt
MinAggregate(f, state, arg) ==
    IF f.nullable THEN (IF LtTruth(arg, state) \/ IsNull(state) THEN arg ELSE state)
                  ELSE (IF state > arg THEN arg ELSE state)
MinCombine(f, left, right) ==
    IF f.nullable THEN (IF LtTruth(left, right) \/ IsNull(right) THEN left ELSE right)
                  ELSE (IF left < right THEN left ELSE right)

SumDefault(f) == IF f.nullable THEN Null ELSE 0
SumAggregate(f, state, arg) ==
    IF f.nullable THEN AddOp(ZeroIfNull(state), ZeroIfNull(arg)) ELSE AddOp(state, arg)
SumCombine(f, left, right) ==
    IF f.nullable
    THEN (IF IsNull(left) /\ IsNull(right) THEN left
          ELSE AddOp(ZeroIfNull(left), ZeroIfNull(right)))
    ELSE AddOp(left, right)

CountAggregate(state, arg) == IF IsNull(arg) THEN state ELSE AddOp(state, 1)
CountCombine(left, right) == AddOp(left, right)

\* A nullable state is NULL before the first value, as a value may be; combine then calls
\* ArrayAgg, of which two arrays make an array of arrays, where otherwise it concatenates.
ArrayAggDefault(f) == IF f.nullable THEN Null ELSE <<>>
ArrayAggAggregate(f, state, arg) ==
    IF f.nullable /\ IsNull(arg) THEN state
    ELSE IF f.nullable /\ IsNull(state) THEN <<arg>>
    ELSE Append(state, arg)
ArrayAggCombine(f, left, right) ==
    IF ~f.nullable THEN left \o right
    ELSE IF IsNull(left) \/ IsNull(right) THEN Null
    ELSE <<left, right>>

----------------------------------------------------------------------------
(* The virtual calls of DistAggrFunc *)

\* The state before the first row; "any" leaves it undefined.
createDefaultValue(f) ==
    IF f.fn \in {"count", "count*"} THEN 0
    ELSE IF f.fn = "sum" THEN SumDefault(f)
    ELSE IF f.fn = "max" THEN MaxDefault(f)
    ELSE IF f.fn = "min" THEN MinDefault(f)
    ELSE IF f.fn = "any" THEN Undef
    ELSE ArrayAggDefault(f)

\* The state after one more row.
aggregate(f, state, arg) ==
    IF f.fn = "count*" THEN AddOp(state, 1)
    ELSE IF f.fn = "count" THEN CountAggregate(state, arg)
    ELSE IF f.fn = "sum" THEN SumAggregate(f, state, arg)
    ELSE IF f.fn = "max" THEN MaxAggregate(f, state, arg)
    ELSE IF f.fn = "min" THEN MinAggregate(f, state, arg)
    ELSE IF f.fn = "any" THEN arg
    ELSE ArrayAggAggregate(f, state, arg)

\* The state of two workers' rows.
combine(f, left, right) ==
    IF f.fn \in {"count", "count*"} THEN CountCombine(left, right)
    ELSE IF f.fn = "sum" THEN SumCombine(f, left, right)
    ELSE IF f.fn = "max" THEN MaxCombine(f, left, right)
    ELSE IF f.fn = "min" THEN MinCombine(f, left, right)
    ELSE IF f.fn = "any" THEN left
    ELSE ArrayAggCombine(f, left, right)
=============================================================================
