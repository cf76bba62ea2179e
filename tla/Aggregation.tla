---------------------------- MODULE Aggregation ----------------------------
(* GROUP BY, from the parser to the merged result: the typing of aggregate
   functions and the expansion of ROLLUP in Parser.cpp, the rewriting of AVG and
   STDDEV_SAMP in SimplifyAggregations.cpp, the split by DISTINCT and the
   aggregate functions' default, aggregate and combine blocks in
   RelAlgToSubOp.cpp, with the NULL checks of EliminateNulls.cpp, and their
   execution on thread-local states that are merged at the end.

   A query is [keys, rollup, aggs, nullable]: the grouping columns, whether they
   stand in a ROLLUP, the aggregates over column x as a function from names to
   [fn, distinct], and whether x is nullable. A quotient is kept as the pair of
   its numerator and denominator, and STDDEV_SAMP as the variance under its root. *)
EXTENDS Integers, Sequences, FiniteSets, FiniteSetsExt, SequencesExt, AggregateFunctions

CONSTANTS
    Threads,        \* the workers of the parallel scan
    Queries,        \* the queries to run
    Tables          \* the contents of the input, sequences of rows [g, h, x]

\* The functions of the parser, and ANY, by which the optimizer replaces keys that
\* depend on the other keys of an aggregation. Without functions there are keys, and no
\* ROLLUP: its last part would be a distinct projection on no columns. The mask of a
\* ROLLUP has 32 bits. Two kinds of queries do not compile: ARRAY_AGG of a nullable column
\* of numbers, for which aggregate would select between a nullable array and one that is
\* not, and STDDEV_SAMP(DISTINCT), whose squares are computed behind the projection.
ASSUME QueriesAssumption ==
    \A q \in Queries :
        /\ q.rollup \in BOOLEAN /\ q.nullable \in BOOLEAN
        /\ Len(q.keys) \in Nat /\ DOMAIN q.keys = 1 .. Len(q.keys)
        /\ \A a \in DOMAIN q.aggs :
            /\ q.aggs[a].fn \in {"count*", "count", "sum", "avg", "stddev_samp", "min", "max",
                                "any", "array_agg"}
            /\ q.aggs[a].distinct \in BOOLEAN
            /\ q.aggs[a].fn = "any" => Len(q.keys) > 0 /\ ~q.rollup
            /\ q.aggs[a].fn \in {"count*", "stddev_samp"} => ~q.aggs[a].distinct
            /\ q.aggs[a].fn = "array_agg" => ~q.nullable
        /\ DOMAIN q.aggs = {} => Len(q.keys) > 0 /\ ~q.rollup
        /\ q.rollup => Len(q.keys) <= 32

\* Column x holds integers of its type.
ASSUME TablesAssumption ==
    \A t \in Tables :
        /\ Len(t) \in Nat /\ DOMAIN t = 1 .. Len(t)
        /\ \A i \in DOMAIN t : t[i].x # Null => t[i].x \in Int /\ t[i].x <= MaxInt

VARIABLES
    query,          \* the query
    input,          \* the rows of its input
    pc,             \* "parse", "run", "scan" or "done"
    parts,          \* the grouping sets still to be aggregated, as lengths of a key prefix
    subs,           \* the sub-aggregations of the current grouping set still to be run
    cur,            \* the running one
    pending,        \* the tuples no worker has taken yet
    taken,          \* the tuples reduced so far
    tls,            \* the states of the running one, of the workers that have one
    results,        \* the merged states of the finished ones
    out             \* the rows of the result

vars == <<query, input, pc, parts, subs, cur, pending, taken, tls, results, out>>

NoSub == [none |-> TRUE]

----------------------------------------------------------------------------
(* Compilation *)

\* ROLLUP(k1, ..., kn) is the union of n + 1 aggregations, over ever shorter prefixes.
groupingSets(q) ==
    IF q.rollup THEN [i \in 1 .. Len(q.keys) + 1 |-> Len(q.keys) - (i - 1)]
                ELSE <<Len(q.keys)>>

\* The type of an aggregate: nullable if the column is or, unless it is an array, if
\* there are no groups.
resultNullable(q, n, fn) ==
    /\ fn \notin {"count", "count*"}
    /\ q.nullable \/ (n = 0 /\ fn # "array_agg")

Prim(a, role, fn, arg, nullable) ==
    [agg |-> a, role |-> role, fn |-> fn, arg |-> arg, nullable |-> nullable]

\* AVG becomes SUM and COUNT, STDDEV_SAMP the sum of squares, the sum and the count.
RewriteComplexAggrFuncs(q, n, a) ==
    LET fn == q.aggs[a].fn
        nullable == resultNullable(q, n, fn)
    IN CASE fn = "avg" ->
               {Prim(a, "sum", "sum", "x", nullable), Prim(a, "count", "count", "x", FALSE)}
         [] fn = "stddev_samp" ->
               {Prim(a, "squares", "sum", "x2", nullable), Prim(a, "sum", "sum", "x", TRUE),
                Prim(a, "count", "count", "x", FALSE)}
         [] OTHER -> {Prim(a, "value", fn, "x", nullable)}

\* Mutant: all functions share the state of the first kind, DISTINCT or not.
analyzeShared(q, n) ==
    LET some == DOMAIN q.aggs
    IN {s \in {[prims |-> UNION {RewriteComplexAggrFuncs(q, n, a) : a \in some},
                distinct |-> \E a \in some : q.aggs[a].distinct]} : s.prims # {}}

\* The functions without DISTINCT share one state; every DISTINCT has its own.
analyze(q, n) ==
    LET plain == {a \in DOMAIN q.aggs : ~q.aggs[a].distinct}
        SubOf(A, d) == [prims |-> UNION {RewriteComplexAggrFuncs(q, n, a) : a \in A},
                        distinct |-> d]
    IN {s \in {SubOf(plain, FALSE)} \union
              {SubOf({a}, TRUE) : a \in DOMAIN q.aggs \ plain} : s.prims # {}}

KeyOf(q, n, row) == [j \in 1 .. n |-> row[q.keys[j]]]

\* What flows into a sub-aggregation: all rows, or the distinct projection on keys and x.
InputOf(q, n, s, rows) ==
    {[key |-> KeyOf(q, n, rows[i]), x |-> rows[i].x, pos |-> IF s.distinct THEN 0 ELSE i]
        : i \in DOMAIN rows}

----------------------------------------------------------------------------
(* Execution *)

Arg(p, tuple) ==
    IF p.arg = "x2" THEN MulOp(tuple.x, tuple.x) ELSE tuple.x

InitialState(s) == [p \in s.prims |-> createDefaultValue(p)]

ReduceState(s, state, tuple) == [p \in s.prims |-> aggregate(p, state[p], Arg(p, tuple))]

CombineState(s, left, right) == [p \in s.prims |-> combine(p, left[p], right[p])]

\* A fresh state: an empty map, or the single entry of a simple state.
Instance(n, s) == IF n = 0 THEN [k \in {<<>>} |-> InitialState(s)] ELSE <<>>

\* LookupOrInsert and the reduction of one tuple.
Reduced(s, map, tuple) ==
    LET old == IF tuple.key \in DOMAIN map THEN map[tuple.key] ELSE InitialState(s)
    IN [k \in DOMAIN map \union {tuple.key} |->
            IF k = tuple.key THEN ReduceState(s, old, tuple) ELSE map[k]]

\* The merge of two thread-local states; entries of one side only are kept.
MergedMaps(s, left, right) ==
    [k \in DOMAIN left \union DOMAIN right |->
        IF k \notin DOMAIN right THEN left[k]
        ELSE IF k \notin DOMAIN left THEN right[k]
        ELSE CombineState(s, left[k], right[k])]

MergeAll(s, maps) == FoldLeft(LAMBDA l, r : MergedMaps(s, l, r), Head(maps), Tail(maps))

DivOp(x, y) == IF IsNull(x) \/ IsNull(y) THEN Null ELSE [num |-> x, den |-> y]

\* sumSquared - sum * sum / count, over count - 1, as one quotient.
VarSamp(squares, sum, count) ==
    IF SubOp(count, 1) = 0 THEN Null
    ELSE DivOp(SubOp(MulOp(count, squares), MulOp(sum, sum)), MulOp(count, SubOp(count, 1)))

\* The expression a rewritten aggregate is mapped to.
FinalValue(q, a, state) ==
    LET v(role) == state[CHOOSE p \in DOMAIN state : p.agg = a /\ p.role = role]
        fn == q.aggs[a].fn
    IN CASE fn = "avg" -> DivOp(v("sum"), v("count"))
         [] fn = "stddev_samp" -> VarSamp(v("squares"), v("sum"), v("count"))
         [] OTHER -> v("value")

\* The grouping mask of a prefix of length n, as the set of its bits: j - 1 for the
\* absent key j.
present(q, n) == {j - 1 : j \in n + 1 .. Len(q.keys)}

\* GROUPING(k) of the key at a position, from the mask.
mapCheckBit(mask, shift) == IF shift \in mask THEN 1 ELSE 0

\* A row of the result: missing keys are NULL.
OutRow(q, n, key, state) ==
    [keys |-> [j \in 1 .. Len(q.keys) |-> IF j <= n THEN key[j] ELSE Null],
     grouping |-> [j \in 1 .. Len(q.keys) |-> mapCheckBit(present(q, n), j - 1)],
     vals |-> [a \in DOMAIN q.aggs |-> FinalValue(q, a, state)]]

----------------------------------------------------------------------------

Init ==
    /\ query \in Queries
    /\ input \in {t \in Tables : query.nullable \/ \A i \in DOMAIN t : t[i].x # Null}
    /\ pc = "parse"
    /\ parts = <<>> /\ subs = {} /\ cur = NoSub
    /\ pending = {} /\ taken = {} /\ tls = <<>>
    /\ results = <<>> /\ out = {}

\* performAggregation of the parser, once per grouping set.
Parse ==
    /\ pc = "parse"
    /\ parts' = groupingSets(query)
    /\ subs' = analyze(query, Head(parts'))
    /\ pc' = "run"
    /\ UNCHANGED <<query, input, cur, pending, taken, tls, results, out>>

\* The pipeline of a sub-aggregation starts; their order is that of an unordered map.
StartSub(s) ==
    /\ pc = "run" /\ cur = NoSub
    /\ s \in subs
    /\ subs' = subs \ {s}
    /\ cur' = s
    /\ pending' = InputOf(query, Head(parts), s, input)
    /\ taken' = {}
    /\ tls' = <<>>
    /\ UNCHANGED <<query, input, pc, parts, results, out>>

\* A worker gets a morsel: its state is created, whether or not a tuple follows.
GetLocal(t) ==
    /\ cur # NoSub /\ t \notin DOMAIN tls
    /\ tls' = [u \in DOMAIN tls \union {t} |->
                IF u = t THEN Instance(Head(parts), cur) ELSE tls[u]]
    /\ UNCHANGED <<query, input, pc, parts, subs, cur, pending, taken, results, out>>

Reduce(t) ==
    /\ cur # NoSub /\ t \in DOMAIN tls
    /\ \E tuple \in pending :
        /\ tls' = [tls EXCEPT ![t] = Reduced(cur, tls[t], tuple)]
        /\ pending' = pending \ {tuple}
        /\ taken' = taken \union {tuple}
    /\ UNCHANGED <<query, input, pc, parts, subs, cur, results, out>>

\* All tuples are reduced: the states are merged in some order of the workers.
Merge ==
    /\ cur # NoSub /\ pending = {}
    /\ \E order \in SetToSeqs(DOMAIN tls) :
            LET maps == IF order = <<>> THEN <<Instance(Head(parts), cur)>>
                        ELSE [i \in DOMAIN order |-> tls[order[i]]]
            IN results' = Append(results, MergeAll(cur, maps))
    /\ cur' = NoSub
    /\ tls' = <<>>
    /\ pc' = IF subs = {} THEN "scan" ELSE "run"
    /\ taken' = {}
    /\ UNCHANGED <<query, input, parts, subs, pending, out>>

\* The first state is scanned and the group is looked up in the others; an
\* aggregation without functions is a distinct projection.
Scan ==
    /\ pc = "scan" \/ (pc = "run" /\ cur = NoSub /\ subs = {} /\ results = <<>>)
    /\ LET n == Head(parts)
           Joined(k) == [p \in UNION {DOMAIN results[i][k] : i \in DOMAIN results} |->
                            results[CHOOSE i \in DOMAIN results : p \in DOMAIN results[i][k]][k][p]]
           rows == IF results = <<>>
                   THEN {OutRow(query, n, KeyOf(query, n, input[i]), <<>>) : i \in DOMAIN input}
                   ELSE {OutRow(query, n, k, Joined(k)) : k \in DOMAIN results[1]}
       IN out' = out \union rows
    /\ parts' = Tail(parts)
    /\ results' = <<>>
    /\ IF Tail(parts) = <<>> THEN pc' = "done" /\ subs' = {}
       ELSE pc' = "run" /\ subs' = analyze(query, Head(Tail(parts)))
    /\ UNCHANGED <<query, input, cur, pending, taken, tls>>

Next ==
    \/ Parse
    \/ \E s \in subs : StartSub(s)
    \/ \E t \in Threads : GetLocal(t) \/ Reduce(t)
    \/ Merge
    \/ Scan

Spec == Init /\ [][Next]_vars

----------------------------------------------------------------------------
(* Properties *)

TotalOf(I, F(_)) == FoldSet(LAMBDA i, sum : sum + F(i), 0, I)

\* The rows of a group of the grouping set with n keys.
GroupRows(n, key) == {i \in DOMAIN input : KeyOf(query, n, input[i]) = key}

Groups(n) == IF n = 0 THEN {<<>>} ELSE {KeyOf(query, n, input[i]) : i \in DOMAIN input}

\* What SQL asks of an aggregate over the rows I; X(i) is the column. DISTINCT leaves
\* the first row D of each value.
IsAggregate(agg, I, X(_), val) ==
    LET D == IF agg.distinct THEN {i \in I : \A k \in I : X(k) = X(i) => i <= k} ELSE I
        J == {i \in D : X(i) # Null}
        sum == TotalOf(J, X)
        squares == TotalOf(J, LAMBDA i : X(i) * X(i))
        n == Cardinality(J)
    IN CASE agg.fn = "count*" -> val = Cardinality(I)
         [] agg.fn = "count" -> val = n
         [] agg.fn = "any" -> \E i \in I : val = X(i)
         [] agg.fn = "array_agg" ->
               \A v \in {X(i) : i \in I} \union Range(val) :
                   Cardinality({i \in D : X(i) = v}) = Cardinality({k \in DOMAIN val : val[k] = v})
         [] agg.fn = "stddev_samp" /\ n = 1 -> val = Null
         [] OTHER -> IF J = {} THEN val = Null ELSE
               CASE agg.fn = "sum" -> val = sum
                 [] agg.fn = "avg" -> val = [num |-> sum, den |-> n]
                 [] agg.fn = "stddev_samp" ->
                       val = [num |-> n * squares - sum * sum, den |-> n * (n - 1)]
                 [] agg.fn = "min" -> val \in {X(i) : i \in J} /\ \A i \in J : val <= X(i)
                 [] agg.fn = "max" -> val \in {X(i) : i \in J} /\ \A i \in J : val >= X(i)

\* The sums of a group of NULLs are 0, not NULL, and AVG then divides 0 by 0.
SumOfNulls(agg, I, X(_)) ==
    agg.fn \in {"sum", "avg", "stddev_samp"} /\ I # {} /\ \A i \in I : X(i) = Null

\* MAX over a column that is not nullable starts at 0 in every group.
MaxBelowDefault(agg, n, I, X(_)) ==
    agg.fn = "max" /\ ~query.nullable /\ n > 0 /\ \A i \in I : X(i) < 0

\* The finished result has exactly one row for each group of each grouping set,
\* with NULL for the keys it leaves out, GROUPING 1 exactly for those, and for each
\* aggregate the value SQL defines over the group's rows; but for the two cases
\* named above.
ResultIsAggregate ==
    pc = "done" =>
        LET sets == Range(groupingSets(query))
            X(i) == input[i].x
        IN /\ Cardinality(out) = TotalOf(sets, LAMBDA n : Cardinality(Groups(n)))
           /\ \A n \in sets : \A key \in Groups(n) : \E row \in out :
                /\ \A j \in DOMAIN query.keys :
                    IF j <= n THEN row.keys[j] = key[j] /\ row.grouping[j] = 0
                              ELSE row.keys[j] = Null /\ row.grouping[j] = 1
                /\ \A a \in DOMAIN query.aggs :
                    LET agg == query.aggs[a]
                        I == GroupRows(n, key)
                    IN \/ SumOfNulls(agg, I, X)
                       \/ MaxBelowDefault(agg, n, I, X)
                       \/ IsAggregate(agg, I, X, row.vals[a])

\* test/sqlite-small/unnesting.test:213-219 expects NULL for the SUM of a single NULL:
\* a row's SUM over rows that are all NULL is NULL.
NullsSumToNull ==
    pc = "done" =>
        \A row \in out : \A a \in DOMAIN query.aggs :
            LET I == {i \in DOMAIN input : \A j \in DOMAIN query.keys :
                        row.grouping[j] = 0 => input[i][query.keys[j]] = row.keys[j]}
            IN query.aggs[a].fn = "sum" /\ (\A i \in I : input[i].x = Null) => row.vals[a] = Null

\* Whenever the workers were stopped, merging their states in any order would give
\* the state of exactly the tuples taken so far: no function's combine step loses,
\* repeats or misorders a worker's part, for NULLs and workers without tuples too.
PartialsCombine ==
    cur # NoSub =>
        \A order \in SetToSeqs(DOMAIN tls) :
            order # <<>> =>
                LET map == MergeAll(cur, [i \in DOMAIN order |-> tls[order[i]]])
                IN /\ DOMAIN map = {tuple.key : tuple \in taken} \union
                                   (IF Head(parts) = 0 THEN {<<>>} ELSE {})
                   /\ \A key \in DOMAIN map : \A p \in cur.prims :
                        LET I == {tuple \in taken : tuple.key = key}
                            agg == [fn |-> p.fn, distinct |-> FALSE]
                            X(tuple) == Arg(p, tuple)
                        IN \/ SumOfNulls(agg, I, X) /\ map[key][p] = 0
                           \/ MaxBelowDefault(agg, Head(parts), I, X) /\ map[key][p] = 0
                           \/ ~SumOfNulls(agg, I, X) /\ IsAggregate(agg, I, X, map[key][p])

=============================================================================
