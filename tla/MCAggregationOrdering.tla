----------------------- MODULE MCAggregationOrdering -----------------------
(***************************************************************************)
(* The operators that aggregate, sort, limit or window one input, one of   *)
(* which is executed.                                                      *)
(***************************************************************************)
EXTENDS Aggregation

CONSTANTS NoLimit, NoWindow, Width

VARIABLES operator,   \* "aggregation" or "ordering"
          order, table, stage, plan, todo, local, merged, sorted

Agg(fn) == [fn |-> fn, distinct |-> FALSE]
Distinct(fn) == [fn |-> fn, distinct |-> TRUE]
Query(keys, rollup, nullable, aggs) ==
    [keys |-> keys, rollup |-> rollup, nullable |-> nullable, aggs |-> aggs]

Plain == [sum |-> Agg("sum"), avg |-> Agg("avg"), min |-> Agg("min"), max |-> Agg("max"),
          count |-> Agg("count"), star |-> Agg("count*")]

\* No keys and two keys in a ROLLUP, with and without NULLs in x; DISTINCT beside
\* other functions; STDDEV_SAMP over a nullable column, ARRAY_AGG over one that is
\* not; ANY, which the optimizer adds for dependent keys; GROUP BY without functions.
MCQueries ==
    {Query(keys, FALSE, nullable, Plain) : keys \in {<<>>, <<"g">>}, nullable \in BOOLEAN} \union
    {Query(<<"g", "h">>, TRUE, TRUE, [sum |-> Agg("sum"), max |-> Agg("max")]),
     Query(<<"g">>, FALSE, TRUE, [avg |-> Distinct("avg"), count |-> Distinct("count"),
                                  star |-> Agg("count*")]),
     Query(<<"g">>, FALSE, TRUE, [dev |-> Agg("stddev_samp")]),
     Query(<<>>, FALSE, FALSE, [dev |-> Agg("stddev_samp"), list |-> Agg("array_agg")]),
     Query(<<"g", "h">>, FALSE, FALSE, [list |-> Agg("array_agg"), set |-> Distinct("array_agg"),
                                        any |-> Agg("any")]),
     Query(<<"g">>, FALSE, TRUE, <<>>)}

\* All rows over these values, numbered.
MCRow(i) == [g |-> <<1, Null>>[(i % 2) + 1], h |-> <<1, 2>>[((i \div 2) % 2) + 1],
             x |-> <<-1, 2, Null>>[(i \div 4) + 1]]

\* Tables of up to MaxRows rows; their order does not matter.
MaxRows == 3
MCTables ==
    {[i \in DOMAIN rows |-> MCRow(rows[i])] :
        rows \in {r \in UNION {[1 .. n -> 0 .. 11] : n \in 0 .. MaxRows} :
                    \A i, j \in DOMAIN r : i < j => r[i] <= r[j]}}

Asc(col) == [col |-> col, desc |-> FALSE]
Desc(col) == [col |-> col, desc |-> TRUE]

SortBy(specs, limit) == [specs |-> specs, limit |-> limit, window |-> NoWindow]
Unbounded == [kind |-> "unbounded", n |-> 0]
CurrentRow == [kind |-> "current", n |-> 0]
Preceding(n) == [kind |-> "preceding", n |-> n]
Following(n) == [kind |-> "following", n |-> n]
Window(fn, partition, specs, start, end) ==
    [specs |-> specs, limit |-> NoLimit,
     window |-> [fn |-> fn, nullable |-> TRUE, start |-> start, end |-> end,
                 partition |-> partition]]

\* ORDER BY over one and two keys, LIMIT below, at and above the number of rows, and
\* windows of every kind of frame: the two defaults, a sliding one, a single row, one
\* that ends before its row, and one whose end overflows.
MCOrderings ==
    {SortBy(specs, NoLimit) : specs \in {<<Asc("s")>>, <<Desc("s"), Asc("p")>>}} \union
    {SortBy(specs, limit) :
        specs \in {<<>>, <<Desc("s")>>, <<Asc("s"), Desc("p")>>}, limit \in {1, 2, 3, 5}} \union
    {Window(fn, <<>>, <<Asc("s")>>, Unbounded, CurrentRow) : fn \in {"sum", "max", "row_number"}} \union
    {Window(fn, <<"p">>, <<Desc("s")>>, Preceding(1), Following(1)) : fn \in {"count", "min"}} \union
    {Window("sum", <<"p">>, <<>>, Unbounded, CurrentRow),
     Window("min", <<>>, <<Asc("s")>>, CurrentRow, CurrentRow),
     Window("max", <<>>, <<>>, Preceding(2), Preceding(1)),
     Window("row_number", <<"p">>, <<Asc("s")>>, Preceding(1), CurrentRow),
     Window("sum", <<>>, <<Asc("s")>>, CurrentRow, Unbounded),
     Window("max", <<"p">>, <<Asc("s")>>, Following(1), Following(2))}

\* Rows over these values, numbered: the partition, the sort key and the argument.
MCSortRow(i) == [p |-> (i % 2) + 1, s |-> <<1, 2, Null>>[((i \div 2) % 3) + 1],
             x |-> <<-1, Null, 2, -1, 2, Null>>[i + 1]]

\* Tables of up to MaxSortRows rows; workers take the rows in any order.
MaxSortRows == 4
MCSortTables ==
    {[i \in DOMAIN rows |-> MCSortRow(rows[i])] :
        rows \in {r \in UNION {[1 .. n -> 0 .. 5] : n \in 0 .. MaxSortRows} :
                    \A i, j \in DOMAIN r : i < j => r[i] <= r[j]}}

O == INSTANCE Ordering WITH
    Queries <- MCOrderings, Tables <- MCSortTables,
    query <- order, input <- table, pc <- stage, out <- sorted

orderVars == <<order, table, stage, plan, todo, local, merged, sorted>>

MCInit ==
    \/ /\ operator = "aggregation"
       /\ Init
       /\ order = SortBy(<<>>, 1) /\ table = <<>>
       /\ O!Init
    \/ /\ operator = "ordering"
       /\ query = Query(<<"g">>, FALSE, TRUE, <<>>) /\ input = <<>>
       /\ Init
       /\ O!Init
MCNext ==
    \/ operator = "aggregation" /\ Next /\ UNCHANGED <<operator, orderVars>>
    \/ operator = "ordering" /\ O!Next /\ UNCHANGED <<operator, vars>>
MCSpec == MCInit /\ [][MCNext]_<<operator, vars, orderVars>>

(* ORDER BY, LIMIT and both together return the rows that SQL says, in order. *)
ResultIsOrdered == O!ResultIsOrdered

(* A window function has, for every row, the value over the row's frame.      *)
WindowValuesAreFrames == O!WindowValuesAreFrames
=============================================================================
