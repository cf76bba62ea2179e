----------------------------- MODULE MCOptimizer -----------------------------
(* The optimizer on small statements and databases. *)
EXTENDS SqlQuery

CONSTANT MaxSubGraphs

VARIABLES query, plan, pass, optimized

RRow(a, b) == [a |-> a, b |-> b]
SRow(c, d) == [c |-> c, d |-> d]
TRow(e, f) == [e |-> e, f |-> f]
MCDatabases ==
    {[r |-> <<RRow(1, 1), RRow(2, NULL), RRow(3, 2)>>, s |-> <<SRow(1, 2), SRow(2, NULL)>>, t |-> <<TRow(1, 1), TRow(1, 1), TRow(2, NULL)>>],
     [r |-> <<RRow(1, 2), RRow(2, 2)>>, s |-> <<SRow(2, 2), SRow(3, 1)>>, t |-> <<TRow(2, 2), TRow(3, 1)>>],
     [r |-> <<RRow(1, 1), RRow(2, 2)>>, s |-> <<>>, t |-> <<TRow(1, 2)>>]}

-----------------------------------------------------------------------------

R(al) == <<"table", "r", al>>
S(al) == <<"table", "s", al>>
T(al) == <<"table", "t", al>>
Eq(x, y) == <<"cmp", "eq", x, y>>
Lt(x, y) == <<"cmp", "lt", x, y>>
Const(v) == <<"const", v>>
And(es) == <<"and", es>>
Or(es) == <<"or", es>>
Not(e) == <<"not", e>>
Ra == Name("r", "a")
Rb == Name("r", "b")
Sc == Name("s", "c")
Sd == Name("s", "d")
Te == Name("t", "e")
Tf == Name("t", "f")

Select(from, where, targets) ==
    [with |-> <<>>, from |-> from, where |-> where, group |-> <<>>, aggs |-> <<>>, having |-> True,
     targets |-> targets, distinct |-> FALSE, order |-> 0, limit |-> NULL]
Grouped(q, group, aggs) == [q EXCEPT !.group = group, !.aggs = aggs]

RaOut == <<"ra", Ra>>
RbOut == <<"rb", Rb>>
ScOut == <<"sc", Sc>>
TeOut == <<"te", Te>>
TfOut == <<"tf", Tf>>
\* A sequence of the elements of a set as a conjunction.
All(es) == IF es = {} THEN True ELSE And(SetToSeq(es))

\* Inner joins: up to three of the comparisons that span or restrict the tables.
Atoms2 == {Eq(Ra, Sc), Eq(Rb, Sd), Lt(Sd, Const(2)), <<"in", <<Ra, Const(1), Const(2)>>>>, Not(<<"isnull", Rb>>)}
Atoms3 == {Eq(Ra, Sc), Eq(Sc, Te), Eq(Ra, Te), Eq(Rb, Tf), Lt(Sd, Tf)}
InnerJoins ==
    {Select(<<R("r"), S("s")>>, All(es), <<RaOut, <<"sd", Sd>>>>) : es \in {es \in SUBSET Atoms2 : Cardinality(es) \in {1, 2}}}
      \union {Select(<<R("r"), S("s"), T("t")>>, All(es), <<RbOut, TfOut>>) : es \in {es \in SUBSET Atoms3 : Cardinality(es) \in {2, 3}}}

\* Four inputs: a cycle, a star around an outer join, a predicate of three tables, an input without one.
U == <<"table", "r", "u">>
Ua == Name("u", "a")
Ub == Name("u", "b")
FourInputs ==
    {Select(<<R("r"), S("s"), T("t"), U>>, And(<<Eq(Ra, Sc), Eq(Sd, Te), Eq(Tf, Ub), Eq(Ua, Rb)>>), <<RaOut, TfOut>>),
     Select(<<R("r"), S("s"), T("t"), U>>, And(<<Eq(Ra, Sc), Eq(Tf, Ub)>>), <<RaOut, TfOut>>),
     Select(<<R("r"), S("s"), T("t"), U>>, And(<<Eq(<<"add", "", Ra, Sc>>, Te), Eq(Tf, Ub)>>), <<RaOut, TfOut>>),
     Select(<<<<"join", "left", R("r"), S("s"), Eq(Rb, Sd)>>, T("t"), U>>, And(<<Eq(Ra, Te), Eq(Ra, Ub)>>), <<RaOut, <<"sd", Sd>>>>)}

\* Outer joins, nested and under predicates that keep or reject their NULLs.
Ons == {Eq(Rb, Sd), And(<<Eq(Ra, Sc), Lt(Sd, Const(2))>>), And(<<Eq(Rb, Sd), Lt(Const(1), Ra)>>)}
Wheres == {True, Lt(Const(0), Sd), <<"isnull", Sc>>, Or(<<Eq(Sc, Const(2)), Eq(Ra, Const(1))>>)}
OuterJoins ==
    {Select(<<<<"join", kind, R("r"), S("s"), on>>>>, where, <<RaOut, <<"sd", Sd>>>>) : kind \in {"left", "right"}, on \in Ons, where \in Wheres}
      \union {Select(<<<<"join", "full", R("r"), S("s"), Eq(Ra, Sc)>>>>, where, <<RaOut, ScOut>>) : where \in Wheres}
      \union {Select(<<<<"join", "left", <<"join", k, R("r"), T("t"), Eq(Ra, Te)>>, S("s"), Eq(Rb, Sd)>>>>, where, <<RaOut, <<"sd", Sd>>, TfOut>>) :
                k \in {"inner", "left"}, where \in {True, Lt(Te, Const(3))}}
      \union {Select(<<R("r"), <<"join", "left", S("s"), T("t"), Eq(Sc, Te)>>>>, Eq(Rb, Tf), <<RaOut, ScOut>>)}

Restrictions ==
    {Select(<<R("r"), S("s")>>, Or(<<And(<<Eq(Ra, Const(1)), Eq(Sc, Const(2))>>), And(<<Eq(Ra, Const(2)), Eq(Sc, Const(3))>>)>>), <<RaOut, ScOut>>),
     Select(<<R("r")>>, Or(<<Eq(Ra, Const(1)), <<"isnull", Rb>>>>), <<RaOut, <<"sum", <<"add", "", Ra, Rb>>>>>>)}

\* Subqueries: EXISTS, ANY, ALL and scalar ones, correlated by equalities or by other comparisons.
SubS(where) == Select(<<S("s")>>, where, <<ScOut>>)
SubD(where) == [SubS(where) EXCEPT !.targets = <<<<"sd", Sd>>>>]
Aggregated(fn, col, where) ==
    Grouped(Select(<<S("s")>>, where, <<<<"n", Name("g", "n")>>>>), <<>>, <<<<<<"g", "n">>, fn, col>>>>)
Correlations == {True, Eq(Sc, Ra), Eq(Sd, Rb), Lt(Sd, Ra), And(<<Eq(Sd, Rb), Lt(Sc, Const(3))>>)}
Tests ==
    UNION {{<<"existsq", SubS(c)>>, Not(<<"existsq", SubS(c)>>), Or(<<<<"existsq", SubS(c)>>, Eq(Ra, Const(2))>>),
            <<"any", "eq", Rb, SubS(c)>>, <<"all", "lt", Rb, SubD(c)>>,
            Lt(<<"scalarq", Aggregated("countrows", <<"", "">>, c)>>, Ra),
            Eq(Rb, <<"scalarq", Aggregated("max", <<"s", "d">>, c)>>)} : c \in Correlations}
SubQueries ==
    {Select(<<R("r")>>, test, <<RaOut>>) : test \in Tests}
      \union {Select(<<R("r")>>, <<"existsq", Select(<<S("s"), T("t")>>, And(<<Eq(Sc, Te), Eq(Tf, Rb)>>), <<ScOut>>)>>, <<RaOut>>),
              Select(<<R("r")>>, <<"existsq", SubS(<<"existsq", Select(<<T("t")>>, And(<<Eq(Te, Sc), Eq(Tf, Rb)>>), <<TeOut>>)>>)>>, <<RaOut>>),
              Select(<<R("r"), T("t")>>, And(<<Eq(Ra, Te), <<"existsq", SubS(Eq(Sd, Rb))>>>>), <<RaOut, TfOut>>),
              Select(<<R("r")>>, True, <<RaOut, <<"n", <<"scalarq", Aggregated("countrows", <<"", "">>, Eq(Sd, Rb))>>>>>>),
              Select(<<R("r")>>, <<"existsq", [SubS(Eq(Sd, Rb)) EXCEPT !.distinct = TRUE]>>, <<RaOut>>),
              Select(<<<<"join", "left", R("r"), S("s"), Eq(Rb, Sd)>>>>, <<"existsq", Select(<<T("t")>>, Eq(Te, Ra), <<TeOut>>)>>, <<RaOut, ScOut>>)}

\* The search for correlated selections does not end in the cross product of this subquery.
CorrelatedCrossProduct ==
    Select(<<R("r")>>, <<"existsq", Select(<<<<"query", SubS(Eq(Sd, Rb)), "x">>, T("t")>>, True, <<TeOut>>)>>, <<RaOut>>)

\* Grouping, DISTINCT, ORDER BY and LIMIT, a common table expression with two uses.
Sums == <<<<<<"g", "n">>, "sum", <<"s", "d">>>>>>
Large == [Grouped(Select(<<S("s")>>, True, <<ScOut, <<"n", Name("g", "n")>>>>), <<<<"s", "c">>, <<"s", "d">>>>, Sums) EXCEPT !.having = Lt(Const(0), Name("g", "n"))]
GroupQueries ==
    {Large,
     Grouped(Select(<<R("r"), S("s")>>, Eq(Rb, Sd), <<RbOut, <<"n", Name("g", "n")>>>>), <<<<"r", "b">>, <<"r", "a">>>>, Sums),
     Grouped(Select(<<R("r"), T("t")>>, Eq(Ra, Te), <<TeOut, RbOut>>), <<<<"r", "a">>, <<"r", "b">>, <<"t", "e">>>>, <<<<<<"g", "n">>, "count", <<"t", "f">>>>>>),
     [Select(<<T("t"), R("r")>>, Eq(Te, Ra), <<TfOut>>) EXCEPT !.distinct = TRUE],
     Select(<<R("r"), <<"query", [Select(<<S("s")>>, True, <<ScOut, <<"sd", Sd>>>>) EXCEPT !.order = 1, !.limit = 1], "x">>>>, Eq(Rb, Name("x", "sd")), <<RaOut>>),
     [Select(<<<<"table", "w", "x">>, <<"table", "w", "y">>>>, Eq(Name("x", "rb"), Name("y", "ra")), <<<<"xa", Name("x", "ra")>>, <<"yb", Name("y", "rb")>>>>)
        EXCEPT !.with = <<<<"w", Select(<<R("r")>>, Lt(Const(0), Rb), <<RaOut, RbOut>>)>>>>],
     [Select(<<<<"table", "w", "x">>>>, <<"existsq", Select(<<<<"table", "w", "y">>>>, Lt(Name("y", "n"), Name("x", "n")), <<<<"yc", Name("y", "sc")>>>>)>>, <<<<"xc", Name("x", "sc")>>>>)
        EXCEPT !.with = <<<<"w", Large>>>>]}

MCQueries == InnerJoins \union FourInputs \union OuterJoins \union Restrictions \union SubQueries \union GroupQueries \union {CorrelatedCrossProduct}

O == INSTANCE Optimizer WITH Queries <- MCQueries, Databases <- MCDatabases
=============================================================================
