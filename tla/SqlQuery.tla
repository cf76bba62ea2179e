------------------------------ MODULE SqlQuery ------------------------------
(***************************************************************************)
(* SELECT statements: their meaning, defined on the statement, and their   *)
(* translation to a plan by src/lib/frontend/SQL/Parser.cpp.               *)
(*                                                                         *)
(* A statement is a record [with, from, where, group, aggs, having,        *)
(* targets, distinct, order, limit].  Names are pairs alias, field.  A     *)
(* statement names every table reference, computed target and aggregate    *)
(* differently, so that the names serve as the scopes the parser makes     *)
(* unique with getUniqueScope.                                             *)
(***************************************************************************)
EXTENDS RelAlg

Name(alias, field) == <<"name", <<alias, field>>>>

-----------------------------------------------------------------------------
(* The meaning of a statement: the sequence of its result rows, each a sequence of values *)

RECURSIVE Meaning(_, _, _)
RECURSIVE SqlValue(_, _, _)
RECURSIVE SqlFrom(_, _, _)

\* x op SOME (query) and x op ALL (query): TRUE or FALSE when a row decides it.  Where SQL has
\* NULL (an undecided comparison with a NULL) the parser's translation has FALSE for ANY and
\* TRUE for ALL, and the meaning follows the parser there.
Quantified(kind, op, v, rows) ==
    LET results == {Compare(op, v, rows[i][1]) : i \in DOMAIN rows}
    IN  IF kind = "any" THEN TRUE \in results ELSE FALSE \notin results

\* env gives the names in scope their values, and <<"with", n>> the rows and the names of the columns
\* of the common table expression n.
SqlValue(e, env, db) ==
    CASE e[1] = "name" -> env[e[2]]
      [] e[1] \in {"const", "bool"} -> e[2]
      [] e[1] = "and" -> And3({SqlValue(e[2][i], env, db) : i \in DOMAIN e[2]})
      [] e[1] = "or" -> Or3({SqlValue(e[2][i], env, db) : i \in DOMAIN e[2]})
      [] e[1] = "in" -> Or3({Compare("eq", SqlValue(e[2][1], env, db), SqlValue(e[2][i], env, db)) : i \in 2..Len(e[2])})
      [] e[1] = "not" -> Not3(SqlValue(e[2], env, db))
      [] e[1] = "isnull" -> SqlValue(e[2], env, db) = NULL
      [] e[1] = "isnotnull" -> SqlValue(e[2], env, db) # NULL
      [] e[1] = "cmp" -> Compare(e[2], SqlValue(e[3], env, db), SqlValue(e[4], env, db))
      [] e[1] = "add" -> LET l == SqlValue(e[3], env, db)  r == SqlValue(e[4], env, db)
                         IN  IF l = NULL \/ r = NULL THEN NULL ELSE l + r
      [] e[1] = "existsq" -> Meaning(e[2], env, db) # <<>>
      [] e[1] \in {"any", "all"} -> Quantified(e[1], e[2], SqlValue(e[3], env, db), Meaning(e[4], env, db))
      [] e[1] = "scalarq" -> LET rows == Meaning(e[2], env, db) IN IF rows = <<>> THEN NULL ELSE rows[1][1]

RECURSIVE NamesOf(_, _)
\* The names a part of the FROM clause defines.
NamesOf(item, env) ==
    CASE item[1] = "table" -> {item[3]} \X (IF item[2] \in DOMAIN Schema THEN Schema[item[2]].cols ELSE ToSet(env[<<"with", item[2]>>][2]))
      [] item[1] = "query" -> {item[3]} \X {item[2].targets[j][1] : j \in DOMAIN item[2].targets}
      [] item[1] = "join" -> NamesOf(item[3], env) \union NamesOf(item[4], env)

\* The rows of a part of the FROM clause, functions from names to values.
SqlFrom(item, env, db) ==
    CASE item[1] = "table" ->
           IF item[2] \in DOMAIN db
           THEN [i \in DOMAIN db[item[2]] |-> [n \in {item[3]} \X Schema[item[2]].cols |-> db[item[2]][i][n[2]]]]
           ELSE LET rows == env[<<"with", item[2]>>][1]  names == env[<<"with", item[2]>>][2]
                IN  [i \in DOMAIN rows |-> [n \in {item[3]} \X ToSet(names) |-> rows[i][CHOOSE j \in DOMAIN names : names[j] = n[2]]]]
      [] item[1] = "query" ->
           LET rows == Meaning(item[2], env, db)
               names == [j \in DOMAIN item[2].targets |-> item[2].targets[j][1]]
           IN  [i \in DOMAIN rows |-> [n \in {item[3]} \X ToSet(names) |-> rows[i][CHOOSE j \in DOMAIN names : names[j] = n[2]]]]
      [] item[1] = "join" ->
           LET l == SqlFrom(item[3], env, db)
               r == SqlFrom(item[4], env, db)
               On(s, t) == SqlValue(item[5], s @@ t @@ env, db) = TRUE
               pairs == FlattenSeq([i \in DOMAIN l |-> LET p == SelectSeq(r, LAMBDA t : On(l[i], t)) IN [k \in DOMAIN p |-> l[i] @@ p[k]]])
               leftOnly == SelectSeq(l, LAMBDA s : \A k \in DOMAIN r : ~On(s, r[k]))
               rightOnly == SelectSeq(r, LAMBDA t : \A k \in DOMAIN l : ~On(l[k], t))
               Pad(rows, other) == [k \in DOMAIN rows |-> rows[k] @@ Nulls(NamesOf(other, env))]
           IN  pairs \o (IF item[2] \in {"left", "full"} THEN Pad(leftOnly, item[4]) ELSE <<>>)
                     \o (IF item[2] \in {"right", "full"} THEN Pad(rightOnly, item[3]) ELSE <<>>)

\* FROM and WHERE: the rows with the names in scope.
SqlRows(q, env, db) ==
    SelectSeq(FoldLeft(LAMBDA rows, item :
                         LET more == SqlFrom(item, env, db)
                         IN  FlattenSeq([i \in DOMAIN rows |-> [j \in DOMAIN more |-> rows[i] @@ more[j]]]),
                       <<NoRow>>, q.from),
              LAMBDA t : SqlValue(q.where, t @@ env, db) = TRUE)

\* GROUP BY: a row with the aggregates for each group, the rows as they are without one.
SqlGroup(q, groups, rows) ==
    [i \in DOMAIN groups |->
       groups[i] @@ [n \in {q.aggs[j][1] : j \in DOMAIN q.aggs} |->
                       LET a == q.aggs[CHOOSE j \in DOMAIN q.aggs : q.aggs[j][1] = n]
                       IN  AggregateValue(a[2], a[3], SelectSeq(rows, LAMBDA t : \A k \in DOMAIN groups[i] : t[k] = groups[i][k]))]]
SqlGroups(q, rows) ==
    IF q.aggs = <<>> /\ q.group = <<>> THEN rows
    ELSE SqlGroup(q, SetToSeq(IF q.group = <<>> THEN {NoRow} ELSE {Restrict(rows[i], ToSet(q.group)) : i \in DOMAIN rows}), rows)

SqlTargets(q, rows, env, db) ==
    [i \in DOMAIN rows |-> [j \in DOMAIN q.targets |-> SqlValue(q.targets[j][2], rows[i] @@ env, db)]]
SqlDistinct(q, rows) == IF q.distinct THEN SetToSeq(ToSet(rows)) ELSE rows
SqlOrder(q, rows) == IF q.order = 0 THEN rows ELSE SortSeq(rows, LAMBDA s, t : s[q.order] < t[q.order])
SqlLimit(q, rows) == IF q.limit = NULL THEN rows ELSE SubSeq(rows, 1, Min({q.limit, Len(rows)}))

SqlSelect(q, env, db) ==
    LET having == SelectSeq(SqlGroups(q, SqlRows(q, env, db)), LAMBDA t : SqlValue(q.having, t @@ env, db) = TRUE)
    IN  SqlLimit(q, SqlOrder(q, SqlDistinct(q, SqlTargets(q, having, env, db))))
Meaning(q, outer, db) ==
    SqlSelect(q, FoldLeft(LAMBDA e, w : (<<"with", w[1]>> :> <<Meaning(w[2], e, db), [j \in DOMAIN w[2].targets |-> w[2].targets[j][1]]>>) @@ e,
                          outer, q.with), db)

-----------------------------------------------------------------------------
(* The translation (Parser.cpp).  context maps the names in scope to columns *)

\* A column of an outer join: the next copy of the column it renames, of a nullable type.
Copy(c) == <<c[1], c[2], c[3] + 1>>

RECURSIVE translateExpression(_, _)
RECURSIVE translateFromClausePart(_, _)
RECURSIVE translateSelectStmt(_, _)
RECURSIVE translateNullable(_, _)

\* The comparison of the test expression with the result column.
translateBinaryExpression(op, e, col) == <<"cmp", op, e, Column(col)>>

\* useZeroInsteadNull: the first target is a count without GROUP BY.
useZeroInsteadNull(q) ==
    /\ q.group = <<>>
    /\ \E i \in DOMAIN q.aggs : q.targets[1][2] = <<"name", q.aggs[i][1]>> /\ q.aggs[i][2] \in {"count", "countrows"}

\* context[n] = <<column, nullable>>, and context[<<"with", n>>] the translated common table expression n.
translateNullable(e, context) ==
    CASE e[1] = "name" -> context[e[2]][2]
      [] e[1] = "const" -> e[2] = NULL
      [] e[1] \in {"and", "or", "in"} -> \E i \in DOMAIN e[2] : translateNullable(e[2][i], context)
      [] e[1] = "not" -> translateNullable(e[2], context)
      [] e[1] \in {"cmp", "add"} -> translateNullable(e[3], context) \/ translateNullable(e[4], context)
      [] e[1] = "scalarq" -> ~useZeroInsteadNull(e[2])
      [] OTHER -> FALSE

\* A subquery in an expression: its result, its first value, or the rows that decide a comparison
\* with the value of the expression test.
translateSubLink(e, sub, test) ==
    LET col == sub.results[1][2][1]
        pred == translateBinaryExpression(e[2], test, col)
        scalar == <<"getscalar", col, sub.tree>>
    IN  CASE e[1] = "existsq" -> <<"exists", NoColumn, sub.tree>>
          [] e[1] = "scalarq" -> IF useZeroInsteadNull(e[2]) THEN <<"zeroifnull", scalar>> ELSE scalar
          [] e[1] = "any" -> <<"exists", NoColumn, Selection(pred, sub.tree)>>
          [] e[1] = "all" -> <<"not", <<"exists", NoColumn, Selection(<<"not", pred>>, sub.tree)>>>>

translateExpression(e, context) ==
    CASE e[1] = "name" -> Column(context[e[2]][1])
      [] e[1] \in {"const", "bool"} -> e
      [] e[1] \in {"and", "or"} -> <<e[1], [i \in DOMAIN e[2] |-> translateExpression(e[2][i], context)]>>
      [] e[1] = "in" -> <<"oneof", [i \in DOMAIN e[2] |-> translateExpression(e[2][i], context)]>>
      [] e[1] = "not" -> <<"not", translateExpression(e[2], context)>>
      [] e[1] = "isnull" /\ translateNullable(e[2], context) -> <<"isnull", translateExpression(e[2], context)>>
      [] e[1] = "isnotnull" /\ translateNullable(e[2], context) -> <<"not", <<"isnull", translateExpression(e[2], context)>>>>
      [] e[1] \in {"isnull", "isnotnull"} /\ ~translateNullable(e[2], context) -> <<"bool", e[1] = "isnotnull">>
      [] e[1] \in {"cmp", "add"} -> <<e[1], e[2], translateExpression(e[3], context), translateExpression(e[4], context)>>
      [] OTHER -> translateSubLink(e, translateSelectStmt(e[Len(e)], context), translateExpression(e[3], context))

\* The tree of a table reference, a query or a join and the names it defines.
translateRangeVar(item, context) ==
    IF item[2] \in DOMAIN Schema
    THEN [tree |-> BaseTable(item[2], item[3]),
          names |-> [n \in {item[3]} \X Schema[item[2]].cols |-> <<<<n[1], n[2], 0>>, n[2] \in Schema[item[2]].nullable>>]]
    ELSE LET cte == context[<<"with", item[2]>>]
             Def(i) == <<<<item[3], cte.results[i][1], 0>>, Column(cte.results[i][2][1])>>
         IN  [tree |-> Renaming([i \in DOMAIN cte.results |-> Def(i)], cte.tree),
              names |-> [n \in {item[3]} \X {cte.results[i][1] : i \in DOMAIN cte.results} |->
                           <<<<n[1], n[2], 0>>, cte.results[CHOOSE i \in DOMAIN cte.results : cte.results[i][1] = n[2]][2][2]>>]]

translateSubSelect(item, sub) ==
    [tree |-> sub.tree,
     names |-> [n \in {item[3]} \X {sub.results[i][1] : i \in DOMAIN sub.results} |->
                  sub.results[CHOOSE i \in DOMAIN sub.results : sub.results[i][1] = n[2]][2]]]

\* An outer join renames the columns of the inputs it may fill with NULL; a RIGHT JOIN is a
\* LEFT JOIN of the swapped inputs.
JoinOfParts(item, l, r, context) ==
    LET names == l.names @@ r.names
        padded == CASE item[2] = "left" -> r.names
                    [] item[2] = "right" -> l.names
                    [] item[2] = "full" -> names
                    [] item[2] = "inner" -> NoRow
        order == SetToSeq({padded[n][1] : n \in DOMAIN padded})
        mapping == [i \in DOMAIN order |-> <<Copy(order[i]), Column(order[i])>>]
        kind == CASE item[2] \in {"left", "right"} -> "outerjoin" [] item[2] = "full" -> "fullouterjoin" [] item[2] = "inner" -> "innerjoin"
    IN  [names |-> [n \in DOMAIN padded |-> <<Copy(padded[n][1]), TRUE>>] @@ names,
         tree |-> Operator(kind, translateExpression(item[5], names @@ context), mapping, {},
                           IF item[2] = "right" THEN <<r.tree, l.tree>> ELSE <<l.tree, r.tree>>)]
translateJoinExpr(item, context) ==
    JoinOfParts(item, translateFromClausePart(item[3], context), translateFromClausePart(item[4], context), context)

translateFromClausePart(item, context) ==
    CASE item[1] = "table" -> translateRangeVar(item, context)
      [] item[1] = "query" -> translateSubSelect(item, translateSelectStmt(item[2], context))
      [] item[1] = "join" -> translateJoinExpr(item, context)

\* The cross product of the parts of the FROM clause.
translateFromClause(from, context) ==
    FoldLeft(LAMBDA acc, item :
               LET part == translateFromClausePart(item, context)
               IN  [tree |-> CrossProduct(acc.tree, part.tree), names |-> part.names @@ acc.names],
             translateFromClausePart(from[1], context), Tail(from))

\* The steps of a statement.  Each takes and returns [tree, names]: the tree so far and the names in scope.
translateWhere(q, in) ==
    IF q.where = True THEN in ELSE [in EXCEPT !.tree = Selection(translateExpression(q.where, in.names), @)]

performAggregation(q, in) ==
    LET keys == {in.names[q.group[i]][1] : i \in DOMAIN q.group}
        aggDefs == [i \in DOMAIN q.aggs |->
                      <<<<q.aggs[i][1][1], q.aggs[i][1][2], 0>>,
                        <<q.aggs[i][2], IF q.aggs[i][2] = "countrows" THEN NoColumn ELSE in.names[q.aggs[i][3]][1]>>>>]
        aggNames == [n \in {q.aggs[i][1] : i \in DOMAIN q.aggs} |->
                       LET a == q.aggs[CHOOSE i \in DOMAIN q.aggs : q.aggs[i][1] = n]
                       IN  <<<<n[1], n[2], 0>>,
                             /\ a[2] \notin {"count", "countrows"}
                             /\ q.group = <<>> \/ in.names[a[3]][2]>>]
    IN  IF q.aggs = <<>> /\ q.group = <<>> THEN in
        ELSE [tree |-> Aggregation(keys, aggDefs, in.tree), names |-> aggNames @@ in.names]

translateHaving(q, in) ==
    IF q.having = True THEN in ELSE [in EXCEPT !.tree = Selection(translateExpression(q.having, in.names), @)]

\* The target list: a map for the computed targets; the names and columns of all are the results.
translateTargets(q, in) ==
    LET computed == SelectSeq(q.targets, LAMBDA t : t[2][1] # "name")
        defs == [i \in DOMAIN computed |-> <<<<"map", computed[i][1], 0>>, translateExpression(computed[i][2], in.names)>>]
    IN  [tree |-> IF computed = <<>> THEN in.tree ELSE MapOp(defs, in.tree),
         results |-> [i \in DOMAIN q.targets |->
                        LET t == q.targets[i]
                        IN  <<t[1], IF t[2][1] = "name" THEN in.names[t[2][2]]
                                    ELSE <<<<"map", t[1], 0>>, translateNullable(t[2], in.names)>>>>]]

\* DISTINCT, ORDER BY and LIMIT.
translateOrder(q, in) ==
    LET different == IF q.distinct THEN Projection("distinct", {in.results[i][2][1] : i \in DOMAIN in.results}, in.tree) ELSE in.tree
        ordered == IF q.order = 0 THEN different ELSE Sort(in.results[q.order][2][1], different)
    IN  [in EXCEPT !.tree = IF q.limit = NULL THEN ordered ELSE Limit(q.limit, ordered)]

translateClassicSelectStmt(q, from, context) ==
    translateOrder(q, translateTargets(q, translateHaving(q, performAggregation(q, translateWhere(q,
        [tree |-> from.tree, names |-> from.names @@ context])))))
SelectFrom(q, context) == translateClassicSelectStmt(q, translateFromClause(q.from, context), context)

\* The common table expressions first; results are the names and columns of the targets.
translateSelectStmt(q, context) ==
    SelectFrom(q, FoldLeft(LAMBDA c, w : (<<"with", w[1]>> :> translateSelectStmt(w[2], c)) @@ c, context, q.with))

\* The plan of a statement: its tree under a materialize of the target columns.
MaterializeTargets(sel) ==
    Materialize([i \in DOMAIN sel.results |-> <<<<"result", ToString(i), 0>>, Column(sel.results[i][2][1])>>], sel.tree)
Translate(q) == MaterializeTargets(translateSelectStmt(q, NoRow))

\* The result rows of a plan and of a statement, as bags.
BagOfRows(rows) == [t \in ToSet(rows) |-> Cardinality({i \in DOMAIN rows : rows[i] = t})]
PlanResult(plan, db) ==
    LET rows == Eval(plan, NoRow, db)
    IN  BagOfRows([i \in DOMAIN rows |-> [j \in DOMAIN plan.defs |-> rows[i][plan.defs[j][1]]]])
QueryResult(q, db) == BagOfRows(Meaning(q, NoRow, db))

=============================================================================
