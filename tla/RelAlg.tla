------------------------------- MODULE RelAlg -------------------------------
(***************************************************************************)
(* Plans of the RelAlg dialect: the operators with their predicates,       *)
(* computed columns and inputs, the column sets every rewrite asks for     *)
(* (src/lib/RelAlg/OperatorInterfaceImpl.cpp), and the relation a plan     *)
(* stands for, which the rewrites have to keep.                            *)
(*                                                                         *)
(* A plan is a value.  An operator whose result has several users is one   *)
(* subtree that occurs several times: equal subtrees are the same          *)
(* operator, and rewriting an operator in place is Subst.  An expression   *)
(* is a tuple that starts with its kind, as is the second component of a   *)
(* definition of a column.  Columns are triples scope, name, copy.         *)
(***************************************************************************)
EXTENDS Integers, Sequences, SequencesExt, FiniteSets, FiniteSetsExt, Functions, TLC

CONSTANTS
    Schema,         \* the tables: [cols, key, nullable], sets of field names
    NULL            \* the SQL NULL, a value of no type

-----------------------------------------------------------------------------
(* Operators *)

Operator(op, pred, defs, cols, kids) ==
    [op |-> op, pred |-> pred, defs |-> defs, cols |-> cols, kids |-> kids]

True == <<"bool", TRUE>>
NoPredicate == <<"and", <<>>>>
NoColumn == <<"", "", 0>>
Column(c) == <<"col", c>>

\* relalg.basetable: one column definition per field of the table.
BaseTable(table, alias) ==
    Operator("basetable", <<"table", table>>,
             [i \in 1..Cardinality(Schema[table].cols) |->
                LET f == SetToSeq(Schema[table].cols)[i] IN <<<<alias, f, 0>>, <<"field", f>>>>],
             {}, <<>>)
Selection(pred, rel) == Operator("selection", pred, <<>>, {}, <<rel>>)
MapOp(defs, rel) == Operator("map", True, defs, {}, <<rel>>)
Projection(set, cols, rel) == Operator(set, True, <<>>, cols, <<rel>>)  \* set: all or distinct
Aggregation(keys, defs, rel) == Operator("aggregation", True, defs, keys, <<rel>>)
Renaming(defs, rel) == Operator("renaming", True, defs, {}, <<rel>>)
CrossProduct(l, r) == Operator("crossproduct", True, <<>>, {}, <<l, r>>)
JoinOp(kind, pred, defs, l, r) == Operator(kind, pred, defs, {}, <<l, r>>)
Tmp(cols, rel) == Operator("tmp", True, <<>>, cols, <<rel>>)
Sort(col, rel) == Operator("sort", True, <<>>, {col}, <<rel>>)
Limit(rows, rel) == Operator("limit", <<"const", rows>>, <<>>, {}, <<rel>>)
\* relalg.materialize, the root: the columns of the result in their order.
Materialize(defs, rel) == Operator("materialize", True, defs, {}, <<rel>>)

WithKids(n, kids) == [n EXCEPT !.kids = kids]
WithKid(n, i, kid) == WithKids(n, [j \in DOMAIN n.kids |-> IF j = i THEN kid ELSE n.kids[j]])

\* addPredicate: one more conjunct for the predicate of an operator.
addPredicate(n, pred) == [n EXCEPT !.pred = IF n.pred = NoPredicate THEN pred ELSE <<"and", <<n.pred, pred>>>>]

Created(defs) == {defs[i][1] : i \in DOMAIN defs}
Sources(defs) == {defs[i][2][2] : i \in DOMAIN defs}  \* of a mapping: the columns it renames

-----------------------------------------------------------------------------
(* Expressions: what they read, the plans nested in them *)

Conjuncts(e) == IF e[1] = "and" THEN ToSet(e[2]) ELSE {e}

RECURSIVE ColumnsOf(_)
\* The columns an expression reads (its GetColumnOps; a nested plan is an operand).
ColumnsOf(e) ==
    CASE e[1] = "col" -> {e[2]}
      [] e[1] \in {"and", "or", "oneof"} -> UNION {ColumnsOf(e[2][i]) : i \in DOMAIN e[2]}
      [] e[1] \in {"not", "isnull", "zeroifnull"} -> ColumnsOf(e[2])
      [] e[1] \in {"cmp", "isa", "add"} -> ColumnsOf(e[3]) \union ColumnsOf(e[4])
      [] OTHER -> {}

RECURSIVE Nested(_)
\* The nested operators of an expression in the order of the expression.
Nested(e) ==
    CASE e[1] \in {"exists", "getscalar"} -> <<e>>
      [] e[1] \in {"and", "or", "oneof"} -> FoldLeft(LAMBDA xs, x : xs \o Nested(x), <<>>, e[2])
      [] e[1] \in {"not", "isnull", "zeroifnull"} -> Nested(e[2])
      [] e[1] \in {"cmp", "isa", "add"} -> Nested(e[3]) \o Nested(e[4])
      [] OTHER -> <<>>

RECURSIVE Replace(_, _, _)
\* The expression e with every occurrence of the expression x replaced by y.
Replace(e, x, y) ==
    CASE e = x -> y
      [] e # x /\ e[1] \in {"and", "or", "oneof"} -> <<e[1], [i \in DOMAIN e[2] |-> Replace(e[2][i], x, y)]>>
      [] e # x /\ e[1] \in {"not", "isnull", "zeroifnull"} -> <<e[1], Replace(e[2], x, y)>>
      [] e # x /\ e[1] \in {"cmp", "isa", "add"} -> <<e[1], e[2], Replace(e[3], x, y), Replace(e[4], x, y)>>
      [] OTHER -> e

\* The expressions of an operator: its predicate or those of a map.
Lambdas(n) == <<n.pred>> \o (IF n.op = "map" THEN [i \in DOMAIN n.defs |-> n.defs[i][2]] ELSE <<>>)
NestedIn(n) == FoldLeft(LAMBDA xs, e : xs \o Nested(e), <<>>, Lambdas(n))

\* The operator n with the expression x replaced by y in its lambdas.
ReplaceIn(n, x, y) ==
    [n EXCEPT !.pred = Replace(n.pred, x, y),
              !.defs = IF n.op = "map" THEN [i \in DOMAIN n.defs |-> <<n.defs[i][1], Replace(n.defs[i][2], x, y)>>]
                       ELSE n.defs]

-----------------------------------------------------------------------------
(* The graph of operators *)

\* The operators n reads, its inputs and the plans of its lambdas: one entry per use.
Operands(n) == n.kids \o [i \in DOMAIN NestedIn(n) |-> NestedIn(n)[i][3]]

RECURSIVE PostOrderRec(_)
PostOrderRec(n) == FoldLeft(LAMBDA s, m : s \o PostOrderRec(m), <<>>, Operands(n)) \o <<n>>

\* The operators of a plan, each once, in the order in which the program lists them.
PostOrder(plan) ==
    FoldLeft(LAMBDA s, n : IF Contains(s, n) THEN s ELSE Append(s, n), <<>>, PostOrderRec(plan))
Nodes(plan) == ToSet(PostOrder(plan))

Users(plan, n) == {m \in Nodes(plan) : Contains(Operands(m), n)}
Uses(plan, n) ==
    MapThenSumSet(LAMBDA m : Cardinality({i \in DOMAIN Operands(m) : Operands(m)[i] = n}), Users(plan, n))

RECURSIVE Subst(_, _, _)
RECURSIVE SubstExpr(_, _, _)
\* The plan after every use of the operator old reads new instead.
Subst(n, old, new) ==
    IF n = old THEN new
    ELSE LET kept == [n EXCEPT !.kids = [i \in DOMAIN n.kids |-> Subst(n.kids[i], old, new)]]
         IN  IF NestedIn(n) = <<>> THEN kept
             ELSE [kept EXCEPT !.pred = SubstExpr(n.pred, old, new),
                               !.defs = IF n.op # "map" THEN n.defs
                                        ELSE [i \in DOMAIN n.defs |-> <<n.defs[i][1], SubstExpr(n.defs[i][2], old, new)>>]]
SubstExpr(e, old, new) ==
    FoldLeft(LAMBDA x, nested : Replace(x, nested, <<nested[1], nested[2], Subst(nested[3], old, new)>>), e, Nested(e))

\* A pass that visits the operators in targets in their order and replaces each: a later
\* target is the operator as the earlier replacements left it.
Replaced(acc, n, r) ==
    IF r = n THEN acc ELSE <<Subst(acc[1], n, r), [j \in DOMAIN acc[2] |-> Subst(acc[2][j], n, r)]>>
Walk(plan, targets, Rewrite(_, _)) ==
    FoldLeft(LAMBDA acc, i : Replaced(acc, acc[2][i], Rewrite(acc[1], acc[2][i])), <<plan, targets>>, [i \in DOMAIN targets |-> i])[1]

OfKind(plan, kinds) == SelectSeq(PostOrder(plan), LAMBDA n : n.op \in kinds)

-----------------------------------------------------------------------------
(* The column sets of an operator (OperatorInterfaceImpl.cpp) *)

Joins == {"innerjoin", "semijoin", "antisemijoin", "outerjoin", "singlejoin", "fullouterjoin", "markjoin"}
Mapped == {"outerjoin", "singlejoin", "fullouterjoin"}  \* joins that rename the columns of an input

getCreatedColumns(n) == IF n.op = "materialize" THEN {} ELSE Created(n.defs)

getUsedColumns(n) ==
    LET lambdas == UNION {ColumnsOf(Lambdas(n)[i]) : i \in DOMAIN Lambdas(n)}
    IN  CASE n.op = "aggregation" -> n.cols \union (Sources(n.defs) \ {NoColumn})
          [] n.op \in {"distinct", "sort"} -> n.cols
          [] n.op \in Mapped \union {"renaming", "materialize"} -> lambdas \union Sources(n.defs)
          [] OTHER -> lambdas

RECURSIVE getAvailableColumns(_)
\* The columns of the inputs and the operator's own: what an operator provides unless it says otherwise.
GenericAvailable(n) ==
    getCreatedColumns(n) \union UNION {getAvailableColumns(n.kids[i]) : i \in DOMAIN n.kids}
getAvailableColumns(n) ==
    CASE n.op \in {"semijoin", "antisemijoin"} -> GenericAvailable(n.kids[1])
      [] n.op = "markjoin" -> GenericAvailable(n.kids[1]) \union getCreatedColumns(n)
      [] n.op \in {"outerjoin", "singlejoin"} -> getAvailableColumns(n.kids[1]) \union getCreatedColumns(n)
      [] n.op = "fullouterjoin" -> getCreatedColumns(n)
      [] n.op = "aggregation" -> n.cols \union getCreatedColumns(n)
      [] n.op \in {"all", "distinct"} -> n.cols
      [] n.op = "renaming" -> (getAvailableColumns(n.kids[1]) \ getUsedColumns(n)) \union getCreatedColumns(n)
      [] OTHER -> GenericAvailable(n)

RECURSIVE getFreeColumns(_)
\* The columns an operator or one of its inputs reads that none of its inputs provides.
getFreeColumns(n) ==
    (getUsedColumns(n) \union UNION {getFreeColumns(n.kids[i]) : i \in DOMAIN n.kids})
      \ UNION {getAvailableColumns(n.kids[i]) : i \in DOMAIN n.kids}

isDependentJoin(n) ==
    /\ n.op \in Joins
    /\ \/ getFreeColumns(n.kids[1]) \intersect getAvailableColumns(n.kids[2]) # {}
       \/ getFreeColumns(n.kids[2]) \intersect getAvailableColumns(n.kids[1]) # {}

\* A column keeps its value from the input source of n to the result of n.
PassesThrough(n, source, col) ==
    CASE n.op \in {"semijoin", "antisemijoin", "markjoin", "outerjoin", "singlejoin"} -> n.kids[2] # source
      [] n.op = "fullouterjoin" -> FALSE
      [] n.op = "aggregation" -> col \in n.cols \union getCreatedColumns(n)
      [] n.op \in {"all", "distinct"} -> col \in n.cols
      [] n.op = "renaming" -> col \notin Sources(n.defs)
      [] OTHER -> TRUE

RECURSIVE canColumnReach(_, _)
\* The column comes from target or from below it, through operators that pass it on.
canColumnReach(target, col) ==
    \/ col \in getCreatedColumns(target)
    \/ \E i \in DOMAIN target.kids :
          PassesThrough(target, target.kids[i], col) /\ canColumnReach(target.kids[i], col)

\* ColumnCreatorAnalysis: the operator that computes a column.
Creators(plan, col) == {n \in Nodes(plan) : col \in getCreatedColumns(n)}

RECURSIVE NullableExpr(_, _)
\* The type of a column or of an expression admits NULL.
NullableColumn(plan, c) ==
    \E n \in Creators(plan, c) : \E i \in DOMAIN n.defs :
        /\ n.defs[i][1] = c
        /\ CASE n.op = "basetable" -> n.defs[i][2][2] \in Schema[n.pred[2]].nullable
             [] n.op \in Mapped -> TRUE
             [] n.op = "aggregation" -> n.defs[i][2][1] \notin {"count", "countrows"} /\ (n.cols = {} \/ NullableExpr(plan, Column(n.defs[i][2][2])))
             [] n.op \in {"map", "renaming"} -> NullableExpr(plan, n.defs[i][2])
             [] OTHER -> FALSE
NullableExpr(plan, e) ==
    CASE e[1] = "col" -> NullableColumn(plan, e[2])
      [] e[1] = "getscalar" -> TRUE
      [] e[1] = "const" -> e[2] = NULL
      [] e[1] \in {"and", "or", "oneof"} -> \E i \in DOMAIN e[2] : NullableExpr(plan, e[2][i])
      [] e[1] = "not" -> NullableExpr(plan, e[2])
      [] e[1] \in {"cmp", "add"} -> NullableExpr(plan, e[3]) \/ NullableExpr(plan, e[4])
      [] OTHER -> FALSE

-----------------------------------------------------------------------------
(* The relation a plan stands for, a sequence of rows: functions from columns to values *)

NoRow == [c \in {} |-> NULL]
Nulls(cols) == [c \in cols |-> NULL]

And3(vals) == IF FALSE \in vals THEN FALSE ELSE IF NULL \in vals THEN NULL ELSE TRUE
Or3(vals) == IF TRUE \in vals THEN TRUE ELSE IF NULL \in vals THEN NULL ELSE FALSE
Not3(v) == IF v = NULL THEN NULL ELSE ~v
Compare(op, l, r) ==
    IF l = NULL \/ r = NULL THEN NULL
    ELSE CASE op = "eq" -> l = r
           [] op = "neq" -> l # r
           [] op = "lt" -> l < r
           [] op = "lte" -> l <= r
           [] op = "gt" -> l > r
           [] op = "gte" -> l >= r

\* The value of an aggregate function over the rows of a group; sum and the rest skip NULLs.
AggregateValue(fn, col, rows) ==
    LET vals == SelectSeq([i \in DOMAIN rows |-> IF fn = "countrows" THEN 0 ELSE rows[i][col]], LAMBDA v : v # NULL)
    IN  CASE fn \in {"count", "countrows"} -> Len(vals)
          [] fn = "any" -> IF rows = <<>> THEN NULL ELSE rows[1][col]
          [] fn # "any" /\ vals = <<>> -> NULL
          [] fn = "sum" /\ vals # <<>> -> FoldLeft(LAMBDA a, b : a + b, 0, vals)
          [] fn = "min" /\ vals # <<>> -> Min(ToSet(vals))
          [] fn = "max" /\ vals # <<>> -> Max(ToSet(vals))

RECURSIVE EvalExpr(_, _, _)
RECURSIVE Eval(_, _, _)

\* The value of an expression for a row t that holds every column in scope, in the database db.
EvalExpr(e, t, db) ==
    CASE e[1] = "col" -> t[e[2]]
      [] e[1] \in {"const", "bool"} -> e[2]
      [] e[1] = "and" -> And3({EvalExpr(e[2][i], t, db) : i \in DOMAIN e[2]})
      [] e[1] = "or" -> Or3({EvalExpr(e[2][i], t, db) : i \in DOMAIN e[2]})
      [] e[1] = "oneof" -> Or3({Compare("eq", EvalExpr(e[2][1], t, db), EvalExpr(e[2][i], t, db)) : i \in 2..Len(e[2])})
      [] e[1] = "not" -> Not3(EvalExpr(e[2], t, db))
      [] e[1] = "isnull" -> EvalExpr(e[2], t, db) = NULL
      [] e[1] = "zeroifnull" -> LET v == EvalExpr(e[2], t, db) IN IF v = NULL THEN 0 ELSE v
      [] e[1] = "cmp" -> Compare(e[2], EvalExpr(e[3], t, db), EvalExpr(e[4], t, db))
      [] e[1] = "isa" -> EvalExpr(e[3], t, db) = EvalExpr(e[4], t, db)
      [] e[1] = "add" -> LET l == EvalExpr(e[3], t, db)  r == EvalExpr(e[4], t, db)
                         IN  IF l = NULL \/ r = NULL THEN NULL ELSE l + r
      [] e[1] = "exists" -> Eval(e[3], t, db) # <<>>
      [] e[1] = "getscalar" -> LET rows == Eval(e[3], t, db) IN IF rows = <<>> THEN NULL ELSE rows[1][e[2]]

\* The rows of an operator; the right input of a join may read the row of the left one, and
\* env is the row of the operators around a nested plan.
Eval(n, env, db) ==
    LET in == Eval(n.kids[1], env, db)
        Holds(t) == EvalExpr(n.pred, t @@ env, db) = TRUE
        Def(c) == n.defs[CHOOSE j \in DOMAIN n.defs : n.defs[j][1] = c][2]
        Computed(t) == [c \in Created(n.defs) |-> EvalExpr(Def(c), t @@ env, db)]
        Partners(l) == SelectSeq(Eval(n.kids[2], l @@ env, db), LAMBDA r : Holds(r @@ l))
        EachLeft(Result(_, _)) == FoldLeft(LAMBDA rows, l : rows \o (LET p == Partners(l) IN Result(l, p)), <<>>, in)
    IN  CASE n.op = "basetable" ->
               [i \in DOMAIN db[n.pred[2]] |-> [c \in getCreatedColumns(n) |-> db[n.pred[2]][i][Def(c)[2]]]]
          [] n.op = "selection" -> SelectSeq(in, Holds)
          [] n.op = "map" -> [i \in DOMAIN in |-> Computed(in[i]) @@ in[i]]
          [] n.op \in {"all", "tmp"} -> [i \in DOMAIN in |-> Restrict(in[i], n.cols)]
          [] n.op = "distinct" -> SetToSeq({Restrict(in[i], n.cols) : i \in DOMAIN in})
          [] n.op = "aggregation" ->
               LET groups == IF n.cols = {} THEN {NoRow} ELSE {Restrict(in[i], n.cols) : i \in DOMAIN in}
                   order == SetToSeq(groups)
                   Of(g) == SelectSeq(in, LAMBDA t : \A c \in n.cols : t[c] = g[c])
               IN  [i \in DOMAIN order |->
                      order[i] @@ [c \in getCreatedColumns(n) |-> AggregateValue(Def(c)[1], Def(c)[2], Of(order[i]))]]
          [] n.op = "renaming" -> [i \in DOMAIN in |-> Computed(in[i]) @@ Restrict(in[i], DOMAIN in[i] \ Sources(n.defs))]
          [] n.op = "sort" -> LET c == CHOOSE col \in n.cols : TRUE IN SortSeq(in, LAMBDA s, t : s[c] < t[c])
          [] n.op = "limit" -> SubSeq(in, 1, Min({n.pred[2], Len(in)}))
          [] n.op \in {"crossproduct", "innerjoin"} -> EachLeft(LAMBDA l, p : [i \in DOMAIN p |-> l @@ p[i]])
          [] n.op = "semijoin" -> SelectSeq(in, LAMBDA l : Partners(l) # <<>>)
          [] n.op = "antisemijoin" -> SelectSeq(in, LAMBDA l : Partners(l) = <<>>)
          [] n.op = "markjoin" -> EachLeft(LAMBDA l, p : <<(n.defs[1][1] :> (p # <<>>)) @@ l>>)
          [] n.op \in {"outerjoin", "singlejoin"} ->
               EachLeft(LAMBDA l, p : IF p = <<>> THEN <<Nulls(getCreatedColumns(n)) @@ l>>
                                      ELSE [i \in DOMAIN p |-> Computed(p[i] @@ l) @@ l])
          [] n.op = "fullouterjoin" ->
               LET right == Eval(n.kids[2], env, db)
                   alone == SelectSeq(right, LAMBDA r : \A i \in DOMAIN in : ~Holds(in[i] @@ r))
                   Pad(t) == Computed(t @@ Nulls(getAvailableColumns(n.kids[1]) \union getAvailableColumns(n.kids[2])))
               IN  EachLeft(LAMBDA l, p : IF p = <<>> THEN <<Pad(l)>> ELSE [i \in DOMAIN p |-> Pad(p[i] @@ l)])
                   \o [i \in DOMAIN alone |-> Pad(alone[i])]
          [] n.op = "materialize" -> [i \in DOMAIN in |-> Computed(in[i])]

=============================================================================
