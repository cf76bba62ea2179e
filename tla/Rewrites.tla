------------------------------ MODULE Rewrites ------------------------------
(***************************************************************************)
(* The rewrites of a plan in src/lib/RelAlg/Transforms that move, split,   *)
(* derive and merge predicates, turn nested plans into joins, fold columns *)
(* and name shared results.  Each is a function from plans to plans.       *)
(***************************************************************************)
EXTENDS SqlQuery

-----------------------------------------------------------------------------
(* InferNotNullConditions.cpp *)

RECURSIVE AndedResults(_)
\* isAndedResult: the parts of a predicate that have to be TRUE for it to be TRUE.
AndedResults(e) ==
    IF e[1] = "and" THEN FoldLeft(LAMBDA s, x : s \o AndedResults(x), <<>>, e[2]) ELSE <<e>>

\* addNullCheck: the operand is a column of a nullable type that the selection's input provides.
addNullCheck(plan, sel, pred, v) ==
    IF v[1] = "col" /\ NullableColumn(plan, v[2]) /\ canColumnReach(sel, v[2])
    THEN <<"and", <<pred, <<"not", <<"isnull", v>>>>>>>>
    ELSE pred

\* The values whose NULL makes a part of a predicate NULL.
Compared(plan, e) ==
    CASE e[1] = "cmp" -> <<e[3], e[4]>>
      [] e[1] = "oneof" /\ \A i \in 2..Len(e[2]) : ~NullableExpr(plan, e[2][i]) -> <<e[2][1]>>
      [] OTHER -> <<>>

InferNotNull(plan) ==
    Walk(plan, OfKind(plan, {"selection"}),
         LAMBDA p, sel :
           LET parts == AndedResults(sel.pred)
               compared == FlattenSeq([i \in DOMAIN parts |-> Compared(p, parts[i])])
           IN  [sel EXCEPT !.pred = FoldLeft(LAMBDA pred, v : addNullCheck(p, sel, pred, v), sel.pred, compared)])

-----------------------------------------------------------------------------
(* DecomposeLambdas.cpp *)

DecomposeInnerJoin(join) == Selection(join.pred, CrossProduct(join.kids[1], join.kids[2]))

\* checkRestriction: the scopes of the columns an expression reads; at most one restricts that scope.
Scopes(e) == {<<c[1], c[3]>> : c \in ColumnsOf(e)}
RestrictionsOf(conj, scope) == SelectSeq(conj[2], LAMBDA e : Cardinality(Scopes(e)) <= 1 /\ Scopes(e) = scope)

\* From (a1 AND b1) OR (a2 AND b2) follows a1 OR a2 for the scope of a and the same for b.
deriveRestrictionsFromOr(or, tree) ==
    LET ands == or[2]
        scopes == {s \in UNION {{Scopes(e) : e \in ToSet(ands[i][2])} : i \in DOMAIN ands} :
                     Cardinality(s) <= 1 /\ \A i \in DOMAIN ands : RestrictionsOf(ands[i], s) # <<>>}
        All(es) == IF Len(es) = 1 THEN es[1] ELSE <<"and", es>>
    IN  IF \E i \in DOMAIN ands : ands[i][1] # "and" THEN tree
        ELSE FoldLeft(LAMBDA t, s : Selection(<<"or", [i \in DOMAIN ands |-> All(RestrictionsOf(ands[i], s))]>>, t),
                      tree, SetToSeq(scopes))

RECURSIVE decomposeSelection(_, _)
decomposeSelection(e, tree) ==
    IF e[1] = "and" THEN FoldLeft(LAMBDA t, x : decomposeSelection(x, t), tree, e[2])
    ELSE Selection(e, IF e[1] = "or" THEN deriveRestrictionsFromOr(e, tree) ELSE tree)

RECURSIVE decomposeOuterJoin(_, _, _)
\* The predicate that stays at the join (none: an empty sequence) and the right input under the
\* selections made of the parts that only read it.
decomposeOuterJoin(e, right, available) ==
    IF e[1] = "and"
    THEN LET parts == FoldLeft(LAMBDA acc, x : LET d == decomposeOuterJoin(x, acc[2], available) IN <<acc[1] \o d[1], d[2]>>,
                               <<<<>>, right>>, e[2])
         IN  <<<<<<"and", parts[1]>>>>, parts[2]>>
    ELSE IF ColumnsOf(e) \subseteq available THEN <<<<>>, Selection(e, right)>>
    ELSE <<<<e>>, right>>

decomposeMap(map) == FoldLeft(LAMBDA tree, def : MapOp(<<def>>, tree), map.kids[1], map.defs)

DecomposeInnerJoins(plan) == Walk(plan, OfKind(plan, {"innerjoin"}), LAMBDA p, n : DecomposeInnerJoin(n))
DecomposeSelections(plan) == Walk(plan, OfKind(plan, {"selection"}), LAMBDA p, n : decomposeSelection(n.pred, n.kids[1]))
DecomposeMaps(plan) == Walk(plan, OfKind(plan, {"map"}), LAMBDA p, n : decomposeMap(n))
DecomposeOuterJoins(plan) ==
    Walk(plan, OfKind(plan, {"outerjoin"}),
         LAMBDA p, n : LET d == decomposeOuterJoin(n.pred, n.kids[2], getAvailableColumns(n.kids[2]))
                       IN  WithKid([n EXCEPT !.pred = IF d[1] = <<>> THEN NoPredicate ELSE d[1][1]], 2, d[2]))
DecomposeLambdas(plan) == DecomposeOuterJoins(DecomposeMaps(DecomposeSelections(DecomposeInnerJoins(plan))))

-----------------------------------------------------------------------------
(* ImplicitToExplicitJoins.cpp *)

AllCreated(plan) == UNION {getCreatedColumns(n) : n \in Nodes(plan)}
\* getUniqueScope: a column of a new scope.
Fresh(scope, name, used) == <<scope, name, Min({k \in 0..Cardinality(used) : <<scope, name, k>> \notin used})>>

\* The operator n after the nested plan of x has become a join with its input.
handleScalarBoolOp(n, x, used) ==
    LET mark == Fresh("markjoin", "markattr", used)
    IN  CASE n.op = "selection" /\ n.pred = x -> JoinOp("semijoin", NoPredicate, <<>>, n.kids[1], x[3])
          [] n.op = "selection" /\ n.pred = <<"not", x>> -> JoinOp("antisemijoin", NoPredicate, <<>>, n.kids[1], x[3])
          [] OTHER -> WithKid(ReplaceIn(n, x, Column(mark)), 1,
                              JoinOp("markjoin", NoPredicate, <<<<mark, <<"mark", NoColumn>>>>>>, n.kids[1], x[3]))
handleGetScalar(n, x, used) ==
    LET sj == Fresh("singlejoin", "sjattr", used)
    IN  WithKid(ReplaceIn(n, x, Column(sj)), 1, JoinOp("singlejoin", NoPredicate, <<<<sj, Column(x[2])>>>>, n.kids[1], x[3]))

ImplicitToExplicitJoins(plan) ==
    Walk(plan, SelectSeq(PostOrder(plan), LAMBDA n : NestedIn(n) # <<>>),
         LAMBDA p, n :
           FoldLeft(LAMBDA m, x : LET used == AllCreated(p) \union AllCreated(m)
                                  IN  IF x[1] = "exists" THEN handleScalarBoolOp(m, x, used) ELSE handleGetScalar(m, x, used),
                    n, NestedIn(n)))

-----------------------------------------------------------------------------
(* Pushdown.cpp, with the tables of RelAlgOpsInterfaces.h *)

lPushable == {"intersect", "except", "crossproduct", "innerjoin", "semijoin", "antisemijoin", "outerjoin", "singlejoin"}
rPushable == {"intersect", "crossproduct", "innerjoin"}
reorderable == {"distinct", "all", "selection", "map"}

RECURSIVE pushdown(_, _, _)
\* The selection with predicate pred moved below curr as far as the columns it reads allow.
pushdown(plan, pred, curr) ==
    LET AllReach(i) == \A c \in ColumnsOf(pred) : canColumnReach(curr.kids[i], c)
        PushInto(i) == WithKid(curr, i, pushdown(plan, pred, curr.kids[i]))
        left == curr.op \in lPushable \union reorderable /\ AllReach(1)
        right == curr.op \in rPushable /\ AllReach(2)
    IN  CASE Uses(plan, curr) > 1 \/ ~(left \/ right) -> Selection(pred, curr)
          [] left /\ Uses(plan, curr) <= 1 -> PushInto(1)
          [] OTHER -> PushInto(2)

\* Mutant: a selection of the rows with a NULL is taken for one without them.
isNullCheckOnColumn(sel, cols) == sel.pred[1] = "isnull" /\ sel.pred[2][1] = "col" /\ sel.pred[2][2] \in cols
isNotNullCheckOnColumn(sel, cols) ==
    /\ sel.pred[1] = "not" /\ sel.pred[2][1] = "isnull" /\ sel.pred[2][2][1] = "col"
    /\ sel.pred[2][2][2] \in cols

RECURSIVE NotNullAbove(_, _, _)
\* Along the selections above n, each the only user of the one below, one rejects a NULL in cols.
NotNullAbove(plan, n, cols) ==
    /\ Uses(plan, n) = 1
    /\ \E user \in Users(plan, n) :
         /\ user.op = "selection"
         /\ isNotNullCheckOnColumn(user, cols) \/ NotNullAbove(plan, user, cols)

\* OuterJoinToInnerJoin and SingleJoinToInnerJoin: the columns of the join become those of a map.
ToInnerJoin(join) == MapOp(join.defs, JoinOp("innerjoin", join.pred, <<>>, join.kids[1], join.kids[2]))

PushSelections(plan) == Walk(plan, OfKind(plan, {"selection"}), LAMBDA p, sel : pushdown(p, sel.pred, sel.kids[1]))
JoinsToInnerJoins(plan) ==
    Walk(plan, OfKind(plan, {"outerjoin", "singlejoin"}),
         LAMBDA p, n : IF NotNullAbove(p, n, getCreatedColumns(n)) THEN ToInnerJoin(n) ELSE n)
Pushdown(plan) == JoinsToInnerJoins(PushSelections(plan))

-----------------------------------------------------------------------------
(* ColumnFolding.cpp *)

ColumnFoldable == {"map", "selection", "crossproduct", "innerjoin", "semijoin", "antisemijoin"}

\* replaceColumnUsesInLamda: the columns that a map only copied are read where they come from.
replaceColumnUses(n, mappings) ==
    FoldLeft(LAMBDA m, c : ReplaceIn(m, Column(c), Column(mappings[c])), n, SetToSeq(DOMAIN mappings))
foldColumns(n, mappings) ==
    IF n.op # "map" THEN mappings
    ELSE [c \in {n.defs[i][1] : i \in {j \in DOMAIN n.defs : n.defs[j][2][1] = "col"}} |->
            n.defs[CHOOSE i \in DOMAIN n.defs : n.defs[i][1] = c][2][2]] @@ mappings

RECURSIVE FoldChain(_, _, _, _)
FoldAbove(state, n, mappings, foldables) ==
    LET above == {j \in foldables : state.nodes[j] \in Users(state.plan, n)}
    IN  IF Uses(state.plan, n) = 1 /\ above # {}
        THEN FoldChain(state, CHOOSE j \in above : TRUE, foldColumns(n, mappings), foldables)
        ELSE state
FoldInto(state, i, n, new, mappings, foldables) ==
    FoldAbove([plan |-> Subst(state.plan, n, new),
               nodes |-> [j \in DOMAIN state.nodes |-> Subst(state.nodes[j], n, new)],
               handled |-> state.handled \union {i}], new, mappings, foldables)
\* From the i-th operator upwards, while the next operator is foldable and the only user:
\* state is [plan, nodes, handled], nodes as the changes so far left them.
FoldChain(state, i, mappings, foldables) ==
    LET n == state.nodes[i] IN FoldInto(state, i, n, replaceColumnUses(n, mappings), mappings, foldables)

\* eliminateDeadColumns: a map keeps the columns some operator reads, a map without one goes.
eliminateDeadColumns(map, used) ==
    LET kept == SelectSeq(map.defs, LAMBDA d : d[1] \in used)
    IN  IF kept = <<>> THEN map.kids[1] ELSE [map EXCEPT !.defs = kept]

FoldAll(plan, nodes) ==
    LET foldables == {i \in DOMAIN nodes : nodes[i].op \in ColumnFoldable}
    IN  FoldLeft(LAMBDA st, i : IF i \in foldables /\ i \notin st.handled THEN FoldChain(st, i, NoRow, foldables) ELSE st,
                 [plan |-> plan, nodes |-> nodes, handled |-> {}], [i \in DOMAIN nodes |-> i]).plan
EliminateDeadColumns(plan) ==
    LET used == UNION {getUsedColumns(n) : n \in Nodes(plan)}
    IN  Walk(plan, OfKind(plan, {"map"}), LAMBDA p, n : eliminateDeadColumns(n, used))
ColumnFolding(plan) == EliminateDeadColumns(FoldAll(plan, PostOrder(plan)))

-----------------------------------------------------------------------------
(* CombinePredicates.cpp *)

CombinePredicates(plan) ==
    Walk(plan, OfKind(plan, {"selection"}),
         LAMBDA p, sel : LET lower == sel.kids[1]
                         IN  IF lower.op = "innerjoin" /\ Uses(p, lower) = 1
                             THEN [lower EXCEPT !.pred = <<"and", <<lower.pred, sel.pred>>>>]
                             ELSE sel)

-----------------------------------------------------------------------------
(* IntroduceTmp.cpp *)

RECURSIVE UsedAbove(_, _)
\* getUsed: the columns an operator and everything above it reads.
UsedAbove(plan, n) == getUsedColumns(n) \union UNION {UsedAbove(plan, m) : m \in Users(plan, n)}

IntroduceTmp(plan) ==
    Walk(plan, PostOrder(plan),
         LAMBDA p, n : IF Uses(p, n) > 1
                       THEN Tmp(UNION {UsedAbove(p, m) : m \in Users(p, n)} \intersect getAvailableColumns(n), n)
                       ELSE n)

-----------------------------------------------------------------------------
(* Simple unnesting, of src/lib/RelAlg/Transforms/Unnesting.cpp: a join whose one input reads
   columns of the other becomes a join of independent inputs, by moving the selections that
   read them into the join predicate *)

Free(n, cols) == getFreeColumns(n) \intersect cols # {}

\* A selection below an aggregation may leave it as a comparison of an inner column, which becomes
\* a key, with another column.
EqualsColumn(e) == e[1] = "cmp" /\ e[2] = "eq" /\ e[3][1] = "col" /\ e[4][1] = "col"
InnerColumn(e, attributes) == IF e[4][2] \in attributes THEN e[3][2] ELSE e[4][2]

\* The first of getAllSubOperators is the operator itself: the search in a cross product that reads
\* an outer column calls itself with the same cross product and does not return.
StackOverflow == Operator("overflow", True, <<>>, {}, <<>>)

RECURSIVE collectSimpleDependencies(_, _)
\* ok: the dependencies can be moved; preds: the predicates that move; out: op without them; kept:
\* op with them, after what has been done to the aggregations on the way.
collectSimpleDependencies(op, attributes) ==
    LET Result(ok, preds, out, kept) == [ok |-> ok, preds |-> preds, out |-> out, kept |-> kept]
        first == collectSimpleDependencies(op.kids[1], attributes)
        readsOuter == getUsedColumns(op) \intersect attributes # {}
    IN  IF ~Free(op, attributes) THEN Result(TRUE, <<>>, op, op)
        ELSE CASE op.op = "crossproduct" -> Result(FALSE, <<>>, StackOverflow, StackOverflow)
               [] op.op = "selection" ->
                    LET moves == getUsedColumns(op) \ getAvailableColumns(op) \subseteq attributes
                    IN  Result(first.ok, (IF moves THEN <<op.pred>> ELSE <<>>) \o first.preds,
                               IF moves THEN first.out ELSE Selection(op.pred, first.out), Selection(op.pred, first.kept))
               [] op.op = "aggregation" ->
                    LET ok == ~readsOuter /\ first.ok /\ \A i \in DOMAIN first.preds : EqualsColumn(first.preds[i])
                        keys == op.cols \union {InnerColumn(first.preds[i], attributes) : i \in DOMAIN first.preds}
                    IN  IF ok THEN Result(TRUE, first.preds, Aggregation(keys, op.defs, first.out), Aggregation(keys, op.defs, first.kept))
                        ELSE Result(FALSE, <<>>, op, WithKids(op, <<IF readsOuter THEN op.kids[1] ELSE first.kept>>))
               [] op.op = "map" /\ ~readsOuter ->
                    Result(first.ok, first.preds, WithKids(op, <<first.out>>), WithKids(op, <<first.kept>>))
               [] OTHER -> Result(FALSE, <<>>, op, op)

\* combine: the predicate of the join and the predicates that move into it.
combine(join, preds) ==
    [join EXCEPT !.pred = <<"and", (IF join.pred = NoPredicate THEN <<>> ELSE <<join.pred>>) \o preds>>]

-----------------------------------------------------------------------------
(* General unnesting: a join with the distinct values of the columns that are read is pushed down to
   where they are read *)

\* The columns of a new scope for the renamed copies of cols.
NewCopies(cols, used) == LET k == 1 + Max({c[3] : c \in used}) IN [c \in cols |-> <<c[1], c[2], k>>]

\* The join with the columns of the side renamed to copies, which have to be equal to the columns
\* they are copies of or NULL together with them.
JoinWithCopies(join, side, copies, order) ==
    LET defs == [i \in DOMAIN order |-> <<copies[order[i]], Column(order[i])>>]
    IN  FoldLeft(LAMBDA j, c : addPredicate(j, <<"isa", "", Column(c), Column(copies[c])>>),
                 WithKid(join, side, Renaming(defs, join.kids[side])), order)
\* The join of its new inputs; joinDependent: both carry the columns cols of the pushed join.
handleJoin(join, joinDependent, side, cols, used) ==
    IF ~joinDependent THEN join
    ELSE JoinWithCopies(join, side, NewCopies(cols, used \union AllCreated(join.kids[1]) \union AllCreated(join.kids[2])), SetToSeq(cols))

RECURSIVE pushDependJoinDown(_, _, _)
\* Both inputs, those with pushed[i] joined with d.
PushedKids(d, op, used, pushed) ==
    LET left == IF pushed[1] THEN pushDependJoinDown(d, op.kids[1], used) ELSE op.kids[1]
    IN  WithKids(op, <<left, IF pushed[2] THEN pushDependJoinDown(d, op.kids[2], used \union AllCreated(left)) ELSE op.kids[2]>>)
PushedJoin(d, op, used, pushed) == handleJoin(PushedKids(d, op, used, pushed), pushed[1] /\ pushed[2], 2, d.cols, used)
\* The join of op with the relation d whose columns op reads; used are the columns in use elsewhere.
pushDependJoinDown(d, op, used) ==
    LET reads == [i \in DOMAIN op.kids |-> Free(op.kids[i], d.cols)]
        each == [i \in DOMAIN op.kids |-> pushDependJoinDown(d, op.kids[i], used)]
    IN  IF ~Free(op, d.cols) THEN CrossProduct(op, d)
        ELSE CASE op.op = "crossproduct" -> PushedKids(d, op, used, reads)
               [] op.op = "aggregation" -> Aggregation(op.cols \union d.cols, op.defs, each[1])
               [] op.op \in {"all", "distinct"} -> Projection(op.op, op.cols \union d.cols, each[1])
               [] op.op \in Joins ->
                    PushedJoin(d, op, used, <<op.op # "innerjoin" \/ reads[1] \/ ~reads[2], op.op = "fullouterjoin" \/ reads[2]>>)
               [] OTHER -> WithKids(op, each)

\* The other input than the provider becomes child.
Rejoin(join, provider, child) == WithKid(join, 3 - provider, child)

\* The join tried after simple unnesting, or general unnesting of it.
GeneralUnnesting(plan, join, provider, cols) ==
    LET d == Projection("distinct", cols, join.kids[provider])
    IN  handleJoin(Rejoin(join, provider, pushDependJoinDown(d, join.kids[3 - provider], AllCreated(plan))),
                   TRUE, 3 - provider, cols, AllCreated(plan))
Unnested(plan, tried, simple, provider, cols) ==
    IF simple /\ ~isDependentJoin(tried) THEN tried ELSE GeneralUnnesting(plan, tried, provider, cols)
trySimpleUnnesting(join, provider, simple) ==
    IF simple.ok THEN Rejoin(combine(join, simple.preds), provider, simple.out) ELSE Rejoin(join, provider, simple.kept)
UnnestFrom(plan, join, provider, cols, simple) ==
    Unnested(plan, trySimpleUnnesting(join, provider, simple), simple.ok, provider, cols)

\* One dependent join; a join of two inputs that read each other's columns stays.
UnnestSide(plan, join, provider, cols) ==
    UnnestFrom(plan, join, provider, cols, collectSimpleDependencies(join.kids[3 - provider], getAvailableColumns(join.kids[provider])))
UnnestJoin(plan, join) ==
    LET dependentLeft == getFreeColumns(join.kids[1]) \intersect getAvailableColumns(join.kids[2])
        dependentRight == getFreeColumns(join.kids[2]) \intersect getAvailableColumns(join.kids[1])
    IN  IF (dependentLeft = {}) = (dependentRight = {}) THEN join
        ELSE UnnestSide(plan, join, IF dependentLeft = {} THEN 1 ELSE 2, dependentLeft \union dependentRight)

Unnest(plan) == Walk(plan, OfKind(plan, Joins), UnnestJoin)

-----------------------------------------------------------------------------
(* Functional dependencies (FunctionalDependencies.h, and the getFDs of OperatorInterfaceImpl.cpp):
   pairs of column sets; the key that comes with them serves the choice of implementations only *)

\* Both operands of an equality are columns.
EqualColumns(pred) == IF EqualsColumn(pred) THEN {<<{pred[3][2]}, {pred[4][2]}>>, <<{pred[4][2]}, {pred[3][2]}>>} ELSE {}

RECURSIVE expand(_, _)
expand(fds, cols) ==
    LET more == cols \union UNION {fd[2] : fd \in {f \in fds : f[1] \subseteq cols}}
    IN  IF more = cols THEN cols ELSE expand(fds, more)

\* The keys are dropped one after the other, each as long as the others still determine it.
reduce(fds, keys) ==
    FoldLeft(LAMBDA res, k : IF keys \subseteq expand(fds, res \ {k}) THEN res \ {k} ELSE res, keys, SetToSeq(keys))

RECURSIVE getFDs(_)
getFDs(n) ==
    LET below == UNION {getFDs(n.kids[i]) : i \in DOMAIN n.kids}
    IN  CASE n.op = "basetable" ->
               LET key == Schema[n.pred[2]].key
                   pk == {n.defs[i][1] : i \in {j \in DOMAIN n.defs : n.defs[j][2][2] \in key}}
               IN  IF key = {} THEN {} ELSE {<<pk, getAvailableColumns(n) \ pk>>}
          [] n.op \in {"selection", "innerjoin"} -> below \union EqualColumns(n.pred)
          [] n.op \in {"semijoin", "antisemijoin"} -> getFDs(n.kids[1])
          [] OTHER -> below

-----------------------------------------------------------------------------
(* ReduceAggrKeyPattern: a shorter list of grouping columns *)

\* The columns an attribute of an operator names, renamed by mapping.
replaceUsages(n, mapping) ==
    LET To(c) == IF c \in DOMAIN mapping THEN mapping[c] ELSE c
        Renamed(d) == IF n.op \in {"aggregation", "renaming", "materialize"} \union Mapped THEN <<d[1], <<d[2][1], To(d[2][2])>>>> ELSE d
    IN  [replaceColumnUses(n, mapping) EXCEPT
           !.defs = IF n.op = "map" THEN @ ELSE [i \in DOMAIN n.defs |-> Renamed(n.defs[i])],
           !.cols = {To(c) : c \in n.cols}]

\* Mutant: the operators above the aggregation go on to read the grouping columns.
ReplaceNowhere(n, listed, mapping) == n
RECURSIVE ReplaceAbove(_, _, _)
\* replaceUsagesAfter: the operators listed after the aggregation read the new columns.
ReplaceAbove(n, listed, mapping) ==
    IF Contains(listed, n) THEN n
    ELSE replaceUsages(WithKids(n, [i \in DOMAIN n.kids |-> ReplaceAbove(n.kids[i], listed, mapping)]), mapping)

ReduceAggrKey(plan, aggr) ==
    LET reducedKeys == reduce(getFDs(aggr.kids[1]), aggr.cols)
        toMap == SetToSeq(aggr.cols \ reducedKeys)
        mapping == [c \in ToSet(toMap) |-> Fresh("aggr", c[2], AllCreated(plan))]
        reduced == Aggregation(reducedKeys, aggr.defs \o [i \in DOMAIN toMap |-> <<mapping[toMap[i]], <<"any", toMap[i]>>>>], aggr.kids[1])
        order == PostOrder(plan)
        until == CHOOSE i \in DOMAIN order : order[i] = aggr
    IN  IF toMap = <<>> THEN plan
        ELSE Subst(ReplaceAbove(plan, SubSeq(order, 1, until), mapping), aggr, reduced)

RECURSIVE ReduceGroupByKeys(_)
ReduceGroupByKeys(plan) ==
    LET reducible == SelectSeq(OfKind(plan, {"aggregation"}), LAMBDA n : reduce(getFDs(n.kids[1]), n.cols) # n.cols)
    IN  IF reducible = <<>> THEN plan ELSE ReduceGroupByKeys(ReduceAggrKey(plan, reducible[1]))

-----------------------------------------------------------------------------
(* PropagateConstraints.cpp, ExpandTransitiveEqualities: the equivalence classes of columns, disjoint sets *)

\* The classes with those of from merged in.
mergeClasses(into, from) ==
    FoldLeft(LAMBDA cs, k : LET hit == {j \in cs : j \intersect k # {}} IN (cs \ hit) \union {k \union UNION hit},
             into, SetToSeq(from))
\* The equalities that neither of the two had.
additionalConstraints(into, from) ==
    LET merged == mergeClasses(into, from)
    IN  {p \in SUBSET UNION merged : /\ Cardinality(p) = 2
                                     /\ \E k \in merged : p \subseteq k
                                     /\ ~\E k \in into \union from : p \subseteq k}

\* The classes of an operator that the pass has seen, and the equalities it adds to them.
RECURSIVE EqualitiesOf(_, _)
EqualitiesOf(n, inserted) ==
    LET Of(m) == IF m \in inserted THEN {} ELSE EqualitiesOf(m, inserted).classes
        below == CASE n.op \in {"crossproduct", "innerjoin"} -> <<Of(n.kids[1]), Of(n.kids[2])>>
                   [] Len(n.kids) = 1 -> <<Of(n.kids[1])>>
                   [] OTHER -> <<>>
        own == IF n.op = "selection" /\ EqualsColumn(n.pred) /\ n.pred[3] # n.pred[4] THEN <<{{n.pred[3][2], n.pred[4][2]}}>> ELSE <<>>
    IN  FoldLeft(LAMBDA acc, from : [classes |-> mergeClasses(acc.classes, from),
                                     added |-> acc.added \union additionalConstraints(acc.classes, from)],
                 [classes |-> {}, added |-> {}], below \o own)

\* A selection per new equality of two columns that the operator provides; the selections are
\* not visited by the pass and have no classes.
ExpandTransitiveEqualities(plan) ==
    LET Visit(acc, i) ==
            LET n == acc.nodes[i]
                new == {p \in EqualitiesOf(n, acc.inserted).added : p \subseteq getAvailableColumns(n)}
                Equality(p) == <<"cmp", "eq", Column(SetToSeq(p)[1]), Column(SetToSeq(p)[2])>>
                stack == FoldLeft(LAMBDA st, p : Append(st, Selection(Equality(p), Last(st))), <<n>>, SetToSeq(new))
                top == Last(stack)
            IN  IF new = {} THEN acc
                ELSE [plan |-> Subst(acc.plan, n, top),
                      nodes |-> [j \in DOMAIN acc.nodes |-> IF j <= i THEN acc.nodes[j] ELSE Subst(acc.nodes[j], n, top)],
                      inserted |-> acc.inserted \union ToSet(Tail(stack))]
        nodes == SelectSeq(PostOrder(plan), LAMBDA n : n.op # "materialize")
    IN  FoldLeft(Visit, [plan |-> plan, nodes |-> nodes, inserted |-> {}], [i \in DOMAIN nodes |-> i]).plan

=============================================================================
