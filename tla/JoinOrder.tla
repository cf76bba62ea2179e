------------------------------ MODULE JoinOrder -----------------------------
(***************************************************************************)
(* The join order (OptimizeJoinOrder.cpp and queryopt): the hypergraph of  *)
(* a region of selections, cross products and joins, the plans DPHyp and   *)
(* GOO consider for it, and the tree a plan is turned into.                *)
(*                                                                         *)
(* Costs are estimates from samples and constants.  They are left out: an  *)
(* entry of the table is the set of the plans it may hold for some costs,  *)
(* and the tree of a region is any that its last entry may hold.           *)
(***************************************************************************)
EXTENDS Rewrites

\* Nodes of a graph are numbers from 0: the inputs of the region, then, counted down from the last
\* number, a pseudo node for each join that creates columns.
-----------------------------------------------------------------------------
(* The regions *)

BinaryType(n) == IF n.op = "singlejoin" THEN "outerjoin" ELSE n.op

\* The operator itself and its first child are asked for the columns (getAllSubOperators).
isUnsupportedOp(n) ==
    CASE n.op \in {"crossproduct", "selection"} -> FALSE
      [] n.op \in Joins -> ~(/\ getUsedColumns(n) \intersect getAvailableColumns(n) # {}
                             /\ getUsedColumns(n) \intersect getAvailableColumns(n.kids[1]) # {})
      [] OTHER -> TRUE

isOptimizationRoot(plan, n) ==
    Uses(plan, n) > 1 \/ isUnsupportedOp(n) \/ \E u \in Users(plan, n) : u.op = "materialize"

\* The tops of the regions: roots, and the inputs of operators without an order.
RegionHeads(plan) ==
    SelectSeq(PostOrder(plan), LAMBDA n : /\ ~isUnsupportedOp(n)
                                          /\ \/ isOptimizationRoot(plan, n)
                                             \/ \E u \in Users(plan, n) : isUnsupportedOp(u))

RECURSIVE Inputs(_, _)
\* The inputs of a region in their order: what is optimized already or has no order of its own.
Inputs(n, optimized) ==
    IF n \in optimized \/ isUnsupportedOp(n) THEN <<n>>
    ELSE FoldLeft(LAMBDA s, m : s \o Inputs(m, optimized), <<>>, n.kids)

RECURSIVE RegionOps(_, _)
RegionOps(n, optimized) ==
    IF n \in optimized \/ isUnsupportedOp(n) THEN <<>>
    ELSE FoldLeft(LAMBDA s, m : s \o RegionOps(m, optimized), <<>>, n.kids) \o <<n>>

-----------------------------------------------------------------------------
(* The query graph (QueryGraphBuilder.cpp) *)

assoc == {"crossproduct", "innerjoin"} \X {"crossproduct", "innerjoin", "semijoin", "antisemijoin", "outerjoin", "markjoin"}
lAsscom == {"crossproduct", "innerjoin", "semijoin", "antisemijoin", "outerjoin", "markjoin"}
             \X {"crossproduct", "innerjoin", "semijoin", "antisemijoin", "outerjoin", "markjoin"}
rAsscom == {"crossproduct"} \X {"crossproduct", "innerjoin"}

\* A graph: the inputs (node i is inputs[i + 1]), their predicates, the join edges [left, right,
\* op, created] and the selection edges [required, op], op a sequence of at most one operator,
\* created a set of at most one pseudo node.
JoinEdge(left, right, op, created) == [left |-> left, right |-> right, op |-> op, created |-> created]

Nodes0(inputs) == 0..(Len(inputs) - 1)

\* A region: its inputs and operators, from the inputs up, and the trees that count as inputs.
Region(head, optimized) ==
    [inputs |-> Inputs(head, optimized), ops |-> RegionOps(head, optimized), optimized |-> optimized]
Creating(region) == SelectSeq(region.ops, LAMBDA n : getCreatedColumns(n) # {})
LastNode(region) == Len(region.inputs) + Len(Creating(region)) - 1
\* addPseudoNode: the number of the pseudo node of a join.
Pseudo(region, n) == LastNode(region) + 1 - CHOOSE i \in DOMAIN Creating(region) : Creating(region)[i] = n

\* calcT: the nodes below an operator.
calcT(region, n) ==
    LET below == ToSet(Inputs(n, region.optimized)) IN {i \in Nodes0(region.inputs) : region.inputs[i + 1] \in below}

\* calcSES: the nodes that provide the columns an operator reads.
NodeOf(region, c) ==
    LET creators == {n \in ToSet(Creating(region)) : c \in getCreatedColumns(n)}
    IN  IF creators # {} THEN Pseudo(region, CHOOSE n \in creators : TRUE)
        ELSE Max({i \in Nodes0(region.inputs) : c \in getAvailableColumns(region.inputs[i + 1])})
calcSES(region, n) == {NodeOf(region, c) : c \in getUsedColumns(n)}

\* calcTES: the nodes a join b needs below it: those it reads, and those of the joins below, to the
\* left and to the right, that it may not be exchanged with.
JoinsBelow(region, kid) == {a \in ToSet(RegionOps(kid, region.optimized)) : a.op \in Joins \union {"crossproduct"}}
Unless(pair, allowed, nodes) == IF <<BinaryType(pair[1]), BinaryType(pair[2])>> \in allowed THEN {} ELSE nodes
calcTES(region, b) ==
    calcSES(region, b)
      \union UNION {Unless(<<a, b>>, assoc, calcT(region, a.kids[1])) \union Unless(<<a, b>>, lAsscom, calcT(region, a.kids[2])) :
                      a \in JoinsBelow(region, b.kids[1])}
      \union UNION {Unless(<<b, a>>, assoc, calcT(region, a.kids[2])) \union Unless(<<b, a>>, rAsscom, calcT(region, a.kids[1])) :
                      a \in JoinsBelow(region, b.kids[2])}

\* A selection or an inner join that reads the nodes ses: a predicate of an input, a join edge of
\* two inputs, or a selection edge.
AddSelection(g, n, ses) ==
    CASE Cardinality(ses) = 1 /\ ses \subseteq Nodes0(g.inputs) -> [g EXCEPT !.preds[CHOOSE j \in ses : TRUE] = Append(@, n)]
      [] Cardinality(ses) = 2 /\ ses \subseteq Nodes0(g.inputs) ->
           [g EXCEPT !.joins = Append(@, JoinEdge({Min(ses)}, {Max(ses)}, <<n>>, {}))]
      [] OTHER -> [g EXCEPT !.selections = Append(@, [required |-> ses, op |-> n])]
\* Another join with the nodes of both sides, and the edge to the pseudo node of its columns.
AddJoin(g, n, left, right, created) ==
    [g EXCEPT !.joins = @ \o <<JoinEdge(left, right, <<n>>, created)>>
                          \o (IF created = {} THEN <<>> ELSE <<JoinEdge(left \union right, created, <<>>, {})>>)]
Needed(t, tes) == IF t \intersect tes # {} THEN t \intersect tes ELSE t

\* populateQueryGraph: the operators of the region one after the other.
AddOperator(region, g, n) ==
    CASE n.op = "crossproduct" -> g
      [] n.op \in {"selection", "innerjoin"} ->
           AddSelection(g, n, IF getUsedColumns(n) = {} /\ n.op = "selection" THEN calcT(region, n) ELSE calcSES(region, n))
      [] OTHER -> LET tes == calcTES(region, n)
                  IN  AddJoin(g, n, Needed(calcT(region, n.kids[1]), tes), Needed(calcT(region, n.kids[2]), tes),
                              IF getCreatedColumns(n) = {} THEN {} ELSE {Pseudo(region, n)})
populateQueryGraph(region) ==
    FoldLeft(LAMBDA g, n : AddOperator(region, g, n),
             [inputs |-> region.inputs, all |-> 0..LastNode(region), preds |-> [i \in Nodes0(region.inputs) |-> <<>>],
              joins |-> <<>>, selections |-> <<>>],
             region.ops)

Connects(e, s1, s2) ==
    \/ e.left \subseteq s1 /\ e.right \subseteq s2
    \/ e.left \subseteq s2 /\ e.right \subseteq s1

RECURSIVE ensureConnected(_, _, _)
\* leader maps a node to the leader of its class; a cross product joins the last class to another
\* one when no edge connects two classes.
ensureConnected(g, leader, last) ==
    LET Class(i) == {j \in g.all : leader[j] = leader[i]}
        Merge(a, b) == [i \in g.all |-> IF leader[i] = b THEN a ELSE leader[i]]
        joining == SelectSeq(g.joins, LAMBDA e : /\ leader[Min(e.left)] # leader[Min(e.right)]
                                                 /\ Connects(e, Class(Min(e.left)), Class(Min(e.right))))
        first == leader[Min(joining[1].left)]
        second == leader[Min(joining[1].right)]
        other == Min({i \in g.all : i # last /\ leader[i] = i})
    IN  CASE Cardinality(Range(leader)) = 1 -> g
          [] Cardinality(Range(leader)) > 1 /\ joining # <<>> -> ensureConnected(g, Merge(first, second), first)
          [] OTHER -> ensureConnected([g EXCEPT !.joins = Append(@, JoinEdge(Class(last), Class(other), <<>>, {}))],
                                      Merge(last, other), last)

ConnectedGraph(g) == ensureConnected(g, [i \in g.all |-> i], 0)
QueryGraph(head, optimized) == ConnectedGraph(populateQueryGraph(Region(head, optimized)))

-----------------------------------------------------------------------------
(* Neighbours and connections (QueryGraph.h) *)

Real(g, s) == s \intersect Nodes0(g.inputs)
Owner(g, pseudo) == g.joins[CHOOSE i \in DOMAIN g.joins : g.joins[i].created = {pseudo}]
containsLonelyPseudo(g, s) ==
    \E p \in s \ Nodes0(g.inputs) : ~(Owner(g, p).left \union Owner(g, p).right \subseteq s)

\* Edges are found through the nodes of s that are not pseudo nodes.
isConnected(g, s1, s2) ==
    /\ ~containsLonelyPseudo(g, s1) /\ ~containsLonelyPseudo(g, s2)
    /\ \/ \E i \in DOMAIN g.joins : Real(g, s1) \intersect (g.joins[i].left \union g.joins[i].right) # {} /\ Connects(g.joins[i], s1, s2)
       \/ \E i \in DOMAIN g.selections :
             LET r == g.selections[i].required
             IN  Real(g, s1) \intersect r # {} /\ r \subseteq s1 \union s2 /\ ~(r \subseteq s1) /\ ~(r \subseteq s2)

getNeighbors(g, s, x) ==
    LET Other(e) == CASE e.left \subseteq s /\ s \intersect e.right = {} -> e.right
                      [] ~(e.left \subseteq s /\ s \intersect e.right = {}) /\ e.right \subseteq s /\ s \intersect e.left = {} -> e.left
                      [] OTHER -> {}
        sides == {Other(g.joins[i]) : i \in {j \in DOMAIN g.joins : Real(g, s) \intersect (g.joins[j].left \union g.joins[j].right) # {}}}
                   \union {g.selections[i].required \ s : i \in {j \in DOMAIN g.selections : Real(g, s) \intersect g.selections[j].required # {}}}
    IN  {Min(side) : side \in {t \in sides : t # {} /\ t \intersect x = {}}}

-----------------------------------------------------------------------------
(* Plans (utils.cpp) *)

\* An inner join that filters is a selection, a selection of two inputs is an inner join.
Filters(preds, tree) == FoldRight(LAMBDA n, t : Selection(n.pred, t), preds, tree)
InitialPlan(g, i) == Filters(g.preds[i], g.inputs[i + 1])

\* analyzePredicate: the two columns that a predicate makes equal, NULLs counted as equal to NULL.
analyzePredicate(pred) ==
    IF pred[1] \in {"cmp", "isa"} /\ (pred[1] = "cmp" => pred[2] = "eq") /\ pred[3][1] = "col" /\ pred[4][1] = "col"
    THEN {{pred[3][2], pred[4][2]}} ELSE {}

isFilter(op) == op # <<>> /\ op[1].op \in {"selection", "innerjoin"}
Equality(e) == IF isFilter(e.op) THEN analyzePredicate(e.op[1].pred) ELSE {}

\* The predicates of the connecting edges that do not follow from the equalities before them, and
\* the edge of a join of another kind.
UseEdge(acc, e) ==
    [classes |-> mergeClasses(acc.classes, Equality(e)),
     preds |-> IF isFilter(e.op) /\ ~\E eq \in Equality(e), k \in acc.classes : eq \subseteq k THEN Append(acc.preds, e.op[1]) ELSE acc.preds,
     special |-> IF e.op # <<>> /\ ~isFilter(e.op) THEN <<e>> ELSE acc.special]
UseEdges(g, s1, s2) ==
    LET inside == {e \in ToSet(g.joins) : ~Connects(e, s1, s2) /\ e.left \union e.right \subseteq s1 \union s2}
    IN  FoldLeft(UseEdge, [classes |-> FoldSet(LAMBDA e, cs : mergeClasses(cs, Equality(e)), {}, inside), preds |-> <<>>, special |-> <<>>],
                 SelectSeq(g.joins, LAMBDA e : Connects(e, s1, s2)))

\* The selection edges whose nodes s has and neither of its parts.
LateSelections(g, s, s1, s2) ==
    LET late == SelectSeq(g.selections, LAMBDA e : e.required \subseteq s /\ ~(e.required \subseteq s1) /\ ~(e.required \subseteq s2))
    IN  [i \in DOMAIN late |-> late[i].op]

PlanTree(special, preds, s1, p1, p2) ==
    CASE special # <<>> ->
           Filters(preds, WithKids(special[1].op[1], IF special[1].left \subseteq s1 THEN <<p1, p2>> ELSE <<p2, p1>>))
      [] special = <<>> /\ preds # <<>> -> Filters(Tail(preds), JoinOp("innerjoin", preds[1].pred, <<>>, p1, p2))
      [] OTHER -> CrossProduct(p1, p2)

\* joinPlans and realizePlan: the nodes of the new plan and its tree.
PlanOfEdges(g, s, used, s1, s2, p1, p2) ==
    <<s, PlanTree(used.special, used.preds \o LateSelections(g, s, s1, s2), s1, p1, p2)>>
joinPlans(g, s1, s2, p1, p2) ==
    PlanOfEdges(g, s1 \union s2 \union UNION {e.created : e \in {f \in ToSet(g.joins) : Connects(f, s1, s2)}},
                UseEdges(g, s1, s2), s1, s2, p1, p2)

-----------------------------------------------------------------------------
(* DPHyp (DPhyp.cpp): dp maps a set of nodes to the plans its entry may hold *)

RECURSIVE Subsets(_)
\* The nonempty subsets of a set of numbers in increasing order of their bit patterns.
Subsets(s) ==
    IF s = {} THEN <<>>
    ELSE LET m == Max(s)  low == Subsets(s \ {m})
         IN  low \o <<{m}>> \o [i \in DOMAIN low |-> low[i] \union {m}]

AddPlans(dp, s, trees) == (s :> (trees \union (IF s \in DOMAIN dp THEN dp[s] ELSE {}))) @@ dp
AddJoinedPlans(dp, new) == AddPlans(dp, (CHOOSE n \in new : TRUE)[1], {n[2] : n \in new})
emitCsgCmp(g, dp, s1, s2) == AddJoinedPlans(dp, {joinPlans(g, s1, s2, p1, p2) : p1 \in dp[s1], p2 \in dp[s2]})

RECURSIVE enumerateCmpRec(_, _, _, _, _)
enumerateCmpRec(g, dp, s1, s2, x) ==
    LET neighbors == getNeighbors(g, s2, x)
        emitted == FoldLeft(LAMBDA d, n : IF s2 \union n \in DOMAIN d /\ isConnected(g, s1, s2 \union n)
                                          THEN emitCsgCmp(g, d, s1, s2 \union n) ELSE d,
                            dp, Subsets(neighbors))
    IN  FoldLeft(LAMBDA d, n : enumerateCmpRec(g, d, s1, s2 \union n, x \union neighbors), emitted, Subsets(neighbors))

\* The complements of s1 that start at a neighbour outside of x, the largest first.
EmitPairs(g, dp, s1, x) ==
    FoldLeft(LAMBDA d, i : enumerateCmpRec(g, IF isConnected(g, s1, {i}) THEN emitCsgCmp(g, d, s1, {i}) ELSE d, s1, {i}, x),
             dp, Reverse(SetToSortSeq(getNeighbors(g, s1, x), <)))
\* Mutant: the complement is sought above the largest node of the set.
emitCsgAbove(g, dp, s1) == EmitPairs(g, dp, s1, 0..Max(s1))
emitCsg(g, dp, s1) == EmitPairs(g, dp, s1, s1 \union 0..Min(s1))

RECURSIVE enumerateCsgRec(_, _, _, _)
enumerateCsgRec(g, dp, s1, x) ==
    LET neighbors == getNeighbors(g, s1, x)
        emitted == FoldLeft(LAMBDA d, n : IF s1 \union n \in DOMAIN d THEN emitCsg(g, d, s1 \union n) ELSE d, dp, Subsets(neighbors))
    IN  FoldLeft(LAMBDA d, n : enumerateCsgRec(g, d, s1 \union n, x \union neighbors), emitted, Subsets(neighbors))

\* solve: from the last input to the first.
DPHypTable(g) ==
    FoldLeft(LAMBDA dp, i : enumerateCsgRec(g, emitCsg(g, dp, {i}), {i}, 0..i),
             [s \in {{i} : i \in Nodes0(g.inputs)} |-> {InitialPlan(g, CHOOSE i \in s : TRUE)}],
             Reverse([i \in DOMAIN g.inputs |-> i - 1]))
PlansOf(dp, s) == IF s \in DOMAIN dp THEN dp[s] ELSE {}
DPHyp(g) == PlansOf(DPHypTable(g), g.all)

\* A table without a plan of all nodes gives no solution.
DPHypSolutions(trees) == IF trees = {} THEN {<<>>} ELSE {<<t>> : t \in trees}

-----------------------------------------------------------------------------
(* GOO (GOO.cpp): the plans some costs lead to, joining two plans at a time *)

RECURSIVE GOORec(_, _)
\* No solution when no two of the remaining plans are connected.
GOORec(g, plans) ==
    LET pairs == {q \in plans \X plans : q[1] # q[2] /\ isConnected(g, q[1][1], q[2][1])}
        Joined(q) == (plans \ {q[1], q[2]}) \union {joinPlans(g, q[1][1], q[2][1], q[1][2], q[2][2])}
    IN  CASE Cardinality(plans) = 1 -> {<<p[2]>> : p \in plans}
          [] Cardinality(plans) > 1 /\ pairs = {} -> {<<>>}
          [] OTHER -> UNION {GOORec(g, Joined(q)) : q \in pairs}
GOO(g) == GOORec(g, {<<{i}, InitialPlan(g, i)>> : i \in Nodes0(g.inputs)})

RECURSIVE countSubGraphsRec(_, _, _)
\* countSubGraphs: the connected subgraphs that decide which of the two runs.
countSubGraphsRec(g, s1, x) ==
    LET neighbors == getNeighbors(g, s1, x)
    IN  FoldLeft(LAMBDA k, n : k + 1 + countSubGraphsRec(g, s1 \union n, x \union neighbors), 0, Subsets(neighbors))
countSubGraphs(g) == FoldLeft(LAMBDA k, i : k + 1 + countSubGraphsRec(g, {i}, 0..i), 0, [i \in DOMAIN g.inputs |-> i - 1])

-----------------------------------------------------------------------------
(* The orders of a region, the reference for DPHyp *)

RECURSIVE Orders(_, _)
\* The plans of the inputs s with the nodes they cover: those of two connected parts joined, for
\* every way to part s.
Orders(g, s) ==
    IF Cardinality(s) = 1 THEN {<<s, InitialPlan(g, CHOOSE i \in s : TRUE)>>}
    ELSE UNION {{joinPlans(g, pr[1][1], pr[2][1], pr[1][2], pr[2][2]) :
                   pr \in {q \in Orders(g, a) \X Orders(g, s \ a) : isConnected(g, q[1][1], q[2][1])}} :
                  a \in {t \in SUBSET s : Min(s) \in t /\ t # s}}
AllOrders(g) == {p[2] : p \in {q \in Orders(g, Nodes0(g.inputs)) : q[1] = g.all}}

=============================================================================
