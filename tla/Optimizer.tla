----------------------------- MODULE Optimizer ------------------------------
(***************************************************************************)
(* The optimization of a SELECT statement: the plan the parser makes of it *)
(* is rewritten by the passes of src/lib/RelAlg/Passes.cpp one after the   *)
(* other.  Every pass has to keep the result of the statement, so that the *)
(* plan after any of them can be run against a database and compared.      *)
(*                                                                         *)
(* Not steps of their own: SimplifyAggregations and OptimizeImplementations*)
(* (modules Aggregation and Join), and passes that change nothing a plan   *)
(* value shows: ExtractNestedOperators (a nested operator is moved before  *)
(* the one whose lambda it was in), common subexpressions and              *)
(* canonicalization, meta data.                                            *)
(***************************************************************************)
EXTENDS JoinOrder

CONSTANTS
    Queries,        \* the statements
    Databases,      \* what the tables may hold
    MaxSubGraphs    \* connected subgraphs from which on GOO replaces DPHyp; 1000 in the code

VARIABLES
    query,          \* the statement
    plan,           \* its plan
    pass,           \* the number of the next pass in Pipeline; 0 after the compiler crashed
    optimized       \* the regions with a join order (alreadyOptimized)

vars == <<query, plan, pass, optimized>>

\* createQueryOptPipeline
Pipeline == <<"InferNotNull", "DecomposeLambdas", "ImplicitToExplicitJoins", "InferNotNull", "DecomposeLambdas",
              "Pushdown", "Unnesting", "ColumnFolding", "DecomposeLambdas", "Pushdown", "ReduceGroupByKeys",
              "ExpandTransitiveEqualities", "OptimizeJoinOrder", "CombinePredicates", "IntroduceTmp">>

Done == pass > Len(Pipeline)
Running(name) == pass \in DOMAIN Pipeline /\ Pipeline[pass] = name

Init ==
    /\ query \in Queries
    /\ plan = Translate(query)
    /\ pass = 1
    /\ optimized = {}

\* A pass that replaces the plan as a whole.
Rewritten(name, new) ==
    /\ Running(name)
    /\ plan' = new
    /\ pass' = pass + 1
    /\ UNCHANGED <<query, optimized>>

RunInferNotNull == Rewritten("InferNotNull", InferNotNull(plan))
RunDecomposeLambdas == Rewritten("DecomposeLambdas", DecomposeLambdas(plan))
RunImplicitToExplicitJoins == Rewritten("ImplicitToExplicitJoins", ImplicitToExplicitJoins(plan))
RunPushdown == Rewritten("Pushdown", Pushdown(plan))
RunColumnFolding == Rewritten("ColumnFolding", ColumnFolding(plan))
RunReduceGroupByKeys == Rewritten("ReduceGroupByKeys", ReduceGroupByKeys(plan))
RunExpandTransitiveEqualities == Rewritten("ExpandTransitiveEqualities", ExpandTransitiveEqualities(plan))
RunCombinePredicates == Rewritten("CombinePredicates", CombinePredicates(plan))
RunIntroduceTmp == Rewritten("IntroduceTmp", IntroduceTmp(plan))

Overflows(new) == \E n \in Nodes(new) : n.op = "overflow"
RunUnnesting == \E new \in {Unnest(plan)} : ~Overflows(new) /\ Rewritten("Unnesting", new)

\* The search for correlated selections does not return and the stack is exhausted.
UnnestingOverflows ==
    /\ Running("Unnesting")
    /\ Overflows(Unnest(plan))
    /\ pass' = 0
    /\ UNCHANGED <<query, plan, optimized>>

\* The regions in the order of the walk that have no join order yet.
Regions == SelectSeq(RegionHeads(plan), LAMBDA n : n \notin optimized)

\* optimize: the region becomes a tree its solver may find, or stays as it is without one.
OrderRegion(region, solutions) ==
    \E solution \in solutions :
        LET tree == IF solution = <<>> THEN region ELSE solution[1]
        IN  /\ plan' = Subst(plan, region, tree)
            /\ optimized' = optimized \union {tree}
            /\ UNCHANGED <<query, pass>>

OrderByDPHyp ==
    /\ Running("OptimizeJoinOrder")
    /\ Regions # <<>>
    /\ \E region \in {Regions[1]} : \E graph \in {QueryGraph(region, optimized)} :
          /\ countSubGraphs(graph) < MaxSubGraphs
          /\ OrderRegion(region, DPHypSolutions(DPHyp(graph)))

OrderByGOO ==
    /\ Running("OptimizeJoinOrder")
    /\ Regions # <<>>
    /\ \E region \in {Regions[1]} : \E graph \in {QueryGraph(region, optimized)} :
          /\ countSubGraphs(graph) >= MaxSubGraphs
          /\ OrderRegion(region, GOO(graph))

AllOrdered ==
    /\ Running("OptimizeJoinOrder")
    /\ Regions = <<>>
    /\ pass' = pass + 1
    /\ UNCHANGED <<query, plan, optimized>>

Next ==
    \/ RunInferNotNull
    \/ RunDecomposeLambdas
    \/ RunImplicitToExplicitJoins
    \/ RunPushdown
    \/ RunUnnesting
    \/ UnnestingOverflows
    \/ RunColumnFolding
    \/ RunReduceGroupByKeys
    \/ RunExpandTransitiveEqualities
    \/ OrderByDPHyp
    \/ OrderByGOO
    \/ AllOrdered
    \/ RunCombinePredicates
    \/ RunIntroduceTmp

Spec == Init /\ [][Next]_vars

-----------------------------------------------------------------------------
(* Properties *)

\* After every pass the plan still computes the rows of the statement, each as often as SQL says, in
\* every database: no predicate is moved below a join that has to see the rows first, no correlated
\* subquery loses its empty groups, no order of the joins drops or repeats a predicate, no grouping
\* column is dropped that others do not determine.
ResultIsQuery == \A db \in Databases : PlanResult(plan, db) = QueryResult(query, db)

\* Once Unnesting is done, every operator reads only columns that its own inputs provide: no
\* dependent join is left, and none of the later passes (a join order, a folded column, a reduced
\* key) moves an operator away from the columns it reads.
ColumnsProvided ==
    LET unnesting == CHOOSE i \in DOMAIN Pipeline : Pipeline[i] = "Unnesting"
    IN  pass > unnesting => \A n \in Nodes(plan) : getFreeColumns(n) = {}

\* DPHyp looks at every way to join the inputs of a region along its edges, although it only follows
\* neighbours and never looks at a pair of sets twice: the plans its table may hold for all nodes are
\* those of the definition by all partitions.  There always is one, and the greedy search that
\* replaces DPHyp for large regions never ends with plans that no edge connects, whatever it joins first.
OrdersFound ==
    Running("OptimizeJoinOrder") /\ Regions # <<>> =>
        \A graph \in {QueryGraph(Regions[1], optimized)} :
            /\ \A trees \in {DPHyp(graph)} : trees # {} /\ trees = AllOrders(graph)
            /\ <<>> \notin GOO(graph)

=============================================================================
