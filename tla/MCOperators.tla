------------------------ MODULE MCOperators --------------------------------
(***************************************************************************)
(* The operators with two inputs, one of which is executed: a join of      *)
(* tables of up to two rows with columns a, b (left) and x, y (right),     *)
(* NULLs, duplicates and hash collisions included; or a set operation on   *)
(* two bags.  Or a statement whose joins are ordered by the optimizer.     *)
(***************************************************************************)
EXTENDS SetOperation, Join

CONSTANTS NULL, MaxSubGraphs

VARIABLES operator,     \* "join", "set operation" or "optimizer"
          statement, tree, pass, optimized

\* Two rows, one of them with a NULL: it is a row like any other here.
MCRow == {"row", "nullRow"}

Kinds == {"inner", "semi", "anti", "mark", "outer", "fullouter", "single"}

\* Operands: a column of a side, a column plus one, a constant.
Column(side, c) == [sides |-> {side}, plain |-> TRUE, of |-> side, col |-> c, val |-> 0]
Expression(side, c) == [sides |-> {side}, plain |-> FALSE, of |-> side, col |-> c, val |-> 1]
Constant(v) == [sides |-> {}, plain |-> FALSE, of |-> "const", col |-> "", val |-> v]
A == Column("l", "a")
B == Column("l", "b")
X == Column("r", "x")
Y == Column("r", "y")
Eq(o, p) == [op |-> "eq", l |-> o, r |-> p]
Isa(o, p) == [op |-> "isa", l |-> o, r |-> p]
Lt(o, p) == [op |-> "lt", l |-> o, r |-> p]
Or(c, d) == [op |-> "or", alts |-> {c, d}]

L(rows) == [i \in DOMAIN rows |-> [a |-> rows[i][1], b |-> rows[i][2]]]
R(rows) == [i \in DOMAIN rows |-> [x |-> rows[i][1], y |-> rows[i][2]]]
Contents == {<<>>, <<<<1, 1>>>>, <<<<1, 1>>, <<0, 1>>>>, <<<<1, 1>>, <<1, 2>>>>,
             <<<<1, 2>>, <<2, 1>>>>, <<<<0, 0>>, <<1, 1>>>>, <<<<1, 2>>, <<1, 2>>>>}

NoKey == [l |-> <<>>, r |-> <<>>]
Joins(kinds, preds, pks) ==
    {[kind |-> k, pred |-> p, left |-> L(s), right |-> R(t), pk |-> pk] :
        k \in kinds, p \in preds, pk \in pks, s \in Contents, t \in Contents}

\* Equalities of columns (either way round), of an expression, of NULLs, with
\* and without a rest; and predicates that allow no hash table.
TwoSided == {<<Eq(A, X)>>, <<Eq(A, X), Lt(B, Y)>>, <<Isa(X, A)>>, <<Eq(A, X), Eq(Y, B)>>,
             <<Eq(Expression("l", "b"), Y), Isa(A, X)>>,
             <<Or(Eq(A, X), Eq(B, Y))>>, <<Lt(B, Y)>>}

\* Conditions on one side with a constant stay in the predicate of an outer
\* join (on the left side) and of a full outer join.
WithConstants == {<<Eq(A, X), Eq(B, Constant(1))>>}
WithTwoConstants == {<<Eq(A, X), Eq(B, Constant(1)), Eq(Y, Constant(2))>>,
                     <<Eq(Y, Constant(2)), Eq(Constant(1), Constant(1)), Eq(A, X)>>}

MCQueries ==
    Joins(Kinds, TwoSided, {NoKey})
    \cup Joins({"outer", "fullouter"}, WithConstants, {NoKey})
    \cup Joins({"fullouter"}, WithTwoConstants, {NoKey})
    \cup Joins({"inner"}, {<<>>}, {NoKey})
    \cup {q \in Joins({"single"}, {<<>>}, {NoKey}) : q.right # <<>>}
    \cup Joins({"inner"}, {<<Eq(A, X)>>}, {[l |-> <<"a">>, r |-> <<>>], [l |-> <<>>, r |-> <<"x">>]})
    \cup Joins({"inner"}, {<<Eq(A, X), Eq(Y, B)>>},
               {[l |-> <<"a", "b">>, r |-> <<>>], [l |-> <<"a", "b">>, r |-> <<"x", "y">>]})

\* Further joins that MCQueries leaves out because ResultIsJoin fails on them
\* (see the README); put them in the place of MCQueries to see how.

\* Index nested loop joins whose predicate reads the primary key, but not as
\* equalities in the order of the key.
MCIndexQueries ==
    Joins({"inner"}, {<<Eq(B, Y), Eq(A, X)>>}, {[l |-> <<"a", "b">>, r |-> <<>>]})
    \cup Joins({"inner"}, {<<Eq(A, X), Lt(B, Y)>>}, {[l |-> <<"a", "b">>, r |-> <<>>]})

\* A full outer join with conditions on both sides that share a constant.
MCSharedConstantQueries ==
    Joins({"fullouter"}, {<<Eq(A, X), Eq(B, Constant(1)), Eq(Y, Constant(1))>>}, {NoKey})

\* An outer join with an expression that is a key and is compared with a
\* column of its own side, or with a constant, too.
MCSharedExpressionQueries ==
    LET sum == Expression("l", "b")
    IN  Joins({"outer"}, {<<Eq(sum, X), Eq(sum, A)>>, <<Eq(sum, X), Eq(Constant(2), sum)>>}, {NoKey})

\* Scalar subqueries that may have no row.
MCScalarQueries == Joins({"single"}, {<<>>}, {NoKey})

NoJoin == [kind |-> "inner", pred |-> <<>>, left |-> L(<<>>), right |-> R(<<>>), pk |-> NoKey]

MCSchema == [r |-> [cols |-> {"a", "b"}, key |-> {"a"}, nullable |-> {"b"}],
             s |-> [cols |-> {"c", "d"}, key |-> {"c"}, nullable |-> {"d"}],
             t |-> [cols |-> {"e", "f"}, key |-> {}, nullable |-> {"f"}]]
Optimizer == INSTANCE MCOptimizer WITH Schema <- MCSchema, query <- statement, plan <- tree
optimizerVars == <<statement, tree, pass, optimized>>
NoStatement == statement = <<>> /\ tree = <<>> /\ pass = 0 /\ optimized = {}

MCInit ==
    \/ /\ operator = "join"
       /\ JoinInit
       /\ op = "unionAll" /\ left = Zero /\ right = Zero
       /\ Init /\ NoStatement
    \/ /\ operator = "set operation"
       /\ query = NoJoin
       /\ JoinInit
       /\ Init /\ NoStatement
    \/ /\ operator = "optimizer"
       /\ query = NoJoin
       /\ JoinInit
       /\ op = "unionAll" /\ left = Zero /\ right = Zero
       /\ Init /\ Optimizer!O!Init
MCNext ==
    \/ operator = "join" /\ JoinNext /\ UNCHANGED <<operator, vars, optimizerVars>>
    \/ operator = "set operation" /\ Next /\ UNCHANGED <<operator, joinVars, optimizerVars>>
    \/ operator = "optimizer" /\ Optimizer!O!Next /\ UNCHANGED <<operator, vars, joinVars>>
MCSpec == MCInit /\ [][MCNext]_<<operator, vars, joinVars, optimizerVars>>

(* After every pass the plan computes the rows of the statement. *)
ResultIsQuery == operator = "optimizer" => Optimizer!O!ResultIsQuery

(* Once Unnesting is done, operators read only columns that their inputs provide. *)
ColumnsProvided == operator = "optimizer" => Optimizer!O!ColumnsProvided

(* DPHyp looks at every way to join the inputs of a region; the greedy search finds one. *)
OrdersFound == operator = "optimizer" => Optimizer!O!OrdersFound
=============================================================================
