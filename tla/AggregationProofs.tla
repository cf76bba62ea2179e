-------------------------- MODULE AggregationProofs --------------------------
(***************************************************************************)
(* GROUP BY for any tables, queries and number of workers: whenever the    *)
(* workers are stopped, the merge of their states holds what SQL asks of   *)
(* the tuples taken so far, and the result is what SQL asks of the rows.   *)
(*                                                                         *)
(* The argument: IsState says of each function what its state over a set   *)
(* of tuples is; createDefaultValue gives the state of no tuples, aggregate*)
(* adds a tuple (StateReduce) and combine unites disjoint sets             *)
(* (StateCombine).  The inductive invariant splits the tuples taken so far *)
(* among the workers, each of whose maps is Right for its part, and the    *)
(* fold over the workers unites the parts (MergeAllRight).  Sums and the   *)
(* merge are folds of the community modules, which are functions on the    *)
(* subsets of a finite set: what they compute is shown by a smallest       *)
(* counterexample.                                                         *)
(*                                                                         *)
(* A finished sub-aggregation has taken all its tuples (ResultsInv).  The  *)
(* tuples of a group are matched with the rows that DISTINCT leaves of it, *)
(* so their sums and counts agree (SumMatched), and each aggregate's final *)
(* value follows from the states of its functions (FinalRight).  OutInv    *)
(* counts the rows of the grouping sets that are done.                     *)
(***************************************************************************)
EXTENDS Aggregation, FiniteSetTheorems, WellFoundedInduction, TLAPS

-----------------------------------------------------------------------------
(* Induction over the subsets of a finite set, by a smallest counterexample *)

LEMMA LeastNat == ASSUME NEW S, S \subseteq Nat, S # {} PROVE \E n \in S : \A m \in S : n <= m
<1> DEFINE R == {ss \in Nat \X Nat : ss[1] < ss[2]}
<1>0. OpToRel(<, Nat) = R
  BY DEF OpToRel
<1>1. IsWellFoundedOn(R, Nat)
  BY <1>0, NatLessThanWellFounded
<1>2. IsWellFoundedOn(R, S)
  BY <1>1, IsWellFoundedOnSubset
<1>3. \A a, b \in Nat : <<a, b>> \in R <=> a < b
  OBVIOUS
<1> HIDE DEF R
<1>4. PICK n \in S : \A m \in S : ~(<<m, n>> \in R)
  BY <1>2, WFMin
<1>5. \A m \in S : ~(m < n)
  BY <1>3, <1>4
<1> QED
  BY <1>5

LEMMA SmallestSet ==
    ASSUME NEW S, IsFiniteSet(S), NEW Bad, Bad \subseteq SUBSET S, Bad # {}
    PROVE  \E s \in Bad : \A t \in SUBSET s : t # s => t \notin Bad
<1> DEFINE Sizes == {Cardinality(s) : s \in Bad}
<1>1. ASSUME NEW s \in SUBSET S PROVE IsFiniteSet(s) /\ Cardinality(s) \in Nat
  BY FS_Subset, FS_CardinalityType
<1>2. PICK n \in Sizes : \A m \in Sizes : n <= m
  <2>1. Sizes \subseteq Nat /\ Sizes # {}
    BY <1>1
  <2> QED
    BY <2>1, LeastNat
<1>3. PICK s \in Bad : n = Cardinality(s)
  BY <1>2
<1>4. ASSUME NEW t \in SUBSET s, t # s, t \in Bad PROVE FALSE
  <2>1. Cardinality(t) <= Cardinality(s) /\ Cardinality(t) # Cardinality(s)
    BY <1>1, <1>4, FS_Subset
  <2>2. Cardinality(s) <= Cardinality(t)
    BY <1>2, <1>3, <1>4
  <2>3. Cardinality(s) \in Nat /\ Cardinality(t) \in Nat
    BY <1>1, <1>4
  <2> QED
    BY <2>1, <2>2, <2>3
<1> QED
  BY <1>4

-----------------------------------------------------------------------------
(* Folds over finite sets: the community modules define them by a recursive *)
(* function over the subsets, which takes the elements in the order of ch.  *)

Folds(g, S, ch, step, base) ==
    g = [s \in SUBSET S |-> IF s = {} THEN base ELSE step[ch[s]][g[s \ {ch[s]}]]]

LEMMA FoldsAgree ==
    ASSUME NEW S, IsFiniteSet(S), NEW ch, \A s \in SUBSET S : s # {} => ch[s] \in s,
           NEW step, NEW base,
           NEW T \in SUBSET S, NEW U \in SUBSET T, NEW g, NEW h,
           Folds(g, T, ch, step, base), Folds(h, U, ch, step, base)
    PROVE  \A s \in SUBSET U : g[s] = h[s]
<1> DEFINE Bad == {s \in SUBSET U : g[s] # h[s]}
<1>1. SUFFICES ASSUME Bad # {} PROVE FALSE
  OBVIOUS
<1>2. IsFiniteSet(U)
  BY FS_Subset
<1>3. PICK s \in Bad : \A t \in SUBSET s : t # s => t \notin Bad
  <2>1. Bad \subseteq SUBSET U
    OBVIOUS
  <2> HIDE DEF Bad
  <2> QED
    BY <1>1, <1>2, <2>1, SmallestSet
<1>4. s \in SUBSET U /\ s \in SUBSET T /\ s \in SUBSET S /\ g[s] # h[s]
  BY <1>3
<1>5. g[s] = (IF s = {} THEN base ELSE step[ch[s]][g[s \ {ch[s]}]])
  BY <1>4 DEF Folds
<1>6. h[s] = (IF s = {} THEN base ELSE step[ch[s]][h[s \ {ch[s]}]])
  BY <1>4 DEF Folds
<1>7. s # {}
  BY <1>4, <1>5, <1>6
<1>8. s \ {ch[s]} \in SUBSET s /\ s \ {ch[s]} # s
  BY <1>4, <1>7
<1>9. g[s \ {ch[s]}] = h[s \ {ch[s]}]
  BY <1>3, <1>4, <1>8
<1> QED
  BY <1>4, <1>5, <1>6, <1>7, <1>9

LEMMA FoldsExist ==
    ASSUME NEW S, IsFiniteSet(S), NEW ch, \A s \in SUBSET S : s # {} => ch[s] \in s,
           NEW step, NEW base
    PROVE  \E g : Folds(g, S, ch, step, base)
<1> DEFINE Bad == {s \in SUBSET S : ~\E g : Folds(g, s, ch, step, base)}
<1>1. SUFFICES Bad = {}
  OBVIOUS
<1>2. SUFFICES ASSUME Bad # {} PROVE FALSE
  OBVIOUS
<1>3. PICK s \in Bad : \A t \in SUBSET s : t # s => t \notin Bad
  <2>1. Bad \subseteq SUBSET S
    OBVIOUS
  <2> HIDE DEF Bad
  <2> QED
    BY <1>2, <2>1, SmallestSet
<1>4. s \in SUBSET S
  BY <1>3
<1> DEFINE G(t) == CHOOSE g : Folds(g, t, ch, step, base)
           g == [t \in SUBSET s |-> IF t = {} THEN base ELSE step[ch[t]][G(t \ {ch[t]})[t \ {ch[t]}]]]
<1>5. ASSUME NEW t \in SUBSET s, t # s PROVE Folds(G(t), t, ch, step, base)
  <2>1. \E f : Folds(f, t, ch, step, base)
    BY <1>3, <1>4, <1>5
  <2> QED
    BY <2>1
<1>6. ASSUME NEW t \in SUBSET s, t # {} PROVE t \ {ch[t]} \in SUBSET t /\ t \ {ch[t]} # t
  BY <1>4, <1>6
<1> HIDE DEF G
<1>7. ASSUME NEW t \in SUBSET s, t # s PROVE g[t] = G(t)[t]
  <2>1. Folds(G(t), t, ch, step, base)
    BY <1>5, <1>7
  <2>2. G(t)[t] = (IF t = {} THEN base ELSE step[ch[t]][G(t)[t \ {ch[t]}]])
    BY <2>1 DEF Folds
  <2>3. CASE t = {}
    BY <2>2, <2>3
  <2>4. CASE t # {}
    <3> DEFINE u == t \ {ch[t]}
    <3>1. u \in SUBSET t /\ u \in SUBSET s /\ u # s /\ u \in SUBSET u /\ t \in SUBSET S
      BY <1>4, <1>6, <2>4, <1>7
    <3>2. Folds(G(u), u, ch, step, base)
      BY <1>5, <3>1
    <3> HIDE DEF u
    <3>3. G(t)[u] = G(u)[u]
      BY <2>1, <3>1, <3>2, FoldsAgree
    <3> QED
      BY <2>2, <2>4, <3>3 DEF u
  <2> QED
    BY <2>3, <2>4
<1>8. ASSUME NEW t \in SUBSET s, t # {} PROVE g[t \ {ch[t]}] = G(t \ {ch[t]})[t \ {ch[t]}]
  <2>1. t \ {ch[t]} \in SUBSET s /\ t \ {ch[t]} # s
    BY <1>6, <1>8
  <2> HIDE DEF g
  <2> QED
    BY <1>7, <2>1
<1>9. Folds(g, s, ch, step, base)
  <2>1. ASSUME NEW t \in SUBSET s PROVE g[t] = IF t = {} THEN base ELSE step[ch[t]][g[t \ {ch[t]}]]
    <3>1. g[t] = IF t = {} THEN base ELSE step[ch[t]][G(t \ {ch[t]})[t \ {ch[t]}]]
      OBVIOUS
    <3> QED
      BY <1>8, <3>1
  <2>2. g = [t \in SUBSET s |-> g[t]]
    OBVIOUS
  <2> HIDE DEF g
  <2>3. [t \in SUBSET s |-> g[t]] = [t \in SUBSET s |-> IF t = {} THEN base ELSE step[ch[t]][g[t \ {ch[t]}]]]
    BY <2>1
  <2> QED
    BY <2>2, <2>3 DEF Folds
<1> QED
  BY <1>3, <1>9

-----------------------------------------------------------------------------
(* Sums *)

Some(s) == CHOOSE x \in s : TRUE

IsSums(g, f, J) ==
    g = [s \in SUBSET J |-> IF s = {} THEN 0 ELSE g[s \ {Some(s)}] + f[Some(s)]]

Sum(f, J) == (CHOOSE g : IsSums(g, f, J))[J]

Numbers(f, J) == IsFiniteSet(J) /\ \A x \in J : f[x] \in Int

LEMMA SomeIn == \A s : s # {} => Some(s) \in s
BY DEF Some

LEMMA SumsAreFolds ==
    ASSUME NEW f, NEW J, Numbers(f, J), NEW K \in SUBSET J, NEW g
    PROVE  LET ch == [s \in SUBSET J |-> Some(s)]
               step == [x \in J |-> [v \in Int |-> v + f[x]]]
           IN  /\ IsSums(g, f, K) => /\ \A s \in SUBSET K : g[s] \in Int
                                     /\ Folds(g, K, ch, step, 0)
               /\ Folds(g, K, ch, step, 0) => IsSums(g, f, K)
<1> DEFINE ch == [s \in SUBSET J |-> Some(s)]
           step == [x \in J |-> [v \in Int |-> v + f[x]]]
           Bad == {s \in SUBSET K : g[s] \notin Int}
<1>1. ASSUME NEW s \in SUBSET K, s # {} PROVE Some(s) \in s /\ Some(s) \in J /\ f[Some(s)] \in Int
                                              /\ s \ {Some(s)} \in SUBSET s /\ s \ {Some(s)} # s
                                              /\ ch[s] = Some(s) /\ s \ {Some(s)} \in SUBSET K
  BY <1>1, SomeIn DEF Numbers
<1>2. IsFiniteSet(K)
  BY FS_Subset DEF Numbers
<1>3. ASSUME NEW x \in J, NEW v \in Int PROVE step[x][v] = v + f[x]
  OBVIOUS
<1> HIDE DEF ch, step
<1>4. ASSUME \A s \in SUBSET K : /\ s = {} => g[s] = 0
                                 /\ s # {} /\ g[s \ {Some(s)}] \in Int => g[s] = g[s \ {Some(s)}] + f[Some(s)]
      PROVE  Bad = {}
  <2>1. SUFFICES ASSUME Bad # {} PROVE FALSE
    OBVIOUS
  <2>2. PICK s \in Bad : \A t \in SUBSET s : t # s => t \notin Bad
    <3>1. Bad \subseteq SUBSET K
      OBVIOUS
    <3> HIDE DEF Bad
    <3> QED
      BY <1>2, <2>1, <3>1, SmallestSet
  <2>3. s \in SUBSET K /\ g[s] \notin Int
    BY <2>2
  <2>4. s # {}
    <3>1. s = {} => g[s] = 0
      BY <1>4, <2>3
    <3> QED
      BY <2>3, <3>1
  <2>5. g[s \ {Some(s)}] \in Int
    BY <1>1, <2>2, <2>3, <2>4
  <2>6. g[s] = g[s \ {Some(s)}] + f[Some(s)]
    BY <1>4, <2>3, <2>4, <2>5
  <2> QED
    BY <1>1, <2>3, <2>4, <2>5, <2>6
<1>5. ASSUME IsSums(g, f, K) PROVE /\ \A s \in SUBSET K : g[s] \in Int
                                   /\ Folds(g, K, ch, step, 0)
  <2>1. \A s \in SUBSET K : g[s] = IF s = {} THEN 0 ELSE g[s \ {Some(s)}] + f[Some(s)]
    BY <1>5 DEF IsSums
  <2>2. \A s \in SUBSET K : g[s] \in Int
    BY <1>4, <2>1
  <2>3. g = [s \in SUBSET K |-> g[s]]
    BY <1>5 DEF IsSums
  <2>4. ASSUME NEW s \in SUBSET K PROVE g[s] = IF s = {} THEN 0 ELSE step[ch[s]][g[s \ {ch[s]}]]
    <3>1. ASSUME s # {} PROVE g[s] = step[ch[s]][g[s \ {ch[s]}]]
      <4>1. g[s] = g[s \ {Some(s)}] + f[Some(s)]
        BY <2>1, <3>1
      <4>2. g[s \ {Some(s)}] \in Int
        BY <1>1, <2>2, <3>1
      <4>3. g[s] = step[Some(s)][g[s \ {Some(s)}]]
        BY <1>1, <1>3, <3>1, <4>1, <4>2
      <4> QED
        BY <1>1, <3>1, <4>3
    <3>2. s = {} => g[s] = 0
      BY <2>1
    <3> QED
      BY <3>1, <3>2
  <2>5. [s \in SUBSET K |-> g[s]] = [s \in SUBSET K |-> IF s = {} THEN 0 ELSE step[ch[s]][g[s \ {ch[s]}]]]
    BY <2>4
  <2> QED
    BY <2>2, <2>3, <2>5 DEF Folds
<1>6. ASSUME Folds(g, K, ch, step, 0) PROVE IsSums(g, f, K)
  <2>1. \A s \in SUBSET K : g[s] = IF s = {} THEN 0 ELSE step[ch[s]][g[s \ {ch[s]}]]
    BY <1>6 DEF Folds
  <2>a. ASSUME NEW s \in SUBSET K
        PROVE  /\ s = {} => g[s] = 0
               /\ s # {} /\ g[s \ {Some(s)}] \in Int => g[s] = g[s \ {Some(s)}] + f[Some(s)]
    <3>1. s = {} => g[s] = 0
      BY <2>1
    <3>2. ASSUME s # {}, g[s \ {Some(s)}] \in Int PROVE g[s] = g[s \ {Some(s)}] + f[Some(s)]
      <4>1. g[s] = step[ch[s]][g[s \ {ch[s]}]]
        BY <2>1, <3>2
      <4>2. g[s] = step[Some(s)][g[s \ {Some(s)}]]
        BY <1>1, <3>2, <4>1
      <4> QED
        BY <1>1, <1>3, <3>2, <4>2
    <3> QED
      BY <3>1, <3>2
  <2>2. \A s \in SUBSET K : g[s] \in Int
    BY <1>4, <2>a
  <2>3. g = [s \in SUBSET K |-> g[s]]
    BY <1>6 DEF Folds
  <2>4. ASSUME NEW s \in SUBSET K PROVE g[s] = IF s = {} THEN 0 ELSE g[s \ {Some(s)}] + f[Some(s)]
    BY <1>1, <1>3, <2>1, <2>2
  <2>5. [s \in SUBSET K |-> g[s]] = [s \in SUBSET K |-> IF s = {} THEN 0 ELSE g[s \ {Some(s)}] + f[Some(s)]]
    BY <2>4
  <2> QED
    BY <2>3, <2>5 DEF IsSums
<1> QED
  BY <1>5, <1>6 DEF ch, step

LEMMA SumStep ==
    ASSUME NEW f, NEW J, Numbers(f, J)
    PROVE  /\ Sum(f, J) \in Int
           /\ J = {} => Sum(f, J) = 0
           /\ J # {} => Sum(f, J) = Sum(f, J \ {Some(J)}) + f[Some(J)]
<1> DEFINE ch == [s \in SUBSET J |-> Some(s)]
           step == [x \in J |-> [v \in Int |-> v + f[x]]]
           G(K) == CHOOSE g : IsSums(g, f, K)
<1>0. IsFiniteSet(J) /\ \A s \in SUBSET J : s # {} => ch[s] \in s
  BY SomeIn DEF Numbers
<1>1. ASSUME NEW K \in SUBSET J, NEW g
      PROVE  /\ IsSums(g, f, K) => /\ \A s \in SUBSET K : g[s] \in Int
                                   /\ Folds(g, K, ch, step, 0)
             /\ Folds(g, K, ch, step, 0) => IsSums(g, f, K)
  BY SumsAreFolds
<1> HIDE DEF ch, step
<1>2. ASSUME NEW K \in SUBSET J PROVE IsSums(G(K), f, K)
  <2>1. IsFiniteSet(K) /\ \A s \in SUBSET K : s # {} => ch[s] \in s
    BY <1>0, FS_Subset
  <2>2. \E g : Folds(g, K, ch, step, 0)
    BY <2>1, FoldsExist
  <2>3. \E g : IsSums(g, f, K)
    BY <1>1, <2>2
  <2> QED
    BY <2>3
<1>3. \A K : Sum(f, K) = G(K)[K]
  BY DEF Sum
<1> HIDE DEF G
<1>4. G(J)[J] = IF J = {} THEN 0 ELSE G(J)[J \ {Some(J)}] + f[Some(J)]
  <2>1. IsSums(G(J), f, J)
    BY <1>2
  <2> QED
    BY <2>1 DEF IsSums
<1>5. G(J)[J] \in Int
  BY <1>1, <1>2
<1>6. ASSUME J # {} PROVE G(J)[J \ {Some(J)}] = G(J \ {Some(J)})[J \ {Some(J)}]
  <2> DEFINE K == J \ {Some(J)}
  <2>1. K \in SUBSET J /\ J \in SUBSET J /\ K \in SUBSET K
    OBVIOUS
  <2> HIDE DEF K
  <2>2. Folds(G(J), J, ch, step, 0) /\ Folds(G(K), K, ch, step, 0)
    BY <1>1, <1>2, <2>1
  <2>3. \A s \in SUBSET K : G(J)[s] = G(K)[s]
    BY <1>0, <2>1, <2>2, FoldsAgree
  <2> QED
    BY <2>1, <2>3 DEF K
<1> QED
  BY <1>3, <1>4, <1>5, <1>6

LEMMA NumbersSubset ==
    ASSUME NEW f, NEW J, Numbers(f, J), NEW K \in SUBSET J
    PROVE  Numbers(f, K)
BY FS_Subset DEF Numbers

(* The order does not matter *)
LEMMA SumRemove ==
    ASSUME NEW f, NEW J, Numbers(f, J), NEW x \in J
    PROVE  Sum(f, J) = Sum(f, J \ {x}) + f[x]
<1> DEFINE Bad == {s \in SUBSET J : \E y \in s : Sum(f, s) # Sum(f, s \ {y}) + f[y]}
<1>1. SUFFICES ASSUME Bad # {} PROVE FALSE
  OBVIOUS
<1>2. PICK s \in Bad : \A t \in SUBSET s : t # s => t \notin Bad
  <2>1. Bad \subseteq SUBSET J
    OBVIOUS
  <2> HIDE DEF Bad
  <2> QED
    BY <1>1, <2>1, SmallestSet DEF Numbers
<1>3. PICK y \in s : Sum(f, s) # Sum(f, s \ {y}) + f[y]
  BY <1>2
<1> DEFINE c == Some(s)
           u == s \ {c}
           v == s \ {y}
           w == s \ {c, y}
<1>4. s \in SUBSET J /\ s # {} /\ c \in s
  BY <1>2, <1>3, SomeIn
<1>5. Sum(f, s) = Sum(f, u) + f[c]
  BY <1>4, NumbersSubset, SumStep
<1>6. c # y
  BY <1>3, <1>5
<1>7. u \in SUBSET s /\ v \in SUBSET s /\ w \in SUBSET s /\ u # s /\ v # s /\ y \in u /\ c \in v
      /\ u \ {y} = w /\ v \ {c} = w
  BY <1>4, <1>6
<1>8. u \notin Bad /\ v \notin Bad /\ u \in SUBSET J /\ v \in SUBSET J
  BY <1>2, <1>4, <1>7
<1>9. Sum(f, u) = Sum(f, w) + f[y] /\ Sum(f, v) = Sum(f, w) + f[c]
  BY <1>7, <1>8
<1>10. f[c] \in Int /\ f[y] \in Int /\ Sum(f, w) \in Int
  <2>1. w \in SUBSET J
    BY <1>4
  <2> QED
    BY <1>4, <2>1, NumbersSubset, SumStep DEF Numbers
<1> QED
  BY <1>3, <1>5, <1>9, <1>10

LEMMA SumAdd ==
    ASSUME NEW f, NEW J, NEW x, x \notin J, Numbers(f, J \cup {x})
    PROVE  Sum(f, J \cup {x}) = Sum(f, J) + f[x]
<1>1. (J \cup {x}) \ {x} = J
  OBVIOUS
<1> QED
  BY <1>1, SumRemove

LEMMA SumUnion ==
    ASSUME NEW f, NEW J, NEW K, Numbers(f, J \cup K), J \cap K = {}
    PROVE  Sum(f, J \cup K) = Sum(f, J) + Sum(f, K)
<1> DEFINE Bad == {s \in SUBSET K : Sum(f, J \cup s) # Sum(f, J) + Sum(f, s)}
<1>1. SUFFICES ASSUME Bad # {} PROVE FALSE
  OBVIOUS
<1>2. PICK s \in Bad : \A t \in SUBSET s : t # s => t \notin Bad
  <2>1. Bad \subseteq SUBSET K /\ IsFiniteSet(K)
    BY NumbersSubset DEF Numbers
  <2> HIDE DEF Bad
  <2> QED
    BY <1>1, <2>1, SmallestSet
<1>3. s \in SUBSET K /\ Sum(f, J \cup s) # Sum(f, J) + Sum(f, s)
  BY <1>2
<1>4. ASSUME NEW t \in SUBSET K PROVE Numbers(f, J) /\ Numbers(f, t) /\ Numbers(f, J \cup t)
  <2>1. J \in SUBSET (J \cup K) /\ t \in SUBSET (J \cup K) /\ J \cup t \in SUBSET (J \cup K)
    OBVIOUS
  <2> QED
    BY <2>1, NumbersSubset
<1>5. s # {}
  <2>1. Sum(f, {}) = 0 /\ Sum(f, J) \in Int
    BY <1>4, SumStep
  <2> QED
    BY <1>3, <2>1
<1>6. PICK x \in s : TRUE
  BY <1>5
<1> DEFINE t == s \ {x}
<1>7. t \in SUBSET s /\ t # s /\ t \in SUBSET K /\ t \notin Bad
  BY <1>2, <1>3, <1>6
<1>8. Sum(f, J \cup t) = Sum(f, J) + Sum(f, t)
  BY <1>7
<1>9. Sum(f, s) = Sum(f, t) + f[x]
  BY <1>3, <1>4, <1>6, SumRemove
<1>10. Sum(f, J \cup s) = Sum(f, J \cup t) + f[x]
  <2>1. (J \cup s) \ {x} = J \cup t /\ x \in J \cup s
    BY <1>3, <1>6
  <2> QED
    BY <1>3, <1>4, <2>1, SumRemove
<1>11. Sum(f, J) \in Int /\ Sum(f, t) \in Int /\ f[x] \in Int
  BY <1>3, <1>4, <1>6, <1>7, SumStep DEF Numbers
<1> QED
  BY <1>3, <1>8, <1>9, <1>10, <1>11

(* Only the values on the set matter *)
LEMMA SumSame ==
    ASSUME NEW f, NEW h, NEW J, \A x \in J : f[x] = h[x]
    PROVE  Sum(f, J) = Sum(h, J)
<1>1. ASSUME NEW g PROVE IsSums(g, f, J) <=> IsSums(g, h, J)
  <2>1. \A s \in SUBSET J : (IF s = {} THEN 0 ELSE g[s \ {Some(s)}] + f[Some(s)]) = (IF s = {} THEN 0 ELSE g[s \ {Some(s)}] + h[Some(s)])
    BY SomeIn
  <2>2. [s \in SUBSET J |-> IF s = {} THEN 0 ELSE g[s \ {Some(s)}] + f[Some(s)]] = [s \in SUBSET J |-> IF s = {} THEN 0 ELSE g[s \ {Some(s)}] + h[Some(s)]]
    BY <2>1
  <2> QED
    BY <2>2 DEF IsSums
<1>2. (CHOOSE g : IsSums(g, f, J)) = (CHOOSE g : IsSums(g, h, J))
  BY <1>1
<1> QED
  BY <1>2 DEF Sum

----------------------------------------------------------------------------
(* Why rows may be split over workers and their states merged in any order: for
   COUNT, SUM, MIN and MAX, nullable or not, the combine step is a commutative and
   associative operation whose unit is the default state, and reducing a row
   commutes with it. *)

Algebraic == {"count*", "count", "sum", "max", "min"}

\* The values of a column, which COUNT takes nullable or not, and the states a
\* function can reach.
Values(f) == IF f.nullable \/ f.fn \in {"count*", "count"} THEN Int \union {Null} ELSE Int

States(f) ==
    IF f.fn \in {"count*", "count"} THEN Nat
    ELSE IF f.nullable THEN Int \union {Null}
    ELSE IF f.fn = "max" THEN Nat
    ELSE IF f.fn = "min" THEN {i \in Int : i <= MaxInt}
    ELSE Int

\* Every function starts in one of its states and stays there, whatever the row
\* holds and whatever it is combined with.
LEMMA StatesClosed ==
    ASSUME NEW f, f.fn \in Algebraic, f.nullable \in BOOLEAN,
           NEW l \in States(f), NEW r \in States(f), NEW v \in Values(f)
    PROVE  /\ createDefaultValue(f) \in States(f)
           /\ aggregate(f, l, v) \in States(f)
           /\ combine(f, l, r) \in States(f)
<1>1. CASE f.fn \in {"count*", "count"}
  BY <1>1, NullAssumption DEF Algebraic, States, Values, createDefaultValue, aggregate, combine,
     CountAggregate, CountCombine, AddOp, IsNull
<1>2. CASE f.fn = "sum"
  BY <1>2, NullAssumption DEF States, Values, createDefaultValue, aggregate, combine,
     SumDefault, SumAggregate, SumCombine, AddOp, IsNull, ZeroIfNull
<1>3. CASE f.fn = "max"
  BY <1>3, NullAssumption DEF States, Values, createDefaultValue, aggregate, combine,
     MaxDefault, MaxAggregate, MaxCombine, LtTruth, IsNull
<1>4. CASE f.fn = "min"
  BY <1>4, NullAssumption, MaxIntAssumption DEF States, Values, createDefaultValue, aggregate,
     combine, MinDefault, MinAggregate, MinCombine, LtTruth, IsNull
<1>. QED  BY <1>1, <1>2, <1>3, <1>4 DEF Algebraic

\* A worker's state may be merged before or after its next row: for every state,
\* row and other worker, the combine step of RelAlgToSubOp.cpp gives the same.
THEOREM ReduceCommutes ==
    ASSUME NEW f, f.fn \in Algebraic, f.nullable \in BOOLEAN,
           NEW l \in States(f), NEW r \in States(f), NEW v \in Values(f)
    PROVE  combine(f, aggregate(f, l, v), r) = aggregate(f, combine(f, l, r), v)
<1>1. CASE f.fn \in {"count*", "count"}
  BY <1>1, NullAssumption DEF States, Values, aggregate, combine,
     CountAggregate, CountCombine, AddOp, IsNull
<1>2. CASE f.fn = "sum"
  BY <1>2, NullAssumption DEF States, Values, aggregate, combine,
     SumAggregate, SumCombine, AddOp, IsNull, ZeroIfNull
<1>3. CASE f.fn = "max"
  BY <1>3, NullAssumption DEF States, Values, aggregate, combine,
     MaxAggregate, MaxCombine, LtTruth, IsNull
<1>4. CASE f.fn = "min"
  BY <1>4, NullAssumption DEF States, Values, aggregate, combine,
     MinAggregate, MinCombine, LtTruth, IsNull
<1>. QED  BY <1>1, <1>2, <1>3, <1>4 DEF Algebraic

\* The states of the workers may be merged in any order and grouping, and a worker
\* without rows contributes nothing.
THEOREM MergeOrderIrrelevant ==
    ASSUME NEW f, f.fn \in Algebraic, f.nullable \in BOOLEAN,
           NEW l \in States(f), NEW m \in States(f), NEW r \in States(f)
    PROVE  /\ combine(f, l, r) = combine(f, r, l)
           /\ combine(f, combine(f, l, m), r) = combine(f, l, combine(f, m, r))
           /\ combine(f, createDefaultValue(f), r) = r
<1>1. CASE f.fn \in {"count*", "count"}
  BY <1>1, NullAssumption DEF States, createDefaultValue, combine, CountCombine, AddOp, IsNull
<1>2. CASE f.fn = "sum"
  <2>1. createDefaultValue(f) = SumDefault(f) /\ \A x, y : combine(f, x, y) = SumCombine(f, x, y)
    BY <1>2 DEF createDefaultValue, combine
  <2>2. CASE f.nullable
    BY <1>2, <2>1, <2>2, NullAssumption DEF States, SumDefault, SumCombine, AddOp, IsNull, ZeroIfNull
  <2>3. CASE ~f.nullable
    BY <1>2, <2>1, <2>3, NullAssumption DEF States, SumDefault, SumCombine, AddOp, IsNull
  <2> QED
    BY <2>2, <2>3
<1>3. CASE f.fn = "max"
  BY <1>3, NullAssumption DEF States, createDefaultValue, combine,
     MaxDefault, MaxCombine, LtTruth, IsNull
<1>4. CASE f.fn = "min"
  BY <1>4, NullAssumption, MaxIntAssumption DEF States, createDefaultValue, combine,
     MinDefault, MinCombine, LtTruth, IsNull
<1>. QED  BY <1>1, <1>2, <1>3, <1>4 DEF Algebraic
----------------------------------------------------------------------------
(* The state of an aggregate function p over a set I of tuples *)

PrimFns == {"count*", "count", "sum", "max", "min", "any", "array_agg"}

Known(p, I) == {t \in I : Arg(p, t) # Null}
ArgsOf(p, I) == {Arg(p, t) : t \in I}
SumOf(p, J) == Sum([t \in J |-> Arg(p, t)], J)

\* MIN and MAX start at a default if their state is not nullable.
Candidates(p, I) == ArgsOf(p, Known(p, I)) \cup (IF p.nullable THEN {} ELSE {createDefaultValue(p)})

SameElements(p, I, s) ==
    \A v : Cardinality({t \in I : Arg(p, t) = v}) = Cardinality({k \in DOMAIN s : s[k] = v})

IsState(p, I, s) ==
    /\ p.fn = "count*" => s = Cardinality(I)
    /\ p.fn = "count" => s = Cardinality(Known(p, I))
    /\ p.fn = "sum" => s = IF p.nullable /\ I = {} THEN Null ELSE SumOf(p, Known(p, I))
    /\ p.fn = "max" => IF Candidates(p, I) = {} THEN s = Null
                       ELSE s \in Candidates(p, I) /\ \A c \in Candidates(p, I) : s >= c
    /\ p.fn = "min" => IF Candidates(p, I) = {} THEN s = Null
                       ELSE s \in Candidates(p, I) /\ \A c \in Candidates(p, I) : s <= c
    /\ p.fn = "any" => IF I = {} THEN s = Undef ELSE s \in ArgsOf(p, I)
    /\ p.fn = "array_agg" => s \in Seq(Int \cup {Null}) /\ SameElements(p, I, s)

\* What a query and its tables guarantee of the arguments.
ArgFacts(p, I) ==
    /\ IsFiniteSet(I)
    /\ p.fn \in PrimFns /\ p.nullable \in BOOLEAN
    /\ p.fn = "array_agg" => ~p.nullable
    /\ \A t \in I : /\ Arg(p, t) \in Int \cup {Null}
                    /\ p.fn \in {"sum", "max", "min"} /\ ~p.nullable => Arg(p, t) \in Int
                    /\ p.fn = "min" /\ Arg(p, t) \in Int => Arg(p, t) <= MaxInt

LEMMA ArgFactsSubset ==
    ASSUME NEW p, NEW I, ArgFacts(p, I), NEW K \in SUBSET I
    PROVE  ArgFacts(p, K) /\ IsFiniteSet(K) /\ Known(p, K) \in SUBSET K /\ IsFiniteSet(Known(p, K))
<1>1. IsFiniteSet(K) /\ Known(p, K) \in SUBSET K
  BY FS_Subset DEF ArgFacts, Known
<1> QED
  BY <1>1, FS_Subset DEF ArgFacts

LEMMA StateDefault ==
    ASSUME NEW p, ArgFacts(p, {})
    PROVE  IsState(p, {}, createDefaultValue(p))
<1>1. Known(p, {}) = {} /\ ArgsOf(p, Known(p, {})) = {}
  BY DEF Known, ArgsOf
<1>2. Cardinality({}) = 0
  BY FS_EmptySet
<1>3. CASE p.fn \in {"count*", "count"}
  BY <1>1, <1>2, <1>3 DEF IsState, createDefaultValue
<1>4. CASE p.fn = "sum"
  <2>1. SumOf(p, {}) = 0
    <3>1. Numbers([t \in {} |-> Arg(p, t)], {})
      BY FS_EmptySet DEF Numbers
    <3> QED
      BY <3>1, SumStep DEF SumOf
  <2> QED
    BY <1>1, <1>4, <2>1 DEF IsState, createDefaultValue, SumDefault, ArgFacts
<1>5. CASE p.fn \in {"max", "min"}
  <2>1. p.nullable => createDefaultValue(p) = Null
    BY <1>5 DEF createDefaultValue, MaxDefault, MinDefault
  <2>2. ~p.nullable => createDefaultValue(p) \in Int
    BY <1>5, MaxIntAssumption DEF createDefaultValue, MaxDefault, MinDefault
  <2>3. Candidates(p, {}) = IF p.nullable THEN {} ELSE {createDefaultValue(p)}
    BY <1>1 DEF Candidates
  <2> QED
    BY <1>5, <2>1, <2>2, <2>3 DEF IsState, ArgFacts
<1>6. CASE p.fn = "any"
  BY <1>6 DEF IsState, createDefaultValue
<1>7. CASE p.fn = "array_agg"
  <2>1. createDefaultValue(p) = <<>> /\ DOMAIN <<>> = {} /\ <<>> \in Seq(Int \cup {Null})
    BY <1>7 DEF createDefaultValue, ArrayAggDefault, ArgFacts
  <2>2. \A v : {t \in {} : Arg(p, t) = v} = {k \in DOMAIN <<>> : <<>>[k] = v}
    BY <2>1
  <2>3. SameElements(p, {}, <<>>)
    BY <2>2 DEF SameElements
  <2> QED
    BY <1>7, <2>1, <2>3 DEF IsState
<1> QED
  BY <1>3, <1>4, <1>5, <1>6, <1>7 DEF ArgFacts, PrimFns

LEMMA SumOfUnion ==
    ASSUME NEW p, NEW J, NEW K, IsFiniteSet(J \cup K), J \cap K = {},
           \A t \in J \cup K : Arg(p, t) \in Int
    PROVE  /\ SumOf(p, J \cup K) = SumOf(p, J) + SumOf(p, K)
           /\ SumOf(p, J) \in Int /\ SumOf(p, K) \in Int
<1> DEFINE f == [t \in J \cup K |-> Arg(p, t)]
<1>1. \A t \in J \cup K : f[t] = Arg(p, t)
  OBVIOUS
<1>2. SumOf(p, J \cup K) = Sum(f, J \cup K)
  BY DEF SumOf
<1> HIDE DEF f
<1>3. Numbers(f, J \cup K)
  BY <1>1 DEF Numbers
<1>4. Numbers(f, J) /\ Numbers(f, K)
  <2>1. J \in SUBSET (J \cup K) /\ K \in SUBSET (J \cup K)
    OBVIOUS
  <2> QED
    BY <1>3, <2>1, NumbersSubset
<1>5. SumOf(p, J) = Sum(f, J)
  <2>1. \A t \in J : [u \in J |-> Arg(p, u)][t] = f[t]
    BY <1>1
  <2> QED
    BY <2>1, SumSame DEF SumOf
<1>6. SumOf(p, K) = Sum(f, K)
  <2>1. \A t \in K : [u \in K |-> Arg(p, u)][t] = f[t]
    BY <1>1
  <2> QED
    BY <2>1, SumSame DEF SumOf
<1>7. Sum(f, J \cup K) = Sum(f, J) + Sum(f, K)
  BY <1>3, SumUnion
<1>8. Sum(f, J) \in Int /\ Sum(f, K) \in Int
  BY <1>4, SumStep
<1> QED
  BY <1>2, <1>5, <1>6, <1>7, <1>8

LEMMA SumOfSingle ==
    ASSUME NEW p, NEW t, Arg(p, t) \in Int
    PROVE  SumOf(p, {t}) = Arg(p, t) /\ SumOf(p, {}) = 0
<1> DEFINE f == [u \in {t} |-> Arg(p, u)]
<1>1. f[t] = Arg(p, t) /\ \A u \in {t} : f[u] \in Int
  OBVIOUS
<1>2. SumOf(p, {t}) = Sum(f, {t})
  BY DEF SumOf
<1>3. SumOf(p, {}) = Sum(f, {})
  <2>1. \A u \in {} : [w \in {} |-> Arg(p, w)][u] = f[u]
    OBVIOUS
  <2> QED
    BY <2>1, SumSame DEF SumOf
<1> HIDE DEF f
<1>4. Numbers(f, {t}) /\ Numbers(f, {})
  BY <1>1, FS_Singleton, FS_EmptySet DEF Numbers
<1>5. Sum(f, {t}) = Sum(f, {t} \ {t}) + f[t]
  BY <1>4, SumRemove
<1>6. {t} \ {t} = {}
  OBVIOUS
<1>7. Sum(f, {}) = 0
  BY <1>4, SumStep
<1>8. Sum(f, {t} \ {t}) = 0
  BY <1>6, <1>7
<1>9. Sum(f, {t}) = Arg(p, t)
  BY <1>1, <1>5, <1>8
<1> QED
  BY <1>2, <1>3, <1>7, <1>9

LEMMA SumOfInt ==
    ASSUME NEW p, NEW J, IsFiniteSet(J), \A t \in J : Arg(p, t) \in Int
    PROVE  SumOf(p, J) \in Int /\ (J = {} => SumOf(p, J) = 0)
<1>1. Numbers([t \in J |-> Arg(p, t)], J)
  BY DEF Numbers
<1> QED
  BY <1>1, SumStep DEF SumOf

\* One more tuple is reduced.
LEMMA StateReduce ==
    ASSUME NEW p, NEW I, NEW t, t \notin I, ArgFacts(p, I \cup {t}), NEW s, IsState(p, I, s)
    PROVE  IsState(p, I \cup {t}, aggregate(p, s, Arg(p, t)))
<1> DEFINE x == Arg(p, t)
           K == Known(p, I)
           s2 == aggregate(p, s, x)
<1>1. /\ IsFiniteSet(I) /\ IsFiniteSet(K) /\ K \in SUBSET I /\ p.nullable \in BOOLEAN
      /\ x \in Int \cup {Null} /\ (x # Null => x \in Int)
      /\ p.fn \in {"sum", "max", "min"} /\ ~p.nullable => x \in Int
      /\ \A u \in K : Arg(p, u) \in Int
      /\ p.fn = "array_agg" => ~p.nullable
  <2>1. I \in SUBSET (I \cup {t})
    OBVIOUS
  <2>2. IsFiniteSet(I) /\ IsFiniteSet(K) /\ K \in SUBSET I
    BY <2>1, ArgFactsSubset
  <2> QED
    BY <2>2 DEF ArgFacts, Known
<1>2. Known(p, I \cup {t}) = IF x = Null THEN K ELSE K \cup {t}
  BY DEF Known
<1>3. t \notin K
  BY <1>1
<1>4. CASE p.fn = "count*"
  <2>1. Cardinality(I \cup {t}) = Cardinality(I) + 1 /\ Cardinality(I) \in Nat
    BY <1>1, FS_AddElement, FS_CardinalityType
  <2>2. s = Cardinality(I)
    BY <1>4 DEF IsState
  <2>3. s2 = s + 1
    BY <1>4, <2>1, <2>2, NullAssumption DEF aggregate, AddOp, IsNull
  <2> QED
    BY <1>4, <2>1, <2>2, <2>3 DEF IsState
<1>5. CASE p.fn = "count"
  <2>1. Cardinality(K \cup {t}) = Cardinality(K) + 1 /\ Cardinality(K) \in Nat
    BY <1>1, <1>3, FS_AddElement, FS_CardinalityType
  <2>2. s = Cardinality(K)
    BY <1>5 DEF IsState
  <2>3. s2 = IF x = Null THEN s ELSE s + 1
    BY <1>5, <2>1, <2>2, NullAssumption DEF aggregate, CountAggregate, AddOp, IsNull
  <2>4. s2 = Cardinality(Known(p, I \cup {t}))
    BY <1>2, <2>1, <2>2, <2>3
  <2> QED
    BY <1>5, <2>4 DEF IsState
<1>6. CASE p.fn = "sum"
  <2>1. s = IF p.nullable /\ I = {} THEN Null ELSE SumOf(p, K)
    BY <1>6 DEF IsState
  <2>2. x # Null => SumOf(p, K \cup {t}) = SumOf(p, K) + x
    <3>1. ASSUME x # Null PROVE SumOf(p, K \cup {t}) = SumOf(p, K) + SumOf(p, {t})
      <4>1. IsFiniteSet(K \cup {t}) /\ K \cap {t} = {}
        BY <1>1, <1>3, FS_AddElement
      <4>2. \A u \in K \cup {t} : Arg(p, u) \in Int
        BY <1>1, <3>1
      <4> QED
        BY <4>1, <4>2, SumOfUnion
    <3>2. x # Null => SumOf(p, {t}) = x
      BY <1>1, SumOfSingle
    <3> QED
      BY <3>1, <3>2
  <2>3. SumOf(p, K) \in Int
    BY <1>1, SumOfInt
  <2>4. I = {} => SumOf(p, K) = 0
    <3>1. I = {} => K = {}
      BY <1>1
    <3> QED
      BY <1>1, <3>1, SumOfInt
  <2> DEFINE k == SumOf(p, K)
             k2 == SumOf(p, K \cup {t})
  <2>5. SumOf(p, Known(p, I \cup {t})) = IF x = Null THEN k ELSE k2
    BY <1>2
  <2>6. I \cup {t} # {}
    OBVIOUS
  <2>7. SumOf(p, Known(p, I \cup {t})) = s2
    <3> HIDE DEF k, k2
    <3>1. k \in Int /\ (x # Null => k2 = k + x) /\ (I = {} => k = 0) /\ s = IF p.nullable /\ I = {} THEN Null ELSE k
      BY <2>1, <2>2, <2>3, <2>4 DEF k, k2
    <3>2. s2 = SumAggregate(p, s, x)
      BY <1>6 DEF aggregate
    <3>3. CASE x = Null
      <4>1. p.nullable
        BY <1>1, <1>6, <3>3, NullAssumption
      <4>2. s2 = ZeroIfNull(s) + 0
        BY <3>1, <3>2, <3>3, <4>1, NullAssumption DEF SumAggregate, AddOp, IsNull, ZeroIfNull
      <4>3. ZeroIfNull(s) = k
        BY <3>1, NullAssumption DEF ZeroIfNull, IsNull
      <4> QED
        BY <2>5, <3>1, <3>3, <4>2, <4>3
    <3>4. CASE x # Null
      <4>1. x \in Int
        BY <1>1, <3>4
      <4>2. s2 = k + x
        BY <3>1, <3>2, <4>1, NullAssumption DEF SumAggregate, AddOp, IsNull, ZeroIfNull
      <4> QED
        BY <2>5, <3>1, <3>4, <4>2
    <3> QED
      BY <3>3, <3>4
  <2> QED
    BY <1>6, <2>6, <2>7 DEF IsState
<1> DEFINE C == Candidates(p, I)
           C2 == Candidates(p, I \cup {t})
<1>7. p.fn \in {"max", "min"} => C \subseteq Int /\ C2 = C \cup (IF x = Null THEN {} ELSE {x})
  <2>1. SUFFICES ASSUME p.fn \in {"max", "min"} PROVE C \subseteq Int /\ C2 = C \cup (IF x = Null THEN {} ELSE {x})
    OBVIOUS
  <2>2. createDefaultValue(p) \in Int \/ p.nullable
    BY <2>1, MaxIntAssumption DEF createDefaultValue, MaxDefault, MinDefault
  <2>3. ArgsOf(p, K) \subseteq Int
    BY <1>1 DEF ArgsOf
  <2>4. ArgsOf(p, Known(p, I \cup {t})) = ArgsOf(p, K) \cup (IF x = Null THEN {} ELSE {x})
    <3>1. ArgsOf(p, K \cup {t}) = ArgsOf(p, K) \cup {x}
      BY DEF ArgsOf
    <3> HIDE DEF K, x
    <3> QED
      BY <1>2, <3>1
  <2> QED
    BY <2>2, <2>3, <2>4 DEF Candidates
<1>8. p.fn \in {"max", "min"} /\ ~p.nullable => C # {} /\ x # Null
  BY <1>1, NullAssumption DEF Candidates
<1>9. CASE p.fn = "max"
  <2> HIDE DEF C, C2, x
  <2>1. IF C = {} THEN s = Null ELSE s \in C /\ \A c \in C : s >= c
    BY <1>9 DEF IsState, C
  <2>2. s2 = MaxAggregate(p, s, x)
    BY <1>9 DEF aggregate
  <2>3. /\ C \subseteq Int /\ C2 = C \cup (IF x = Null THEN {} ELSE {x})
        /\ p.nullable \in BOOLEAN /\ (x # Null => x \in Int) /\ (~p.nullable => C # {} /\ x # Null)
    BY <1>1, <1>7, <1>8, <1>9
  <2>4. IF C2 = {} THEN s2 = Null ELSE s2 \in C2 /\ \A c \in C2 : s2 >= c
    <3>1. CASE C = {}
      <4>1. s = Null /\ p.nullable
        BY <2>1, <2>3, <3>1
      <4>2. s2 = x
        BY <2>2, <4>1 DEF MaxAggregate, IsNull
      <4> QED
        BY <2>3, <3>1, <4>2
    <3>2. CASE C # {} /\ x = Null
      <4>1. s \in Int /\ s # Null /\ p.nullable
        BY <2>1, <2>3, <3>2, NullAssumption
      <4>2. s2 = s
        BY <2>2, <3>2, <4>1 DEF MaxAggregate, LtTruth, IsNull
      <4> QED
        BY <2>1, <2>3, <3>2, <4>2
    <3>3. CASE C # {} /\ x # Null
      <4>1. s \in Int /\ s # Null /\ x \in Int
        BY <2>1, <2>3, <3>3, NullAssumption
      <4>2. s2 = IF s < x THEN x ELSE s
        BY <2>2, <2>3, <3>3, <4>1 DEF MaxAggregate, LtTruth, IsNull
      <4>3. s2 \in C \cup {x}
        BY <2>1, <3>3, <4>2
      <4>4. ASSUME NEW c \in C \cup {x} PROVE s2 >= c
        <5>1. c = x \/ (c \in Int /\ s >= c)
          BY <2>1, <2>3, <3>3
        <5> QED
          BY <4>1, <4>2, <5>1
      <4> QED
        BY <2>3, <3>3, <4>3, <4>4
    <3> QED
      BY <3>1, <3>2, <3>3
  <2> QED
    BY <1>9, <2>4 DEF IsState, C2, x
<1>10. CASE p.fn = "min"
  <2> HIDE DEF C, C2, x
  <2>1. IF C = {} THEN s = Null ELSE s \in C /\ \A c \in C : s <= c
    BY <1>10 DEF IsState, C
  <2>2. s2 = MinAggregate(p, s, x)
    BY <1>10 DEF aggregate
  <2>3. /\ C \subseteq Int /\ C2 = C \cup (IF x = Null THEN {} ELSE {x})
        /\ p.nullable \in BOOLEAN /\ (x # Null => x \in Int) /\ (~p.nullable => C # {} /\ x # Null)
    BY <1>1, <1>7, <1>8, <1>10
  <2>4. IF C2 = {} THEN s2 = Null ELSE s2 \in C2 /\ \A c \in C2 : s2 <= c
    <3>1. CASE C = {}
      <4>1. s = Null /\ p.nullable
        BY <2>1, <2>3, <3>1
      <4>2. s2 = x
        BY <2>2, <4>1 DEF MinAggregate, IsNull
      <4> QED
        BY <2>3, <3>1, <4>2
    <3>2. CASE C # {} /\ x = Null
      <4>1. s \in Int /\ s # Null /\ p.nullable
        BY <2>1, <2>3, <3>2, NullAssumption
      <4>2. s2 = s
        BY <2>2, <3>2, <4>1 DEF MinAggregate, LtTruth, IsNull
      <4> QED
        BY <2>1, <2>3, <3>2, <4>2
    <3>3. CASE C # {} /\ x # Null
      <4>1. s \in Int /\ s # Null /\ x \in Int
        BY <2>1, <2>3, <3>3, NullAssumption
      <4>2. s2 = IF x < s THEN x ELSE s
        BY <2>2, <2>3, <3>3, <4>1 DEF MinAggregate, LtTruth, IsNull
      <4>3. s2 \in C \cup {x}
        BY <2>1, <3>3, <4>2
      <4>4. ASSUME NEW c \in C \cup {x} PROVE s2 <= c
        <5>1. c = x \/ (c \in Int /\ s <= c)
          BY <2>1, <2>3, <3>3
        <5> QED
          BY <4>1, <4>2, <5>1
      <4> QED
        BY <2>3, <3>3, <4>3, <4>4
    <3> QED
      BY <3>1, <3>2, <3>3
  <2> QED
    BY <1>10, <2>4 DEF IsState, C2, x
<1>11. CASE p.fn = "any"
  <2>1. s2 = x /\ x \in ArgsOf(p, I \cup {t}) /\ I \cup {t} # {}
    BY <1>11 DEF aggregate, ArgsOf
  <2> QED
    BY <1>11, <2>1 DEF IsState
<1>12. CASE p.fn = "array_agg"
  <2>1. s \in Seq(Int \cup {Null}) /\ SameElements(p, I, s) /\ s2 = Append(s, x)
    BY <1>1, <1>12 DEF IsState, aggregate, ArrayAggAggregate
  <2> DEFINE n == Len(s)
             w == Append(s, x)
  <2>2. /\ n \in Nat /\ DOMAIN s = 1 .. n /\ w \in Seq(Int \cup {Null}) /\ DOMAIN w = 1 .. n + 1
        /\ w[n + 1] = x /\ \A k \in 1 .. n : w[k] = s[k]
    BY <1>1, <2>1
  <2> HIDE DEF n, w
  <2>3. ASSUME NEW v PROVE Cardinality({u \in I \cup {t} : Arg(p, u) = v}) = Cardinality({k \in DOMAIN w : w[k] = v})
    <3> DEFINE A == {u \in I : Arg(p, u) = v}
               B == {k \in 1 .. n : s[k] = v}
    <3>1. IsFiniteSet(A) /\ IsFiniteSet(B) /\ t \notin A /\ n + 1 \notin B
      <4>1. IsFiniteSet(1 .. n)
        BY <2>2, FS_Interval
      <4>2. A \in SUBSET I /\ B \in SUBSET (1 .. n)
        OBVIOUS
      <4> QED
        BY <1>1, <2>2, <4>1, <4>2, FS_Subset
    <3>2. Cardinality(A) = Cardinality(B)
      BY <2>1, <2>2 DEF SameElements
    <3>3. {u \in I \cup {t} : Arg(p, u) = v} = IF x = v THEN A \cup {t} ELSE A
      OBVIOUS
    <3>4. {k \in DOMAIN w : w[k] = v} = IF x = v THEN B \cup {n + 1} ELSE B
      <4>1. DOMAIN w = (1 .. n) \cup {n + 1}
        BY <2>2
      <4> QED
        BY <2>2, <4>1
    <3> HIDE DEF A, B
    <3>5. Cardinality(A \cup {t}) = Cardinality(A) + 1 /\ Cardinality(B \cup {n + 1}) = Cardinality(B) + 1
      BY <3>1, FS_AddElement
    <3> QED
      BY <3>2, <3>3, <3>4, <3>5
  <2>4. SameElements(p, I \cup {t}, w)
    BY <2>3 DEF SameElements
  <2> QED
    BY <1>12, <2>1, <2>2, <2>4 DEF IsState, w
<1> QED
  BY <1>4, <1>5, <1>6, <1>9, <1>10, <1>11, <1>12 DEF ArgFacts, PrimFns

\* Disjoint sets
LEMMA SizeOfUnion ==
    ASSUME NEW A, NEW B, IsFiniteSet(A), IsFiniteSet(B), A \cap B = {}
    PROVE  /\ Cardinality(A \cup B) = Cardinality(A) + Cardinality(B)
           /\ Cardinality(A) \in Nat /\ Cardinality(B) \in Nat /\ IsFiniteSet(A \cup B)
<1>1. Cardinality(A) \in Nat /\ Cardinality(B) \in Nat
  BY FS_CardinalityType
<1>2. IsFiniteSet(A \cup B) /\ Cardinality(A \cup B) = Cardinality(A) + Cardinality(B) - Cardinality(A \cap B)
  BY FS_Union
<1>3. Cardinality(A \cap B) = 0
  BY FS_EmptySet
<1> QED
  BY <1>1, <1>2, <1>3

\* The states of two workers, which have reduced different tuples, are combined.
\* ANY takes the left one, which must have one.
LEMMA StateCombine ==
    ASSUME NEW p, NEW I, NEW K, I \cap K = {}, ArgFacts(p, I \cup K),
           NEW l, NEW r, IsState(p, I, l), IsState(p, K, r), p.fn = "any" => I # {}
    PROVE  IsState(p, I \cup K, combine(p, l, r))
<1> DEFINE A == Known(p, I)
           B == Known(p, K)
           c == combine(p, l, r)
<1>1. /\ IsFiniteSet(I) /\ IsFiniteSet(K) /\ IsFiniteSet(A) /\ IsFiniteSet(B)
      /\ A \in SUBSET I /\ B \in SUBSET K /\ A \cap B = {}
      /\ Known(p, I \cup K) = A \cup B /\ IsFiniteSet(A \cup B)
      /\ p.nullable \in BOOLEAN
      /\ \A t \in A \cup B : Arg(p, t) \in Int
      /\ p.fn = "array_agg" => ~p.nullable
  <2>1. I \in SUBSET (I \cup K) /\ K \in SUBSET (I \cup K)
    OBVIOUS
  <2>2. /\ IsFiniteSet(I) /\ IsFiniteSet(A) /\ A \in SUBSET I
        /\ IsFiniteSet(K) /\ IsFiniteSet(B) /\ B \in SUBSET K
    BY <2>1, ArgFactsSubset
  <2>3. Known(p, I \cup K) = A \cup B
    BY DEF Known
  <2>4. IsFiniteSet(A \cup B)
    BY <2>2, FS_Union
  <2> QED
    BY <2>2, <2>3, <2>4 DEF ArgFacts, Known
<1>2. CASE p.fn = "count*"
  <2>1. Cardinality(I \cup K) = Cardinality(I) + Cardinality(K)
        /\ Cardinality(I) \in Nat /\ Cardinality(K) \in Nat
    BY <1>1, SizeOfUnion
  <2>2. l = Cardinality(I) /\ r = Cardinality(K)
    BY <1>2 DEF IsState
  <2>3. c = l + r
    BY <1>2, <2>1, <2>2, NullAssumption DEF combine, CountCombine, AddOp, IsNull
  <2> QED
    BY <1>2, <2>1, <2>2, <2>3 DEF IsState
<1>3. CASE p.fn = "count"
  <2>1. Cardinality(A \cup B) = Cardinality(A) + Cardinality(B)
        /\ Cardinality(A) \in Nat /\ Cardinality(B) \in Nat
    BY <1>1, SizeOfUnion
  <2>2. l = Cardinality(A) /\ r = Cardinality(B)
    BY <1>3 DEF IsState
  <2>3. c = l + r
    BY <1>3, <2>1, <2>2, NullAssumption DEF combine, CountCombine, AddOp, IsNull
  <2> QED
    BY <1>1, <1>3, <2>1, <2>2, <2>3 DEF IsState
<1>4. CASE p.fn = "sum"
  <2> DEFINE a == SumOf(p, A)
             b == SumOf(p, B)
  <2>1. SumOf(p, A \cup B) = a + b /\ a \in Int /\ b \in Int
    BY <1>1, SumOfUnion
  <2>2. (I = {} => a = 0) /\ (K = {} => b = 0)
    <3>1. (I = {} => A = {}) /\ (K = {} => B = {})
      BY <1>1
    <3>2. \A t \in A : Arg(p, t) \in Int
      BY <1>1
    <3>3. \A t \in B : Arg(p, t) \in Int
      BY <1>1
    <3> QED
      BY <1>1, <3>1, <3>2, <3>3, SumOfInt
  <2>3. l = (IF p.nullable /\ I = {} THEN Null ELSE a) /\ r = (IF p.nullable /\ K = {} THEN Null ELSE b)
    BY <1>4 DEF IsState
  <2>4. c = SumCombine(p, l, r)
    BY <1>4 DEF combine
  <2> HIDE DEF a, b
  <2>5. ZeroIfNull(l) = a /\ ZeroIfNull(r) = b
    BY <2>1, <2>2, <2>3, NullAssumption DEF ZeroIfNull, IsNull
  <2>6. CASE ~p.nullable
    BY <1>1, <1>4, <2>1, <2>3, <2>4, <2>6, NullAssumption DEF SumCombine, AddOp, IsNull, IsState
  <2>7. CASE p.nullable /\ I \cup K = {}
    <3>1. l = Null /\ r = Null
      BY <2>3, <2>7
    <3>2. c = Null
      BY <2>4, <2>7, <3>1 DEF SumCombine, IsNull
    <3> QED
      BY <1>4, <2>7, <3>2 DEF IsState
  <2>8. CASE p.nullable /\ I \cup K # {}
    <3>1. l # Null \/ r # Null
      BY <2>1, <2>3, <2>8, NullAssumption
    <3>2. c = a + b
      BY <2>1, <2>4, <2>5, <2>8, <3>1, NullAssumption DEF SumCombine, AddOp, IsNull
    <3> QED
      BY <1>1, <1>4, <2>1, <2>8, <3>2 DEF IsState
  <2> QED
    BY <1>1, <2>6, <2>7, <2>8
<1> DEFINE C == Candidates(p, I)
           D == Candidates(p, K)
<1>5. p.fn \in {"max", "min"} => C \subseteq Int /\ D \subseteq Int
  <2>1. SUFFICES ASSUME p.fn \in {"max", "min"} PROVE C \subseteq Int /\ D \subseteq Int
    OBVIOUS
  <2>2. createDefaultValue(p) \in Int \/ p.nullable
    BY <2>1, MaxIntAssumption DEF createDefaultValue, MaxDefault, MinDefault
  <2>3. ArgsOf(p, A) \subseteq Int /\ ArgsOf(p, B) \subseteq Int
    BY <1>1 DEF ArgsOf
  <2> QED
    BY <2>2, <2>3 DEF Candidates
<1>6. Candidates(p, I \cup K) = C \cup D
  <2>1. ArgsOf(p, A \cup B) = ArgsOf(p, A) \cup ArgsOf(p, B)
    BY DEF ArgsOf
  <2> HIDE DEF A, B
  <2> QED
    BY <1>1, <2>1 DEF Candidates, A, B
<1>7. ~p.nullable => C # {} /\ D # {}
  BY DEF Candidates
<1>8. CASE p.fn = "max"
  <2> HIDE DEF C, D
  <2>1. IF C = {} THEN l = Null ELSE l \in C /\ \A x \in C : l >= x
    BY <1>8 DEF IsState, C
  <2>2. IF D = {} THEN r = Null ELSE r \in D /\ \A x \in D : r >= x
    BY <1>8 DEF IsState, D
  <2>3. c = MaxCombine(p, l, r)
    BY <1>8 DEF combine
  <2>4. IF C \cup D = {} THEN c = Null ELSE c \in C \cup D /\ \A x \in C \cup D : c >= x
    <3>1. CASE C = {}
      <4>1. l = Null /\ p.nullable
        BY <1>1, <1>7, <2>1, <3>1
      <4>2. c = r
        BY <2>3, <4>1 DEF MaxCombine, IsNull
      <4>3. C \cup D = D
        BY <3>1
      <4> QED
        BY <2>2, <4>2, <4>3
    <3>2. CASE C # {} /\ D = {}
      <4>1. l \in Int /\ l # Null /\ p.nullable /\ r = Null
        BY <1>1, <1>5, <1>7, <1>8, <2>1, <2>2, <3>2, NullAssumption
      <4>2. c = l
        BY <2>3, <4>1 DEF MaxCombine, LtTruth, IsNull
      <4>3. C \cup D = C
        BY <3>2
      <4> QED
        BY <2>1, <3>2, <4>2, <4>3
    <3>3. CASE C # {} /\ D # {}
      <4>1. l \in Int /\ l # Null /\ r \in Int /\ r # Null
        BY <1>5, <1>8, <2>1, <2>2, <3>3, NullAssumption
      <4>2. c = IF l < r THEN r ELSE l
        BY <2>3, <4>1 DEF MaxCombine, LtTruth, IsNull
      <4>3. c \in C \cup D
        BY <2>1, <2>2, <3>3, <4>2
      <4>4. ASSUME NEW x \in C \cup D PROVE c >= x
        <5>1. x \in Int /\ (l >= x \/ r >= x)
          BY <1>5, <1>8, <2>1, <2>2, <3>3
        <5> QED
          BY <4>1, <4>2, <5>1
      <4> QED
        BY <3>3, <4>3, <4>4
    <3> QED
      BY <3>1, <3>2, <3>3
  <2> QED
    BY <1>6, <1>8, <2>4 DEF IsState
<1>9. CASE p.fn = "min"
  <2> HIDE DEF C, D
  <2>1. IF C = {} THEN l = Null ELSE l \in C /\ \A x \in C : l <= x
    BY <1>9 DEF IsState, C
  <2>2. IF D = {} THEN r = Null ELSE r \in D /\ \A x \in D : r <= x
    BY <1>9 DEF IsState, D
  <2>3. c = MinCombine(p, l, r)
    BY <1>9 DEF combine
  <2>4. IF C \cup D = {} THEN c = Null ELSE c \in C \cup D /\ \A x \in C \cup D : c <= x
    <3>1. CASE D = {}
      <4>1. r = Null /\ p.nullable
        BY <1>1, <1>7, <2>2, <3>1
      <4>2. c = l
        BY <2>3, <4>1 DEF MinCombine, IsNull
      <4>3. C \cup D = C
        BY <3>1
      <4> QED
        BY <2>1, <4>2, <4>3
    <3>2. CASE C = {} /\ D # {}
      <4>1. r \in Int /\ r # Null /\ p.nullable /\ l = Null
        BY <1>1, <1>5, <1>7, <1>9, <2>1, <2>2, <3>2, NullAssumption
      <4>2. c = r
        BY <2>3, <4>1 DEF MinCombine, LtTruth, IsNull
      <4>3. C \cup D = D
        BY <3>2
      <4> QED
        BY <2>2, <3>2, <4>2, <4>3
    <3>3. CASE C # {} /\ D # {}
      <4>1. l \in Int /\ l # Null /\ r \in Int /\ r # Null
        BY <1>5, <1>9, <2>1, <2>2, <3>3, NullAssumption
      <4>2. c = IF l < r THEN l ELSE r
        BY <2>3, <4>1 DEF MinCombine, LtTruth, IsNull
      <4>3. c \in C \cup D
        BY <2>1, <2>2, <3>3, <4>2
      <4>4. ASSUME NEW x \in C \cup D PROVE c <= x
        <5>1. x \in Int /\ (l <= x \/ r <= x)
          BY <1>5, <1>9, <2>1, <2>2, <3>3
        <5> QED
          BY <4>1, <4>2, <5>1
      <4> QED
        BY <3>3, <4>3, <4>4
    <3> QED
      BY <3>1, <3>2, <3>3
  <2> QED
    BY <1>6, <1>9, <2>4 DEF IsState
<1>10. CASE p.fn = "any"
  <2>1. c = l /\ l \in ArgsOf(p, I) /\ I # {}
    BY <1>10 DEF IsState, combine
  <2>2. l \in ArgsOf(p, I \cup K)
    BY <2>1 DEF ArgsOf
  <2>3. I \cup K # {}
    BY <2>1
  <2> QED
    BY <1>10, <2>1, <2>2, <2>3 DEF IsState
<1>11. CASE p.fn = "array_agg"
  <2>1. /\ l \in Seq(Int \cup {Null}) /\ SameElements(p, I, l)
        /\ r \in Seq(Int \cup {Null}) /\ SameElements(p, K, r)
        /\ c = l \o r
    BY <1>1, <1>11 DEF IsState, combine, ArrayAggCombine
  <2> DEFINE m == Len(l)
             n == Len(r)
             w == l \o r
  <2>2. /\ m \in Nat /\ DOMAIN l = 1 .. m /\ n \in Nat /\ DOMAIN r = 1 .. n
        /\ w \in Seq(Int \cup {Null}) /\ DOMAIN w = 1 .. m + n
        /\ \A k \in 1 .. m : w[k] = l[k]
        /\ \A k \in 1 .. n : w[m + k] = r[k]
    <3>1. m \in Nat /\ DOMAIN l = 1 .. m /\ n \in Nat /\ DOMAIN r = 1 .. n
          /\ w \in Seq(Int \cup {Null}) /\ Len(w) = m + n
      BY <2>1
    <3>2. DOMAIN w = 1 .. m + n
      BY <3>1
    <3>3. \A k \in 1 .. m : w[k] = l[k]
      BY <2>1
    <3>4. \A k \in 1 .. n : w[m + k] = r[k]
      BY <2>1
    <3> QED
      BY <3>1, <3>2, <3>3, <3>4
  <2> HIDE DEF m, n, w
  <2>3. ASSUME NEW v PROVE Cardinality({t \in I \cup K : Arg(p, t) = v}) = Cardinality({k \in DOMAIN w : w[k] = v})
    <3> DEFINE E == {t \in I : Arg(p, t) = v}
               F == {t \in K : Arg(p, t) = v}
               G == {k \in 1 .. m : l[k] = v}
               H == {k \in 1 .. n : r[k] = v}
               J == {m + k : k \in H}
    <3>1. IsFiniteSet(E) /\ IsFiniteSet(F) /\ E \cap F = {}
      <4>1. E \in SUBSET I /\ F \in SUBSET K /\ E \cap F = {}
        OBVIOUS
      <4> QED
        BY <1>1, <4>1, FS_Subset
    <3>2. IsFiniteSet(G) /\ IsFiniteSet(H)
      <4>1. G \in SUBSET (1 .. m) /\ H \in SUBSET (1 .. n)
        OBVIOUS
      <4>2. IsFiniteSet(1 .. m) /\ IsFiniteSet(1 .. n)
        BY <2>2, FS_Interval
      <4> QED
        BY <4>1, <4>2, FS_Subset
    <3>3. Cardinality(E) = Cardinality(G) /\ Cardinality(F) = Cardinality(H)
      BY <2>1, <2>2 DEF SameElements
    <3>4. IsFiniteSet(J) /\ Cardinality(J) = Cardinality(H)
      <4> DEFINE f == [k \in H |-> m + k]
      <4>1. f \in Bijection(H, J)
        <5>1. f \in [H -> J] /\ \A y \in J : \E k \in H : f[k] = y
          OBVIOUS
        <5>2. \A a, b \in H : f[a] = f[b] => a = b
          BY <2>2
        <5> QED
          BY <5>1, <5>2 DEF Bijection, Injection, Surjection, IsInjective
      <4>2. ExistsBijection(H, J)
        BY <4>1 DEF ExistsBijection
      <4> QED
        BY <3>2, <4>2, FS_Bijection
    <3>5. {t \in I \cup K : Arg(p, t) = v} = E \cup F
      OBVIOUS
    <3>6. {k \in DOMAIN w : w[k] = v} = G \cup J /\ G \cap J = {}
      <4>1. \A k : k \in 1 .. m + n <=> (k \in 1 .. m \/ \E i \in 1 .. n : k = m + i)
        <5>1. ASSUME NEW k \in 1 .. m + n, k \notin 1 .. m PROVE \E i \in 1 .. n : k = m + i
          <6>1. k - m \in 1 .. n /\ k = m + (k - m)
            BY <2>2, <5>1
          <6> QED
            BY <6>1
        <5>2. ASSUME NEW i \in 1 .. n PROVE m + i \in 1 .. m + n
          BY <2>2
        <5>3. ASSUME NEW k \in 1 .. m PROVE k \in 1 .. m + n
          BY <2>2
        <5> QED
          BY <5>1, <5>2, <5>3
      <4>2. {k \in DOMAIN w : w[k] = v} = G \cup J
        <5>1. ASSUME NEW k \in DOMAIN w, w[k] = v PROVE k \in G \cup J
          <6>1. CASE k \in 1 .. m
            BY <2>2, <5>1, <6>1
          <6>2. ASSUME NEW i \in 1 .. n, k = m + i PROVE k \in J
            <7>1. r[i] = v
              BY <2>2, <5>1, <6>2
            <7> QED
              BY <6>2, <7>1
          <6> QED
            BY <2>2, <4>1, <5>1, <6>1, <6>2
        <5>2. ASSUME NEW k \in G PROVE k \in DOMAIN w /\ w[k] = v
          BY <2>2, <4>1
        <5>3. ASSUME NEW k \in H PROVE m + k \in DOMAIN w /\ w[m + k] = v
          BY <2>2, <4>1
        <5> QED
          BY <5>1, <5>2, <5>3
      <4>3. G \cap J = {}
        BY <2>2
      <4> QED
        BY <4>2, <4>3
    <3> HIDE DEF E, F, G, H, J
    <3>7. Cardinality(E \cup F) = Cardinality(E) + Cardinality(F)
      BY <3>1, SizeOfUnion
    <3>8. Cardinality(G \cup J) = Cardinality(G) + Cardinality(J)
      BY <3>2, <3>4, <3>6, SizeOfUnion
    <3> QED
      BY <3>3, <3>4, <3>5, <3>6, <3>7, <3>8
  <2>4. SameElements(p, I \cup K, w)
    BY <2>3 DEF SameElements
  <2> QED
    BY <1>11, <2>1, <2>2, <2>4 DEF IsState, w
<1> QED
  BY <1>2, <1>3, <1>4, <1>8, <1>9, <1>10, <1>11 DEF ArgFacts, PrimFns

\* The sum that SQL asks for
LEMMA TotalIsSum ==
    ASSUME NEW p, NEW J
    PROVE  TotalOf(J, LAMBDA t : Arg(p, t)) = SumOf(p, J)
<1> DEFINE f == [t \in J |-> Arg(p, t)]
           Body(g) == [s \in SUBSET J |-> IF s = {} THEN 0 ELSE g[s \ {Some(s)}] + Arg(p, Some(s))]
<1>1. TotalOf(J, LAMBDA t : Arg(p, t)) = (CHOOSE g : g = Body(g))[J]
  BY DEF TotalOf, FoldSet, MapThenFoldSet, Some
<1>2. ASSUME NEW g PROVE g = Body(g) <=> IsSums(g, f, J)
  <2>1. ASSUME NEW s \in SUBSET J
        PROVE  (IF s = {} THEN 0 ELSE g[s \ {Some(s)}] + Arg(p, Some(s))) = (IF s = {} THEN 0 ELSE g[s \ {Some(s)}] + f[Some(s)])
    BY SomeIn
  <2>2. Body(g) = [s \in SUBSET J |-> IF s = {} THEN 0 ELSE g[s \ {Some(s)}] + f[Some(s)]]
    BY <2>1
  <2> QED
    BY <2>2 DEF IsSums
<1> HIDE DEF f, Body
<1>3. (CHOOSE g : g = Body(g)) = (CHOOSE g : IsSums(g, f, J))
  BY <1>2
<1> QED
  BY <1>1, <1>3 DEF SumOf, Sum, f

\* What IsAggregate says of one function without DISTINCT.
Value(p, I, val) ==
    LET J == Known(p, I)
    IN  /\ p.fn = "count*" => val = Cardinality(I)
        /\ p.fn = "count" => val = Cardinality(J)
        /\ p.fn = "any" => val \in ArgsOf(p, I)
        /\ p.fn = "array_agg" => SameElements(p, I, val)
        /\ p.fn = "sum" => val = IF J = {} THEN Null ELSE SumOf(p, J)
        /\ p.fn = "min" => IF J = {} THEN val = Null ELSE val \in ArgsOf(p, J) /\ \A c \in ArgsOf(p, J) : val <= c
        /\ p.fn = "max" => IF J = {} THEN val = Null ELSE val \in ArgsOf(p, J) /\ \A c \in ArgsOf(p, J) : val >= c

\* The property's operators over the tuples of a group, one function at a time.
Answers(p, I, val) == IsAggregate([fn |-> p.fn, distinct |-> FALSE], I, LAMBDA t : Arg(p, t), val)
NullsOnly(p, I) == SumOfNulls([fn |-> p.fn, distinct |-> FALSE], I, LAMBDA t : Arg(p, t))
Below(p, n, I) == MaxBelowDefault([fn |-> p.fn, distinct |-> FALSE], n, I, LAMBDA t : Arg(p, t))

LEMMA ValueIsAggregate ==
    ASSUME NEW p, p.fn \in PrimFns, NEW I, NEW val, Value(p, I, val)
    PROVE  Answers(p, I, val)
<1> SUFFICES IsAggregate([fn |-> p.fn, distinct |-> FALSE], I, LAMBDA t : Arg(p, t), val)
  BY DEF Answers
<1> DEFINE J == Known(p, I)
<1>1. {i \in I : Arg(p, i) # Null} = J
  BY DEF Known
<1>2. CASE p.fn = "count*"
  BY <1>2 DEF IsAggregate, Value
<1>3. CASE p.fn = "count"
  BY <1>3, <1>1 DEF IsAggregate, Value
<1>4. CASE p.fn = "any"
  BY <1>4 DEF IsAggregate, Value, ArgsOf
<1>5. CASE p.fn = "array_agg"
  <2>1. \A v : Cardinality({t \in I : Arg(p, t) = v}) = Cardinality({k \in DOMAIN val : val[k] = v})
    BY <1>5 DEF Value, SameElements
  <2> QED
    BY <1>5, <2>1 DEF IsAggregate
<1>6. CASE p.fn = "sum"
  <2>1. val = IF J = {} THEN Null ELSE TotalOf(J, LAMBDA t : Arg(p, t))
    BY <1>6, TotalIsSum DEF Value
  <2> QED
    BY <1>6, <1>1, <2>1 DEF IsAggregate
<1>7. CASE p.fn = "min"
  BY <1>7, <1>1 DEF IsAggregate, Value, ArgsOf
<1>8. CASE p.fn = "max"
  BY <1>8, <1>1 DEF IsAggregate, Value, ArgsOf
<1> QED
  BY <1>2, <1>3, <1>4, <1>5, <1>6, <1>7, <1>8 DEF PrimFns

\* What a query guarantees of its functions: without groups their states are
\* nullable, and otherwise a group has a row.
FnFacts(p, n, I) ==
    /\ n \in Nat
    /\ p.fn \in {"sum", "max", "min"} /\ ~p.nullable => n > 0 /\ ~query.nullable
    /\ p.fn = "any" => n > 0
    /\ n > 0 => I # {}

LEMMA StateIsValue ==
    ASSUME NEW p, NEW I, ArgFacts(p, I), NEW n, FnFacts(p, n, I), NEW s, IsState(p, I, s)
    PROVE  \/ p.fn = "sum" /\ I # {} /\ Known(p, I) = {} /\ s = 0
           \/ p.fn = "max" /\ ~query.nullable /\ n > 0 /\ (\A t \in I : Arg(p, t) < 0) /\ s = 0
           \/ ~(p.fn = "sum" /\ I # {} /\ Known(p, I) = {}) /\ Value(p, I, s)
<1> DEFINE J == Known(p, I)
           C == Candidates(p, I)
<1>1. /\ p.nullable \in BOOLEAN
      /\ J \in SUBSET I /\ IsFiniteSet(J)
      /\ \A t \in J : Arg(p, t) \in Int
      /\ p.fn \in {"sum", "max", "min"} /\ ~p.nullable => J = I /\ I # {} /\ n > 0 /\ ~query.nullable
  <2>1. I \in SUBSET I
    OBVIOUS
  <2>2. J \in SUBSET I /\ IsFiniteSet(J)
    BY <2>1, ArgFactsSubset
  <2> QED
    BY <2>2, NullAssumption DEF ArgFacts, Known, FnFacts
<1>2. CASE p.fn \in {"count*", "count"}
  BY <1>2 DEF IsState, Value
<1>3. CASE p.fn = "any"
  <2>1. I # {}
    BY <1>3 DEF FnFacts
  <2> QED
    BY <1>3, <2>1 DEF IsState, Value
<1>4. CASE p.fn = "array_agg"
  BY <1>4 DEF IsState, Value
<1>5. CASE p.fn = "sum"
  <2>1. s = IF p.nullable /\ I = {} THEN Null ELSE SumOf(p, J)
    BY <1>5 DEF IsState
  <2>2. J = {} => SumOf(p, J) = 0
    BY <1>1, SumOfInt
  <2> HIDE DEF J
  <2>3. CASE J # {}
    <3>1. s = SumOf(p, J)
      BY <1>1, <2>1, <2>3
    <3> QED
      BY <1>5, <2>3, <3>1 DEF Value, J
  <2>4. CASE J = {} /\ I # {}
    BY <1>5, <2>1, <2>2, <2>4 DEF J
  <2>5. CASE J = {} /\ I = {}
    <3>1. s = Null
      BY <1>1, <1>5, <2>1, <2>5
    <3> QED
      BY <1>5, <2>5, <3>1 DEF Value, J
  <2> QED
    BY <2>3, <2>4, <2>5
<1>6. CASE p.fn = "max"
  <2> DEFINE A == ArgsOf(p, J)
  <2>1. IF C = {} THEN s = Null ELSE s \in C /\ \A c \in C : s >= c
    BY <1>6 DEF IsState
  <2>2. C = A \cup (IF p.nullable THEN {} ELSE {0})
    BY <1>6 DEF Candidates, createDefaultValue, MaxDefault
  <2>3. A \subseteq Int /\ (J = {} <=> A = {})
    BY <1>1 DEF ArgsOf
  <2> HIDE DEF C, A
  <2>4. CASE p.nullable
    <3>1. C = A
      BY <2>2, <2>4
    <3>2. IF J = {} THEN s = Null ELSE s \in A /\ \A c \in A : s >= c
      BY <2>1, <2>3, <3>1
    <3> QED
      BY <1>6, <3>2 DEF Value, A
  <2>5. CASE ~p.nullable /\ \A c \in A : c < 0
    <3>1. C = A \cup {0}
      BY <2>2, <2>5
    <3>2. s = 0
      <4>1. s \in A \cup {0} /\ s >= 0
        BY <2>1, <3>1
      <4>2. s \in A => s \in Int /\ s < 0
        BY <2>3, <2>5
      <4> QED
        BY <4>1, <4>2
    <3>3. \A t \in I : Arg(p, t) < 0
      BY <1>1, <1>6, <2>5 DEF ArgsOf, A
    <3> QED
      BY <1>1, <1>6, <2>5, <3>2, <3>3
  <2>6. ASSUME ~p.nullable, NEW c \in A, ~(c < 0) PROVE s \in A /\ \A d \in A : s >= d
    <3>1. C = A \cup {0}
      BY <2>2, <2>6
    <3>2. s \in C /\ \A d \in A : s >= d
      BY <2>1, <3>1
    <3>3. c \in Int /\ c >= 0 /\ s >= c
      BY <2>3, <2>6, <3>2
    <3>4. s = 0 => s = c
      BY <3>3
    <3> QED
      BY <2>6, <3>1, <3>2, <3>4
  <2>7. ASSUME ~p.nullable, NEW c \in A, ~(c < 0) PROVE Value(p, I, s)
    <3>1. s \in A /\ (\A d \in A : s >= d) /\ J # {}
      BY <2>3, <2>6, <2>7
    <3> QED
      BY <1>6, <3>1 DEF Value, A
  <2> QED
    BY <1>1, <1>6, <2>4, <2>5, <2>7
<1>7. CASE p.fn = "min"
  <2> DEFINE A == ArgsOf(p, J)
  <2>1. IF C = {} THEN s = Null ELSE s \in C /\ \A c \in C : s <= c
    BY <1>7 DEF IsState
  <2>2. C = A \cup (IF p.nullable THEN {} ELSE {MaxInt})
    BY <1>7 DEF Candidates, createDefaultValue, MinDefault
  <2>3. A \subseteq Int /\ (J = {} <=> A = {}) /\ \A c \in A : c <= MaxInt
    <3>1. \A t \in J : Arg(p, t) <= MaxInt
      BY <1>1, <1>7 DEF ArgFacts
    <3> QED
      BY <1>1, <3>1 DEF ArgsOf
  <2> HIDE DEF C, A
  <2>4. IF J = {} THEN s = Null ELSE s \in A /\ \A c \in A : s <= c
    <3>1. CASE p.nullable
      <4>1. C = A
        BY <2>2, <3>1
      <4> QED
        BY <2>1, <2>3, <4>1
    <3>2. CASE ~p.nullable
      <4>1. C = A \cup {MaxInt} /\ J # {}
        BY <1>1, <1>7, <2>2, <3>2
      <4>2. PICK c \in A : TRUE
        BY <2>3, <4>1
      <4>3. s \in C /\ \A d \in A : s <= d
        BY <2>1, <4>1
      <4>4. c \in Int /\ c <= MaxInt /\ s <= c
        BY <2>3, <4>2, <4>3
      <4>5. s = MaxInt => s = c
        BY <4>4, MaxIntAssumption
      <4> QED
        BY <4>1, <4>2, <4>3, <4>5
    <3> QED
      BY <1>1, <3>1, <3>2
  <2> QED
    BY <1>7, <2>4 DEF Value, A
<1> QED
  BY <1>2, <1>3, <1>4, <1>5, <1>6, <1>7 DEF ArgFacts, PrimFns

----------------------------------------------------------------------------
(* The states of a worker or of several over a set I of tuples *)

StateValues == Int \cup {Null, Undef} \cup Seq(Int \cup {Null})

KeysOf(n, I) == {t.key : t \in I} \cup (IF n = 0 THEN {<<>>} ELSE {})
Group(I, k) == {t \in I : t.key = k}

SubFacts(n, s, I) ==
    /\ n \in Nat
    /\ \A p \in s.prims : ArgFacts(p, I) /\ (p.fn = "any" => n > 0)

Right(n, s, map, I) ==
    /\ map \in [KeysOf(n, I) -> [s.prims -> StateValues]]
    /\ \A k \in KeysOf(n, I) : \A p \in s.prims : IsState(p, Group(I, k), map[k][p])

LEMMA StatesTyped ==
    ASSUME NEW p, NEW I, ArgFacts(p, I), NEW s, IsState(p, I, s)
    PROVE  s \in StateValues
<1>1. I \in SUBSET I
  OBVIOUS
<1>2. IsFiniteSet(I) /\ IsFiniteSet(Known(p, I)) /\ Known(p, I) \in SUBSET I
  BY <1>1, ArgFactsSubset
<1>3. \A t \in Known(p, I) : Arg(p, t) \in Int
  BY <1>2 DEF ArgFacts, Known
<1>4. CASE p.fn \in {"count*", "count"}
  <2>1. Cardinality(I) \in Nat /\ Cardinality(Known(p, I)) \in Nat
    BY <1>2, FS_CardinalityType
  <2> QED
    BY <1>4, <2>1 DEF IsState, StateValues
<1>5. CASE p.fn = "sum"
  <2>1. SumOf(p, Known(p, I)) \in Int
    BY <1>2, <1>3, SumOfInt
  <2> QED
    BY <1>5, <2>1 DEF IsState, StateValues
<1>6. CASE p.fn \in {"max", "min"}
  <2>1. createDefaultValue(p) \in Int \cup {Null}
    BY <1>6, MaxIntAssumption DEF createDefaultValue, MaxDefault, MinDefault
  <2>2. ArgsOf(p, Known(p, I)) \subseteq Int
    BY <1>3 DEF ArgsOf
  <2>3. Candidates(p, I) \subseteq Int \cup {Null}
    BY <2>1, <2>2 DEF Candidates
  <2>4. s = Null \/ s \in Candidates(p, I)
    BY <1>6 DEF IsState
  <2> QED
    BY <2>3, <2>4 DEF StateValues
<1>7. CASE p.fn = "any"
  BY <1>7 DEF IsState, StateValues, ArgFacts, ArgsOf
<1>8. CASE p.fn = "array_agg"
  BY <1>8 DEF IsState, StateValues
<1> QED
  BY <1>4, <1>5, <1>6, <1>7, <1>8 DEF ArgFacts, PrimFns

LEMMA SubFactsSubset ==
    ASSUME NEW n, NEW s, NEW I, SubFacts(n, s, I), NEW K \in SUBSET I
    PROVE  SubFacts(n, s, K) /\ \A p \in s.prims : ArgFacts(p, K)
<1>1. ASSUME NEW p \in s.prims PROVE ArgFacts(p, K)
  <2>1. ArgFacts(p, I)
    BY DEF SubFacts
  <2> QED
    BY <2>1, ArgFactsSubset
<1> QED
  BY <1>1 DEF SubFacts

\* A worker's state starts as that of no tuples.
LEMMA InstanceRight ==
    ASSUME NEW n, NEW s, SubFacts(n, s, {})
    PROVE  Right(n, s, Instance(n, s), {})
<1>1. ASSUME NEW p \in s.prims
      PROVE  IsState(p, {}, createDefaultValue(p)) /\ createDefaultValue(p) \in StateValues
  <2>1. ArgFacts(p, {})
    BY DEF SubFacts
  <2>2. IsState(p, {}, createDefaultValue(p))
    BY <2>1, StateDefault
  <2> QED
    BY <2>1, <2>2, StatesTyped
<1>2. InitialState(s) \in [s.prims -> StateValues]
  BY <1>1 DEF InitialState
<1>3. CASE n = 0
  <2>1. KeysOf(n, {}) = {<<>>} /\ \A k : Group({}, k) = {}
    BY <1>3 DEF KeysOf, Group
  <2>2. Instance(n, s) = [k \in {<<>>} |-> InitialState(s)]
    BY <1>3 DEF Instance
  <2>3. Instance(n, s) \in [{<<>>} -> [s.prims -> StateValues]]
    BY <1>2, <2>2
  <2>4. Instance(n, s)[<<>>] = InitialState(s)
    BY <2>2
  <2>5. \A p \in s.prims : InitialState(s)[p] = createDefaultValue(p)
    BY DEF InitialState
  <2>6. \A p \in s.prims : IsState(p, {}, InitialState(s)[p])
    BY <1>1, <2>5
  <2> QED
    BY <2>1, <2>3, <2>4, <2>6 DEF Right
<1>4. CASE n # 0
  <2>1. KeysOf(n, {}) = {}
    BY <1>4 DEF KeysOf
  <2>2. Instance(n, s) = <<>>
    BY <1>4 DEF Instance
  <2>3. <<>> \in [{} -> [s.prims -> StateValues]]
    OBVIOUS
  <2> QED
    BY <2>1, <2>2, <2>3 DEF Right
<1> QED
  BY <1>3, <1>4

\* The reduction of one more tuple.
LEMMA ReducedRight ==
    ASSUME NEW n, NEW s, NEW I, NEW t, t \notin I, SubFacts(n, s, I \cup {t}),
           NEW map, Right(n, s, map, I)
    PROVE  Right(n, s, Reduced(s, map, t), I \cup {t})
<1> DEFINE K == I \cup {t}
           old == IF t.key \in DOMAIN map THEN map[t.key] ELSE InitialState(s)
           new == Reduced(s, map, t)
<1>1. map \in [KeysOf(n, I) -> [s.prims -> StateValues]] /\ DOMAIN map = KeysOf(n, I)
  BY DEF Right
<1>2. KeysOf(n, K) = DOMAIN map \cup {t.key}
  BY <1>1 DEF KeysOf
<1>3. \A k : k # t.key => Group(K, k) = Group(I, k)
  BY DEF Group
<1>4. Group(K, t.key) = Group(I, t.key) \cup {t} /\ t \notin Group(I, t.key)
  BY DEF Group
<1>5. ASSUME NEW p \in s.prims
      PROVE  IsState(p, Group(I, t.key), old[p])
  <2>1. CASE t.key \in DOMAIN map
    BY <1>1, <2>1 DEF Right
  <2>2. CASE t.key \notin DOMAIN map
    <3>1. Group(I, t.key) = {}
      BY <1>1, <2>2 DEF Group, KeysOf
    <3>2. {} \in SUBSET K
      OBVIOUS
    <3>3. ArgFacts(p, {})
      BY <3>2, SubFactsSubset
    <3>4. IsState(p, {}, createDefaultValue(p))
      BY <3>3, StateDefault
    <3>5. old[p] = createDefaultValue(p)
      BY <2>2 DEF InitialState
    <3> QED
      BY <3>1, <3>4, <3>5
  <2> QED
    BY <2>1, <2>2
<1>6. new = [k \in DOMAIN map \cup {t.key} |-> IF k = t.key THEN ReduceState(s, old, t) ELSE map[k]]
  BY DEF Reduced
<1> HIDE DEF old, new
<1>7. ASSUME NEW p \in s.prims
      PROVE  /\ IsState(p, Group(K, t.key), ReduceState(s, old, t)[p])
             /\ ReduceState(s, old, t)[p] \in StateValues
  <2>1. Group(K, t.key) \in SUBSET K
    BY DEF Group
  <2>2. ArgFacts(p, Group(K, t.key))
    BY <2>1, SubFactsSubset
  <2>3. ReduceState(s, old, t)[p] = aggregate(p, old[p], Arg(p, t))
    BY DEF ReduceState
  <2>4. IsState(p, Group(I, t.key) \cup {t}, aggregate(p, old[p], Arg(p, t)))
    <3>1. ArgFacts(p, Group(I, t.key) \cup {t})
      BY <1>4, <2>2
    <3> QED
      BY <1>4, <1>5, <3>1, StateReduce
  <2>5. IsState(p, Group(K, t.key), ReduceState(s, old, t)[p])
    BY <1>4, <2>3, <2>4
  <2> QED
    BY <2>2, <2>5, StatesTyped
<1>8. ReduceState(s, old, t) \in [s.prims -> StateValues]
  <2>1. ReduceState(s, old, t) = [p \in s.prims |-> ReduceState(s, old, t)[p]]
    BY DEF ReduceState
  <2> QED
    BY <1>7, <2>1
<1>9. new \in [KeysOf(n, K) -> [s.prims -> StateValues]]
  BY <1>1, <1>2, <1>6, <1>8
<1>10. ASSUME NEW k \in KeysOf(n, K), NEW p \in s.prims
       PROVE  IsState(p, Group(K, k), new[k][p])
  <2>1. CASE k = t.key
    <3>1. new[k] = ReduceState(s, old, t)
      BY <1>6, <2>1
    <3> QED
      BY <1>7, <2>1, <3>1
  <2>2. CASE k # t.key
    <3>1. k \in KeysOf(n, I) /\ new[k] = map[k] /\ Group(K, k) = Group(I, k)
      BY <1>1, <1>2, <1>3, <1>6, <2>2
    <3>2. IsState(p, Group(I, k), map[k][p])
      BY <3>1 DEF Right
    <3> QED
      BY <3>1, <3>2
  <2> QED
    BY <2>1, <2>2
<1> QED
  BY <1>9, <1>10 DEF Right, new

\* The merge of two states.
LEMMA MergedRight ==
    ASSUME NEW n, NEW s, NEW I, NEW K, I \cap K = {}, SubFacts(n, s, I \cup K),
           NEW left, Right(n, s, left, I), NEW right, Right(n, s, right, K)
    PROVE  Right(n, s, MergedMaps(s, left, right), I \cup K)
<1> DEFINE new == MergedMaps(s, left, right)
<1>1. /\ left \in [KeysOf(n, I) -> [s.prims -> StateValues]] /\ DOMAIN left = KeysOf(n, I)
      /\ right \in [KeysOf(n, K) -> [s.prims -> StateValues]] /\ DOMAIN right = KeysOf(n, K)
  BY DEF Right
<1>2. KeysOf(n, I \cup K) = DOMAIN left \cup DOMAIN right
  BY <1>1 DEF KeysOf
<1>3. new = [k \in DOMAIN left \cup DOMAIN right |->
                IF k \notin DOMAIN right THEN left[k]
                ELSE IF k \notin DOMAIN left THEN right[k]
                ELSE CombineState(s, left[k], right[k])]
  BY DEF MergedMaps
<1> HIDE DEF new
<1>4. ASSUME NEW k \in DOMAIN left \cup DOMAIN right
      PROVE  /\ new[k] \in [s.prims -> StateValues]
             /\ \A p \in s.prims : IsState(p, Group(I \cup K, k), new[k][p])
  <2>1. Group(I \cup K, k) = Group(I, k) \cup Group(K, k) /\ Group(I, k) \cap Group(K, k) = {}
    BY DEF Group
  <2>2. CASE k \notin DOMAIN right
    <3>1. Group(I \cup K, k) = Group(I, k)
      BY <1>1, <2>2 DEF Group, KeysOf
    <3>2. new[k] = left[k] /\ k \in KeysOf(n, I)
      BY <1>1, <1>3, <2>2
    <3>3. left[k] \in [s.prims -> StateValues]
      BY <1>1, <3>2
    <3>4. \A p \in s.prims : IsState(p, Group(I, k), left[k][p])
      BY <3>2 DEF Right
    <3> QED
      BY <3>1, <3>2, <3>3, <3>4
  <2>3. CASE k \in DOMAIN right /\ k \notin DOMAIN left
    <3>1. Group(I \cup K, k) = Group(K, k)
      BY <1>1, <2>3 DEF Group, KeysOf
    <3>2. new[k] = right[k] /\ k \in KeysOf(n, K)
      BY <1>1, <1>3, <2>3
    <3>3. right[k] \in [s.prims -> StateValues]
      BY <1>1, <3>2
    <3>4. \A p \in s.prims : IsState(p, Group(K, k), right[k][p])
      BY <3>2 DEF Right
    <3> QED
      BY <3>1, <3>2, <3>3, <3>4
  <2>4. CASE k \in DOMAIN right /\ k \in DOMAIN left
    <3>1. new[k] = CombineState(s, left[k], right[k])
      BY <1>3, <2>4
    <3>2. ASSUME NEW p \in s.prims
          PROVE  /\ IsState(p, Group(I \cup K, k), new[k][p])
                 /\ new[k][p] \in StateValues
      <4>1. new[k][p] = combine(p, left[k][p], right[k][p])
        BY <3>1 DEF CombineState
      <4>2. IsState(p, Group(I, k), left[k][p]) /\ IsState(p, Group(K, k), right[k][p])
        BY <1>1, <2>4 DEF Right
      <4>3. Group(I \cup K, k) \in SUBSET (I \cup K)
        BY DEF Group
      <4>4. ArgFacts(p, Group(I \cup K, k))
        BY <4>3, SubFactsSubset
      <4>5. p.fn = "any" => Group(I, k) # {}
        <5>1. p.fn = "any" => n # 0
          BY DEF SubFacts
        <5>2. n # 0 => \E t \in I : t.key = k
          BY <1>1, <2>4 DEF KeysOf
        <5> QED
          BY <5>1, <5>2 DEF Group
      <4>6. IsState(p, Group(I, k) \cup Group(K, k), combine(p, left[k][p], right[k][p]))
        <5>1. ArgFacts(p, Group(I, k) \cup Group(K, k))
          BY <2>1, <4>4
        <5> QED
          BY <2>1, <4>2, <4>5, <5>1, StateCombine
      <4>7. IsState(p, Group(I \cup K, k), new[k][p])
        BY <2>1, <4>1, <4>6
      <4> QED
        BY <4>4, <4>7, StatesTyped
    <3>3. new[k] = [p \in s.prims |-> new[k][p]]
      BY <3>1 DEF CombineState
    <3> QED
      BY <3>2, <3>3
  <2> QED
    BY <2>2, <2>3, <2>4
<1>5. new \in [KeysOf(n, I \cup K) -> [s.prims -> StateValues]]
  <2>1. new = [k \in KeysOf(n, I \cup K) |-> new[k]]
    BY <1>2, <1>3
  <2> QED
    BY <1>2, <1>4, <2>1
<1> QED
  BY <1>2, <1>4, <1>5 DEF Right, new

----------------------------------------------------------------------------
(* The merge of the states of all workers *)

LEMMA LargestIn ==
    ASSUME NEW k \in Nat, NEW t \in SUBSET (1 .. k), t # {}
    PROVE  Max(t) \in t
<1> DEFINE R == {k - x : x \in t}
<1>1. R \subseteq Nat /\ R # {}
  <2>1. \A x \in t : k - x \in Nat
    OBVIOUS
  <2> QED
    BY <2>1
<1>2. PICK r \in R : \A q \in R : r <= q
  BY <1>1, LeastNat
<1>3. PICK x \in t : r = k - x
  BY <1>2
<1>4. ASSUME NEW y \in t PROVE x >= y
  <2>1. k - y \in R
    OBVIOUS
  <2>2. k - x <= k - y
    BY <1>2, <1>3, <2>1
  <2> QED
    BY <2>2
<1> QED
  BY <1>3, <1>4 DEF Max

\* The states over parts of I that are merged one after the other.
MapsOver(n, s, I) == UNION {[K -> [s.prims -> StateValues]] : K \in SUBSET KeysOf(n, I)}

Parted(n, s, maps, part, I) ==
    /\ Len(maps) \in Nat \ {0} /\ DOMAIN maps = 1 .. Len(maps)
    /\ maps = [i \in 1 .. Len(maps) |-> maps[i]]
    /\ part \in [1 .. Len(maps) -> SUBSET I]
    /\ \A i, j \in 1 .. Len(maps) : i # j => part[i] \cap part[j] = {}
    /\ \A t \in I : \E i \in 1 .. Len(maps) : t \in part[i]
    /\ \A i \in 1 .. Len(maps) : Right(n, s, maps[i], part[i])

Merges(g, s, maps, S) ==
    g = [t \in SUBSET S |->
            IF t = {} THEN Head(maps) ELSE MergedMaps(s, g[t \ {Max(t)}], Tail(maps)[Max(t)])]

Unfolds(g, n, s, maps, I) ==
    \A t \in SUBSET (1 .. Len(maps) - 1) :
        /\ t = {} => g[t] = maps[1]
        /\ t # {} /\ g[t \ {Max(t)}] \in MapsOver(n, s, I) =>
              g[t] = MergedMaps(s, g[t \ {Max(t)}], maps[Max(t) + 1])

PartsOf(part, t) == part[1] \cup UNION {part[i + 1] : i \in t}

LEMMA RightIsOver ==
    ASSUME NEW n, NEW s, NEW I, NEW J \in SUBSET I, NEW map, Right(n, s, map, J)
    PROVE  map \in MapsOver(n, s, I)
<1>1. KeysOf(n, J) \in SUBSET KeysOf(n, I)
  BY DEF KeysOf
<1>2. map \in [KeysOf(n, J) -> [s.prims -> StateValues]]
  BY DEF Right
<1> HIDE DEF Right
<1> QED
  BY <1>1, <1>2 DEF MapsOver

LEMMA MergeAllIsMerges ==
    ASSUME NEW s, NEW maps
    PROVE  MergeAll(s, maps) = (CHOOSE g : Merges(g, s, maps, DOMAIN Tail(maps)))[DOMAIN Tail(maps)]
BY DEF MergeAll, FoldLeft, MapThenFoldSet, Merges

\* Merging part by part gives the state of the parts merged so far.
LEMMA MergesRight ==
    ASSUME NEW n, NEW s, NEW I, SubFacts(n, s, I), NEW maps, NEW part, Parted(n, s, maps, part, I),
           NEW g, Unfolds(g, n, s, maps, I)
    PROVE  \A t \in SUBSET (1 .. Len(maps) - 1) :
                PartsOf(part, t) \in SUBSET I /\ Right(n, s, g[t], PartsOf(part, t))
<1> DEFINE S == 1 .. Len(maps) - 1
           P(t) == PartsOf(part, t)
           Bad == {t \in SUBSET S : ~Right(n, s, g[t], P(t))}
<1>1. /\ Len(maps) \in Nat \ {0}
      /\ part \in [1 .. Len(maps) -> SUBSET I]
      /\ \A i, j \in 1 .. Len(maps) : i # j => part[i] \cap part[j] = {}
      /\ \A i \in 1 .. Len(maps) : Right(n, s, maps[i], part[i])
  BY DEF Parted
<1>2. 1 \in 1 .. Len(maps) /\ (\A i \in S : i + 1 \in 1 .. Len(maps) /\ i \in Nat \ {0}) /\ Len(maps) - 1 \in Nat
  BY <1>1
<1>3. ASSUME NEW t \in SUBSET S PROVE P(t) \in SUBSET I
  BY <1>1, <1>2 DEF PartsOf
<1>4. SUFFICES ASSUME Bad # {} PROVE FALSE
  BY <1>3
<1>5. IsFiniteSet(S)
  BY <1>2, FS_Interval
<1>6. PICK t \in Bad : \A u \in SUBSET t : u # t => u \notin Bad
  <2>1. Bad \subseteq SUBSET S
    OBVIOUS
  <2> HIDE DEF Bad
  <2> QED
    BY <1>4, <1>5, <2>1, SmallestSet
<1>7. t \in SUBSET S /\ ~Right(n, s, g[t], P(t))
  BY <1>6
<1>8. CASE t = {}
  <2>1. P(t) = part[1]
    BY <1>8 DEF PartsOf
  <2>2. g[t] = maps[1]
    BY <1>7, <1>8 DEF Unfolds
  <2> QED
    BY <1>1, <1>2, <1>7, <2>1, <2>2
<1>9. CASE t # {}
  <2> DEFINE m == Max(t)
             u == t \ {m}
  <2>1. m \in t
    BY <1>2, <1>7, <1>9, LargestIn
  <2>2. u \in SUBSET t /\ u # t /\ u \in SUBSET S /\ m \in S /\ m + 1 \in 1 .. Len(maps)
    BY <1>2, <1>7, <2>1
  <2>3. Right(n, s, g[u], P(u))
    BY <1>6, <2>2
  <2>4. P(u) \in SUBSET I
    BY <1>3, <2>2
  <2> HIDE DEF P
  <2>5. g[u] \in MapsOver(n, s, I)
    BY <2>3, <2>4, RightIsOver
  <2>6. g[t] = MergedMaps(s, g[u], maps[m + 1])
    BY <1>7, <1>9, <2>5 DEF Unfolds
  <2>7. P(t) = P(u) \cup part[m + 1]
    BY <2>1 DEF P, PartsOf
  <2>8. P(u) \cap part[m + 1] = {}
    <3>1. part[1] \cap part[m + 1] = {}
      <4>1. 1 # m + 1
        BY <1>2, <2>2
      <4> QED
        BY <1>1, <1>2, <2>2, <4>1
    <3>2. ASSUME NEW i \in u PROVE part[i + 1] \cap part[m + 1] = {}
      <4>1. i \in S /\ i # m /\ i + 1 # m + 1 /\ i + 1 \in 1 .. Len(maps)
        BY <1>2, <2>2
      <4> QED
        BY <1>1, <2>2, <4>1
    <3>3. SUFFICES ASSUME NEW x \in P(u), x \in part[m + 1] PROVE FALSE
      OBVIOUS
    <3>4. x \in part[1] \/ \E i \in u : x \in part[i + 1]
      BY DEF P, PartsOf
    <3> QED
      BY <3>1, <3>2, <3>3, <3>4
  <2>9. Right(n, s, maps[m + 1], part[m + 1])
    BY <1>1, <2>2
  <2>10. SubFacts(n, s, P(u) \cup part[m + 1])
    <3>1. P(u) \cup part[m + 1] \in SUBSET I
      BY <1>1, <2>2, <2>4
    <3> QED
      BY <3>1, SubFactsSubset
  <2> HIDE DEF u, m
  <2>11. Right(n, s, g[t], P(t))
    BY <2>3, <2>6, <2>7, <2>8, <2>9, <2>10, MergedRight
  <2> QED
    BY <1>7, <2>11
<1> QED
  BY <1>8, <1>9

LEMMA MergeAllRight ==
    ASSUME NEW n, NEW s, NEW I, SubFacts(n, s, I), NEW maps, NEW part, Parted(n, s, maps, part, I)
    PROVE  Right(n, s, MergeAll(s, maps), I)
<1> DEFINE S == 1 .. Len(maps) - 1
           M == MapsOver(n, s, I)
           ch == [t \in SUBSET S |-> Max(t)]
           step == [i \in S |-> [m \in M |-> MergedMaps(s, m, maps[i + 1])]]
<1>1. /\ Len(maps) \in Nat \ {0} /\ part \in [1 .. Len(maps) -> SUBSET I]
      /\ \A i \in 1 .. Len(maps) : Right(n, s, maps[i], part[i])
      /\ maps = [i \in 1 .. Len(maps) |-> maps[i]]
      /\ \A t \in I : \E i \in 1 .. Len(maps) : t \in part[i]
  BY DEF Parted
<1>2. maps \in Seq(M)
  <2>1. \A i \in 1 .. Len(maps) : maps[i] \in M
    BY <1>1, RightIsOver
  <2>2. maps \in [1 .. Len(maps) -> M]
    BY <1>1, <2>1
  <2> HIDE DEF M
  <2> QED
    BY <1>1, <2>2
<1>3. Head(maps) = maps[1] /\ DOMAIN Tail(maps) = S /\ \A i \in S : Tail(maps)[i] = maps[i + 1]
  <2> HIDE DEF M
  <2>1. maps # <<>>
    BY <1>1
  <2> QED
    BY <1>1, <1>2, <2>1
<1>4. IsFiniteSet(S) /\ Len(maps) - 1 \in Nat
  <2>1. Len(maps) - 1 \in Nat
    BY <1>1
  <2> QED
    BY <2>1, FS_Interval
<1>5. \A t \in SUBSET S : t # {} => Max(t) \in t
  BY <1>4, LargestIn
<1>6. \A t \in SUBSET S : t # {} => ch[t] \in t /\ ch[t] = Max(t)
  BY <1>5
<1>7. \A i \in S, m \in M : step[i][m] = MergedMaps(s, m, maps[i + 1])
  OBVIOUS
<1> HIDE DEF ch, step
<1>8. ASSUME NEW g, Unfolds(g, n, s, maps, I)
      PROVE  \A t \in SUBSET S : PartsOf(part, t) \in SUBSET I /\ Right(n, s, g[t], PartsOf(part, t))
  BY <1>8, MergesRight
<1>9. \E g : Merges(g, s, maps, S)
  <2>1. PICK g : Folds(g, S, ch, step, maps[1])
    BY <1>4, <1>6, FoldsExist
  <2>2. g = [t \in SUBSET S |-> IF t = {} THEN maps[1] ELSE step[ch[t]][g[t \ {ch[t]}]]]
    BY <2>1 DEF Folds
  <2>3. ASSUME NEW t \in SUBSET S
        PROVE  /\ t = {} => g[t] = maps[1]
               /\ t # {} /\ g[t \ {Max(t)}] \in M =>
                     g[t] = MergedMaps(s, g[t \ {Max(t)}], maps[Max(t) + 1])
    <3>1. g[t] = IF t = {} THEN maps[1] ELSE step[ch[t]][g[t \ {ch[t]}]]
      BY <2>2
    <3>2. ASSUME t # {}, g[t \ {Max(t)}] \in M
          PROVE  g[t] = MergedMaps(s, g[t \ {Max(t)}], maps[Max(t) + 1])
      <4>1. Max(t) \in S /\ g[t] = step[Max(t)][g[t \ {Max(t)}]]
        BY <1>5, <1>6, <3>1, <3>2
      <4> HIDE DEF M, S
      <4> QED
        BY <1>7, <3>2, <4>1
    <3> QED
      BY <3>1, <3>2
  <2>4. Unfolds(g, n, s, maps, I)
    BY <2>3 DEF Unfolds
  <2>5. \A t \in SUBSET S : PartsOf(part, t) \in SUBSET I /\ Right(n, s, g[t], PartsOf(part, t))
    BY <1>8, <2>4
  <2>6. ASSUME NEW t \in SUBSET S
        PROVE  g[t] = IF t = {} THEN Head(maps) ELSE MergedMaps(s, g[t \ {Max(t)}], Tail(maps)[Max(t)])
    <3>1. CASE t = {}
      BY <1>3, <2>3, <3>1
    <3>2. CASE t # {}
      <4>1. Max(t) \in S /\ t \ {Max(t)} \in SUBSET S
        BY <1>5, <3>2
      <4>2. g[t \ {Max(t)}] \in M
        BY <2>5, <4>1, RightIsOver
      <4>3. g[t] = MergedMaps(s, g[t \ {Max(t)}], maps[Max(t) + 1])
        BY <2>3, <3>2, <4>2
      <4>4. Tail(maps)[Max(t)] = maps[Max(t) + 1]
        BY <1>3, <4>1
      <4> QED
        BY <3>2, <4>3, <4>4
    <3> QED
      BY <3>1, <3>2
  <2>7. g = [t \in SUBSET S |-> g[t]]
    BY <2>2
  <2>8. [t \in SUBSET S |-> g[t]] = [t \in SUBSET S |->
            IF t = {} THEN Head(maps) ELSE MergedMaps(s, g[t \ {Max(t)}], Tail(maps)[Max(t)])]
    BY <2>6
  <2>9. Merges(g, s, maps, S)
    BY <2>7, <2>8 DEF Merges
  <2> QED
    BY <2>9
<1> DEFINE h == CHOOSE g : Merges(g, s, maps, S)
<1>10. Merges(h, s, maps, S)
  BY <1>9
<1>11. MergeAll(s, maps) = h[S]
  BY <1>3, MergeAllIsMerges
<1> HIDE DEF h
<1>12. ASSUME NEW t \in SUBSET S
       PROVE  /\ t = {} => h[t] = maps[1]
              /\ t # {} => h[t] = MergedMaps(s, h[t \ {Max(t)}], maps[Max(t) + 1])
  <2>1. h[t] = IF t = {} THEN Head(maps) ELSE MergedMaps(s, h[t \ {Max(t)}], Tail(maps)[Max(t)])
    BY <1>10 DEF Merges
  <2>2. t # {} => Tail(maps)[Max(t)] = maps[Max(t) + 1]
    BY <1>3, <1>5
  <2> QED
    BY <1>3, <2>1, <2>2
<1>13. Unfolds(h, n, s, maps, I)
  BY <1>12 DEF Unfolds
<1>14. Right(n, s, h[S], PartsOf(part, S))
  BY <1>8, <1>13
<1>15. PartsOf(part, S) = I
  <2>1. \A i \in 1 .. Len(maps) : i # 1 => i - 1 \in S /\ part[(i - 1) + 1] = part[i]
    BY <1>1
  <2>2. \A t \in I : t \in part[1] \/ \E i \in S : t \in part[i + 1]
    BY <1>1, <2>1
  <2>3. I \subseteq PartsOf(part, S)
    BY <2>2 DEF PartsOf
  <2>4. PartsOf(part, S) \subseteq I
    BY <1>8, <1>13
  <2> QED
    BY <2>3, <2>4
<1> QED
  BY <1>11, <1>14, <1>15

----------------------------------------------------------------------------
(* What reaches the functions of a sub-aggregation *)

InputFacts ==
    /\ query \in Queries /\ input \in Tables
    /\ query.nullable \/ \A i \in DOMAIN input : input[i].x # Null

\* A primitive function of the query for n keys.
PrimFacts(q, n, p) ==
    /\ p.fn \in PrimFns /\ p.nullable \in BOOLEAN /\ p.arg \in {"x", "x2"}
    /\ p.fn \in {"sum", "max", "min"} /\ ~p.nullable => n > 0 /\ ~q.nullable
    /\ p.fn = "any" => n > 0
    /\ p.fn = "min" => p.arg = "x"
    /\ p.fn = "array_agg" => ~p.nullable

LEMMA RewrittenFacts ==
    ASSUME NEW q \in Queries, NEW n \in Nat, NEW a \in DOMAIN q.aggs,
           n = Len(q.keys) \/ q.rollup,
           NEW p \in RewriteComplexAggrFuncs(q, n, a)
    PROVE  PrimFacts(q, n, p)
<1> DEFINE fn == q.aggs[a].fn
           nullable == resultNullable(q, n, fn)
<1>1. /\ fn \in {"count*", "count", "sum", "avg", "stddev_samp", "min", "max", "any", "array_agg"}
      /\ q.nullable \in BOOLEAN
      /\ fn = "any" => n > 0
      /\ fn = "array_agg" => ~q.nullable
  BY QueriesAssumption
<1>2. /\ nullable \in BOOLEAN
      /\ fn \notin {"count", "count*", "array_agg"} /\ ~nullable => n # 0 /\ ~q.nullable
      /\ fn = "array_agg" => ~nullable
  BY <1>1 DEF resultNullable
<1>3. CASE fn = "avg"
  <2>1. p = Prim(a, "sum", "sum", "x", nullable) \/ p = Prim(a, "count", "count", "x", FALSE)
    BY <1>3 DEF RewriteComplexAggrFuncs
  <2>2. nullable \in BOOLEAN /\ (~nullable => n > 0 /\ ~q.nullable)
    BY <1>2, <1>3
  <2> HIDE DEF fn, nullable
  <2>3. /\ p.arg = "x"
        /\ (p.fn = "sum" /\ p.nullable = nullable) \/ (p.fn = "count" /\ p.nullable = FALSE)
    BY <2>1 DEF Prim
  <2> QED
    BY <2>2, <2>3 DEF PrimFacts, PrimFns
<1>4. CASE fn = "stddev_samp"
  <2>1. \/ p = Prim(a, "squares", "sum", "x2", nullable)
        \/ p = Prim(a, "sum", "sum", "x", TRUE)
        \/ p = Prim(a, "count", "count", "x", FALSE)
    BY <1>4 DEF RewriteComplexAggrFuncs
  <2>2. nullable \in BOOLEAN /\ (~nullable => n > 0 /\ ~q.nullable)
    BY <1>2, <1>4
  <2> HIDE DEF fn, nullable
  <2>3. /\ p.arg \in {"x", "x2"}
        /\ \/ p.fn = "sum" /\ p.nullable = nullable
           \/ p.fn = "sum" /\ p.nullable = TRUE
           \/ p.fn = "count" /\ p.nullable = FALSE
    BY <2>1 DEF Prim
  <2> QED
    BY <2>2, <2>3 DEF PrimFacts, PrimFns
<1>5. CASE fn \notin {"avg", "stddev_samp"}
  <2>1. p = Prim(a, "value", fn, "x", nullable)
    BY <1>5 DEF RewriteComplexAggrFuncs
  <2> HIDE DEF fn, nullable
  <2>2. p.arg = "x" /\ p.fn = fn /\ p.nullable = nullable
    BY <2>1 DEF Prim
  <2>3. fn \in {"sum", "max", "min"} /\ ~nullable => n > 0 /\ ~q.nullable
    BY <1>2
  <2> QED
    BY <1>1, <1>2, <1>5, <2>2, <2>3 DEF PrimFacts, PrimFns
<1> QED
  BY <1>3, <1>4, <1>5

LEMMA AnalyzedFacts ==
    ASSUME NEW q \in Queries, NEW n \in Nat, n = Len(q.keys) \/ q.rollup,
           NEW s \in analyze(q, n), NEW p \in s.prims
    PROVE  PrimFacts(q, n, p)
<1>1. PICK A \in SUBSET DOMAIN q.aggs : s.prims = UNION {RewriteComplexAggrFuncs(q, n, a) : a \in A}
  <2> DEFINE plain == {a \in DOMAIN q.aggs : ~q.aggs[a].distinct}
             SubOf(A, d) == [prims |-> UNION {RewriteComplexAggrFuncs(q, n, a) : a \in A},
                             distinct |-> d]
  <2>1. s \in {SubOf(plain, FALSE)} \union {SubOf({a}, TRUE) : a \in DOMAIN q.aggs \ plain}
    BY DEF analyze
  <2>2. CASE s = SubOf(plain, FALSE)
    <3>1. s.prims = UNION {RewriteComplexAggrFuncs(q, n, a) : a \in plain}
      BY <2>2
    <3> QED
      BY <3>1
  <2>3. CASE s # SubOf(plain, FALSE)
    <3>1. PICK a \in DOMAIN q.aggs \ plain : s = SubOf({a}, TRUE)
      BY <2>1, <2>3
    <3>2. s.prims = UNION {RewriteComplexAggrFuncs(q, n, b) : b \in {a}}
      BY <3>1
    <3>3. {a} \in SUBSET DOMAIN q.aggs
      BY <3>1
    <3> QED
      BY <3>2, <3>3
  <2> QED
    BY <2>2, <2>3
<1>2. PICK a \in A : p \in RewriteComplexAggrFuncs(q, n, a)
  BY <1>1
<1> QED
  BY <1>2, RewrittenFacts

LEMMA InputFinite ==
    ASSUME NEW q, NEW n, NEW s, NEW rows \in Tables
    PROVE  IsFiniteSet(InputOf(q, n, s, rows))
<1> DEFINE D == DOMAIN rows
           I == InputOf(q, n, s, rows)
           f == [i \in D |-> [key |-> KeyOf(q, n, rows[i]), x |-> rows[i].x,
                              pos |-> IF s.distinct THEN 0 ELSE i]]
<1>1. IsFiniteSet(D)
  <2>1. Len(rows) \in Nat /\ DOMAIN rows = 1 .. Len(rows)
    BY TablesAssumption
  <2> QED
    BY <2>1, FS_Interval
<1>2. I = {f[i] : i \in D}
  BY DEF InputOf
<1> HIDE DEF D, I, f
<1>3. f = [i \in D |-> f[i]]
  BY DEF f
<1>4. f \in Surjection(D, I)
  BY <1>2, <1>3 DEF Surjection
<1> QED
  BY <1>1, <1>4, FS_Surjection DEF I

LEMMA InputTyped ==
    ASSUME InputFacts, NEW n, NEW s, NEW t \in InputOf(query, n, s, input)
    PROVE  /\ t.x \in Int \cup {Null}
           /\ ~query.nullable => t.x \in Int
           /\ t.x \in Int => t.x <= MaxInt
<1>1. PICK i \in DOMAIN input : t = [key |-> KeyOf(query, n, input[i]), x |-> input[i].x,
                                     pos |-> IF s.distinct THEN 0 ELSE i]
  BY DEF InputOf
<1>2. t.x = input[i].x
  BY <1>1
<1>3. t.x # Null => t.x \in Int /\ t.x <= MaxInt
  BY <1>2, TablesAssumption DEF InputFacts
<1> QED
  BY <1>2, <1>3, NullAssumption DEF InputFacts

\* The tuples of a sub-aggregation are what its functions take.
LEMMA SubInputFacts ==
    ASSUME InputFacts, NEW n \in Nat, n = Len(query.keys) \/ query.rollup,
           NEW s \in analyze(query, n)
    PROVE  SubFacts(n, s, InputOf(query, n, s, input))
<1> DEFINE I == InputOf(query, n, s, input)
<1>1. query \in Queries /\ input \in Tables
  BY DEF InputFacts
<1>2. ASSUME NEW p \in s.prims PROVE ArgFacts(p, I) /\ (p.fn = "any" => n > 0)
  <2>1. PrimFacts(query, n, p)
    BY <1>1, AnalyzedFacts
  <2>2. IsFiniteSet(I)
    BY <1>1, InputFinite
  <2>3. ASSUME NEW t \in I
        PROVE  /\ Arg(p, t) \in Int \cup {Null}
               /\ p.fn \in {"sum", "max", "min"} /\ ~p.nullable => Arg(p, t) \in Int
               /\ p.fn = "min" /\ Arg(p, t) \in Int => Arg(p, t) <= MaxInt
    <3>1. /\ t.x \in Int \cup {Null}
          /\ ~query.nullable => t.x \in Int
          /\ t.x \in Int => t.x <= MaxInt
      BY InputTyped
    <3>2. Arg(p, t) = IF p.arg = "x2" THEN MulOp(t.x, t.x) ELSE t.x
      BY DEF Arg
    <3>3. CASE p.arg = "x2"
      <4>1. t.x \in Int => MulOp(t.x, t.x) \in Int
        <5>1. ASSUME t.x \in Int PROVE t.x * t.x \in Int /\ t.x # Null
          BY <5>1, NullAssumption
        <5> QED
          BY <5>1 DEF MulOp, IsNull
      <4>2. t.x = Null => MulOp(t.x, t.x) = Null
        BY DEF MulOp, IsNull
      <4>3. p.fn # "min"
        BY <2>1, <3>3 DEF PrimFacts
      <4> HIDE DEF MulOp
      <4> QED
        BY <2>1, <3>1, <3>2, <3>3, <4>1, <4>2, <4>3 DEF PrimFacts
    <3>4. CASE p.arg = "x"
      BY <2>1, <3>1, <3>2, <3>4 DEF PrimFacts
    <3> QED
      BY <2>1, <3>3, <3>4 DEF PrimFacts
  <2> QED
    BY <2>1, <2>2, <2>3 DEF ArgFacts, PrimFacts
<1> QED
  BY <1>2 DEF SubFacts

----------------------------------------------------------------------------
(* The inductive invariant *)

\* There is a grouping set to be aggregated, and the running sub-aggregation is one of it.
PartsInv ==
    /\ parts \in Seq(0 .. Len(query.keys))
    /\ \A i \in DOMAIN parts : parts[i] = Len(query.keys) \/ query.rollup
    /\ pc \in {"run", "scan"} => parts # <<>> /\ subs \subseteq analyze(query, Head(parts))
    /\ cur # NoSub => pc = "run" /\ cur \in analyze(query, Head(parts))

\* The tuples taken so far can be told apart by the worker that took them, and each
\* worker's state is that of its tuples.
WorkersInv ==
    cur # NoSub =>
        LET I == InputOf(query, Head(parts), cur, input)
        IN  /\ pending \cup taken = I /\ pending \cap taken = {}
            /\ IsFiniteSet(DOMAIN tls)
            /\ tls = [t \in DOMAIN tls |-> tls[t]]
            /\ \E part \in [DOMAIN tls -> SUBSET taken] :
                  /\ \A t, u \in DOMAIN tls : t # u => part[t] \cap part[u] = {}
                  /\ \A x \in taken : \E t \in DOMAIN tls : x \in part[t]
                  /\ \A t \in DOMAIN tls : Right(Head(parts), cur, tls[t], part[t])

AggregationInv == InputFacts /\ PartsInv /\ WorkersInv

LEMMA GroupingSets ==
    ASSUME NEW q \in Queries
    PROVE  /\ groupingSets(q) \in Seq(0 .. Len(q.keys))
           /\ groupingSets(q) # <<>>
           /\ \A i \in DOMAIN groupingSets(q) : groupingSets(q)[i] = Len(q.keys) \/ q.rollup
<1>1. Len(q.keys) \in Nat
  BY QueriesAssumption
<1>2. CASE q.rollup
  <2> DEFINE k == Len(q.keys)
             f == [i \in 1 .. k + 1 |-> k - (i - 1)]
  <2>1. groupingSets(q) = f
    BY <1>2 DEF groupingSets
  <2> HIDE DEF k
  <2>2. k \in Nat
    BY <1>1 DEF k
  <2>3. \A i \in 1 .. k + 1 : k - (i - 1) \in 0 .. k
    BY <2>2
  <2>4. f \in Seq(0 .. k) /\ DOMAIN f = 1 .. k + 1
    BY <2>2, <2>3
  <2>5. f # <<>>
    <3>1. 1 \in DOMAIN f
      BY <2>2
    <3> HIDE DEF f
    <3> QED
      BY <3>1
  <2> QED
    BY <1>2, <2>1, <2>4, <2>5 DEF k
<1>3. CASE ~q.rollup
  BY <1>1, <1>3 DEF groupingSets
<1> QED
  BY <1>2, <1>3

\* The length of the current grouping set.
LEMMA HeadFacts ==
    ASSUME InputFacts, PartsInv, parts # <<>>
    PROVE  Head(parts) \in Nat /\ (Head(parts) = Len(query.keys) \/ query.rollup)
<1>1. Len(query.keys) \in Nat
  BY QueriesAssumption DEF InputFacts
<1>2. Head(parts) = parts[1] /\ 1 \in DOMAIN parts /\ parts[1] \in 0 .. Len(query.keys)
  BY DEF PartsInv
<1> QED
  BY <1>1, <1>2 DEF PartsInv

LEMMA AggregationInit == Init => AggregationInv
<1> SUFFICES ASSUME Init PROVE AggregationInv
  OBVIOUS
<1>1. InputFacts
  BY DEF Init, InputFacts
<1>2. PartsInv
  BY DEF Init, PartsInv
<1>3. WorkersInv
  BY DEF Init, WorkersInv
<1> QED
  BY <1>1, <1>2, <1>3 DEF AggregationInv

LEMMA InputStep == InputFacts /\ [Next]_vars => InputFacts'
BY DEF InputFacts, Next, vars, Parse, StartSub, GetLocal, Reduce, Merge, Scan

LEMMA PartsStep == AggregationInv /\ [Next]_vars => PartsInv'
<1> SUFFICES ASSUME AggregationInv, [Next]_vars PROVE PartsInv'
  OBVIOUS
<1>0. InputFacts /\ PartsInv /\ query \in Queries
  BY DEF AggregationInv, InputFacts
<1>1. CASE Parse
  <2>1. /\ query' = query /\ parts' = groupingSets(query) /\ cur' = cur
        /\ subs' = analyze(query, Head(parts')) /\ cur = NoSub
    BY <1>0, <1>1 DEF Parse, PartsInv
  <2> QED
    BY <1>0, <2>1, GroupingSets DEF PartsInv
<1>2. ASSUME NEW s \in subs, StartSub(s) PROVE PartsInv'
  BY <1>0, <1>2 DEF StartSub, PartsInv
<1>3. ASSUME NEW t, GetLocal(t) PROVE PartsInv'
  BY <1>0, <1>3 DEF GetLocal, PartsInv
<1>4. ASSUME NEW t, Reduce(t) PROVE PartsInv'
  BY <1>0, <1>4 DEF Reduce, PartsInv
<1>5. CASE Merge
  <2>1. /\ query' = query /\ parts' = parts /\ subs' = subs /\ cur' = NoSub /\ pc = "run"
    BY <1>0, <1>5 DEF Merge, PartsInv
  <2> QED
    BY <1>0, <2>1 DEF PartsInv
<1>6. CASE Scan
  <2>1. /\ query' = query /\ parts' = Tail(parts) /\ cur' = cur /\ pc \in {"run", "scan"}
        /\ IF Tail(parts) = <<>> THEN pc' = "done" /\ subs' = {}
           ELSE pc' = "run" /\ subs' = analyze(query, Head(Tail(parts)))
    BY <1>6 DEF Scan
  <2>2. cur = NoSub
    BY <1>0, <1>6 DEF Scan, PartsInv
  <2>3. parts # <<>> /\ parts \in Seq(0 .. Len(query.keys))
    BY <1>0, <2>1 DEF PartsInv
  <2>4. /\ Tail(parts) \in Seq(0 .. Len(query.keys))
        /\ \A i \in DOMAIN Tail(parts) : i + 1 \in DOMAIN parts /\ Tail(parts)[i] = parts[i + 1]
    BY <2>3
  <2>5. \A i \in DOMAIN Tail(parts) : Tail(parts)[i] = Len(query.keys) \/ query.rollup
    BY <1>0, <2>4 DEF PartsInv
  <2> QED
    BY <2>1, <2>2, <2>4, <2>5 DEF PartsInv
<1>7. CASE UNCHANGED vars
  BY <1>0, <1>7 DEF vars, PartsInv
<1> QED
  BY <1>1, <1>2, <1>3, <1>4, <1>5, <1>6, <1>7 DEF Next

\* The split of the tuples among the workers.
Split(n, s, states, part, I) ==
    /\ part \in [DOMAIN states -> SUBSET I]
    /\ \A t, u \in DOMAIN states : t # u => part[t] \cap part[u] = {}
    /\ \A x \in I : \E t \in DOMAIN states : x \in part[t]
    /\ \A t \in DOMAIN states : Right(n, s, states[t], part[t])

\* A worker's new state has none of the tuples.
LEMMA SplitNew ==
    ASSUME NEW n, NEW s, NEW I, SubFacts(n, s, I), NEW states, NEW part,
           Split(n, s, states, part, I), NEW t, t \notin DOMAIN states,
           NEW new, DOMAIN new = DOMAIN states \cup {t}, new[t] = Instance(n, s),
           \A u \in DOMAIN states : new[u] = states[u]
    PROVE  \E p : Split(n, s, new, p, I)
<1> DEFINE p == [u \in DOMAIN new |-> IF u = t THEN {} ELSE part[u]]
<1>1. /\ part \in [DOMAIN states -> SUBSET I]
      /\ \A u, v \in DOMAIN states : u # v => part[u] \cap part[v] = {}
      /\ \A x \in I : \E u \in DOMAIN states : x \in part[u]
      /\ \A u \in DOMAIN states : Right(n, s, states[u], part[u])
  BY DEF Split
<1>2. p[t] = {} /\ \A u \in DOMAIN states : p[u] = part[u]
  OBVIOUS
<1>3. p \in [DOMAIN new -> SUBSET I]
  BY <1>1
<1> HIDE DEF p
<1>4. \A u, v \in DOMAIN new : u # v => p[u] \cap p[v] = {}
  BY <1>1, <1>2
<1>5. \A x \in I : \E u \in DOMAIN new : x \in p[u]
  BY <1>1, <1>2
<1>6. Right(n, s, new[t], p[t])
  <2>1. {} \in SUBSET I
    OBVIOUS
  <2>2. SubFacts(n, s, {})
    BY <2>1, SubFactsSubset
  <2> QED
    BY <1>2, <2>2, InstanceRight
<1>7. \A u \in DOMAIN new : Right(n, s, new[u], p[u])
  BY <1>1, <1>2, <1>6
<1> QED
  BY <1>3, <1>4, <1>5, <1>7 DEF Split

\* A worker reduces one more tuple.
LEMMA SplitMore ==
    ASSUME NEW n, NEW s, NEW I, NEW x, x \notin I, SubFacts(n, s, I \cup {x}), NEW states, NEW part,
           Split(n, s, states, part, I), NEW t \in DOMAIN states,
           NEW new, DOMAIN new = DOMAIN states, new[t] = Reduced(s, states[t], x),
           \A u \in DOMAIN states : u # t => new[u] = states[u]
    PROVE  \E p : Split(n, s, new, p, I \cup {x})
<1> DEFINE p == [u \in DOMAIN new |-> IF u = t THEN part[u] \cup {x} ELSE part[u]]
<1>1. /\ part \in [DOMAIN states -> SUBSET I]
      /\ \A u, v \in DOMAIN states : u # v => part[u] \cap part[v] = {}
      /\ \A y \in I : \E u \in DOMAIN states : y \in part[u]
      /\ \A u \in DOMAIN states : Right(n, s, states[u], part[u])
  BY DEF Split
<1>2. p[t] = part[t] \cup {x} /\ \A u \in DOMAIN states : u # t => p[u] = part[u]
  OBVIOUS
<1>3. p \in [DOMAIN new -> SUBSET (I \cup {x})]
  BY <1>1
<1> HIDE DEF p
<1>4. \A u \in DOMAIN states : part[u] \in SUBSET I /\ x \notin part[u]
  BY <1>1
<1>5. ASSUME NEW u \in DOMAIN new, NEW v \in DOMAIN new, u # v PROVE p[u] \cap p[v] = {}
  <2>1. part[u] \cap part[v] = {}
    BY <1>1, <1>5
  <2> QED
    BY <1>2, <1>4, <1>5, <2>1
<1>6. \A y \in I \cup {x} : \E u \in DOMAIN new : y \in p[u]
  BY <1>1, <1>2
<1>7. Right(n, s, new[t], p[t])
  <2>1. part[t] \cup {x} \in SUBSET (I \cup {x})
    BY <1>4
  <2>2. SubFacts(n, s, part[t] \cup {x})
    BY <2>1, SubFactsSubset
  <2>3. Right(n, s, states[t], part[t]) /\ x \notin part[t]
    BY <1>1, <1>4
  <2>4. Right(n, s, Reduced(s, states[t], x), part[t] \cup {x})
    BY <2>2, <2>3, ReducedRight
  <2> QED
    BY <1>2, <2>4
<1>8. \A u \in DOMAIN new : Right(n, s, new[u], p[u])
  BY <1>1, <1>2, <1>7
<1> QED
  BY <1>3, <1>5, <1>6, <1>8 DEF Split

LEMMA WorkersStep == AggregationInv /\ [Next]_vars => WorkersInv'
<1> SUFFICES ASSUME AggregationInv, [Next]_vars, cur' # NoSub PROVE WorkersInv'
  BY DEF WorkersInv
<1> DEFINE n == Head(parts)
           I == InputOf(query, n, cur, input)
<1>0. InputFacts /\ PartsInv /\ WorkersInv
  BY DEF AggregationInv
<1>1. CASE Parse
  BY <1>0, <1>1 DEF Parse, PartsInv
<1>2. ASSUME NEW s \in subs, StartSub(s) PROVE WorkersInv'
  <2>1. /\ pending' = InputOf(query, n, s, input) /\ taken' = {} /\ tls' = <<>> /\ cur' = s
        /\ query' = query /\ parts' = parts /\ input' = input
    BY <1>2 DEF StartSub
  <2>2. DOMAIN tls' = {} /\ IsFiniteSet(DOMAIN tls') /\ tls' = [t \in DOMAIN tls' |-> tls'[t]]
    <3>1. DOMAIN tls' = {}
      BY <2>1
    <3>2. <<>> = [t \in {} |-> <<>>[t]]
      OBVIOUS
    <3> QED
      BY <2>1, <3>1, <3>2, FS_EmptySet
  <2>3. [t \in {} |-> {}] \in [DOMAIN tls' -> SUBSET taken']
    BY <2>2
  <2> QED
    BY <2>1, <2>2, <2>3 DEF WorkersInv
<1> DEFINE HasSplit(states, J) == \E part : Split(n, cur, states, part, J)
<1>3. ASSUME cur # NoSub
      PROVE  /\ pending \cup taken = I /\ pending \cap taken = {}
             /\ IsFiniteSet(DOMAIN tls)
             /\ tls = [t \in DOMAIN tls |-> tls[t]]
             /\ HasSplit(tls, taken)
             /\ SubFacts(n, cur, I)
  <2>1. parts # <<>> /\ cur \in analyze(query, n)
    BY <1>0, <1>3 DEF PartsInv
  <2>2. SubFacts(n, cur, I)
    BY <1>0, <2>1, HeadFacts, SubInputFacts
  <2>3. HasSplit(tls, taken)
    BY <1>0, <1>3 DEF WorkersInv, Split
  <2> QED
    BY <1>0, <1>3, <2>2, <2>3 DEF WorkersInv
<1>4. ASSUME cur' = cur, query' = query, parts' = parts, input' = input,
             pending' \cup taken' = I, pending' \cap taken' = {},
             IsFiniteSet(DOMAIN tls'), tls' = [t \in DOMAIN tls' |-> tls'[t]],
             HasSplit(tls', taken')
      PROVE  WorkersInv'
  <2>1. PICK part : Split(n, cur, tls', part, taken')
    BY <1>4
  <2> QED
    BY <1>4, <2>1 DEF WorkersInv, Split
<1> HIDE DEF I, n
<1>5. ASSUME NEW t, GetLocal(t) PROVE WorkersInv'
  <2>1. /\ cur # NoSub /\ t \notin DOMAIN tls
        /\ tls' = [u \in DOMAIN tls \union {t} |-> IF u = t THEN Instance(n, cur) ELSE tls[u]]
        /\ UNCHANGED <<query, input, parts, cur, pending, taken>>
    BY <1>5 DEF GetLocal, n
  <2>2. /\ DOMAIN tls' = DOMAIN tls \cup {t} /\ tls'[t] = Instance(n, cur)
        /\ \A u \in DOMAIN tls : tls'[u] = tls[u]
        /\ tls' = [u \in DOMAIN tls' |-> tls'[u]]
    BY <2>1
  <2>3. IsFiniteSet(DOMAIN tls')
    BY <1>3, <2>1, <2>2, FS_AddElement
  <2>4. SubFacts(n, cur, taken)
    BY <1>3, <2>1, SubFactsSubset
  <2>5. PICK part : Split(n, cur, tls, part, taken)
    BY <1>3, <2>1
  <2>6. HasSplit(tls', taken)
    BY <2>1, <2>2, <2>4, <2>5, SplitNew
  <2> QED
    BY <1>3, <1>4, <2>1, <2>2, <2>3, <2>6
<1>6. ASSUME NEW t, Reduce(t) PROVE WorkersInv'
  <2>1. PICK x \in pending :
        /\ cur # NoSub /\ t \in DOMAIN tls
        /\ tls' = [tls EXCEPT ![t] = Reduced(cur, tls[t], x)]
        /\ pending' = pending \ {x} /\ taken' = taken \union {x}
        /\ UNCHANGED <<query, input, parts, cur>>
    BY <1>6 DEF Reduce
  <2>2. /\ DOMAIN tls' = DOMAIN tls /\ tls'[t] = Reduced(cur, tls[t], x)
        /\ \A u \in DOMAIN tls : u # t => tls'[u] = tls[u]
        /\ tls' = [u \in DOMAIN tls' |-> tls'[u]]
    BY <2>1
  <2>3. x \notin taken /\ pending' \cup taken' = I /\ pending' \cap taken' = {}
    BY <1>3, <2>1
  <2>4. SubFacts(n, cur, taken \cup {x})
    <3>1. SubFacts(n, cur, I) /\ taken \cup {x} \in SUBSET I
      BY <1>3, <2>1
    <3> QED
      BY <3>1, SubFactsSubset
  <2>5. PICK part : Split(n, cur, tls, part, taken)
    BY <1>3, <2>1
  <2>6. HasSplit(tls', taken \cup {x})
    BY <2>1, <2>2, <2>3, <2>4, <2>5, SplitMore
  <2> QED
    BY <1>3, <1>4, <2>1, <2>2, <2>3, <2>6
<1>7. CASE Merge
  BY <1>7 DEF Merge
<1>8. CASE Scan
  BY <1>0, <1>8 DEF Scan, PartsInv
<1>9. CASE UNCHANGED vars
  BY <1>3, <1>4, <1>9 DEF vars
<1> QED
  BY <1>1, <1>2, <1>5, <1>6, <1>7, <1>8, <1>9 DEF Next

\* Every reachable state has the invariant: the running sub-aggregation is one of the
\* current grouping set, and each worker's state is that of the tuples it has taken.
THEOREM AggregationInvHolds == Spec => []AggregationInv
<1>1. Init => AggregationInv
  BY AggregationInit
<1>2. AggregationInv /\ [Next]_vars => AggregationInv'
  BY InputStep, PartsStep, WorkersStep DEF AggregationInv
<1> QED
  BY <1>1, <1>2, PTL DEF Spec

----------------------------------------------------------------------------
(* Merging the workers' states at any time *)

LEMMA OrderListed ==
    ASSUME NEW S, IsFiniteSet(S), NEW order \in SetToSeqs(S)
    PROVE  /\ Cardinality(S) \in Nat /\ order \in [1 .. Cardinality(S) -> S]
           /\ \A i, j \in 1 .. Cardinality(S) : i # j => order[i] # order[j]
           /\ \A x \in S : \E i \in 1 .. Cardinality(S) : order[i] = x
<1> DEFINE k == Cardinality(S)
<1>1. k \in Nat
  BY FS_CardinalityType
<1>2. order \in [1 .. k -> S] /\ \A i, j \in 1 .. k : i # j => order[i] # order[j]
  BY DEF SetToSeqs
<1> HIDE DEF k
<1>3. IsFiniteSet(1 .. k) /\ Cardinality(1 .. k) = k
  BY <1>1, FS_Interval
<1>4. order \in Injection(1 .. k, S)
  BY <1>2 DEF Injection, IsInjective
<1>5. order \in Surjection(1 .. k, S)
  BY <1>3, <1>4, FS_Injection DEF k
<1>6. \A x \in S : \E i \in 1 .. k : order[i] = x
  BY <1>5 DEF Surjection
<1> QED
  BY <1>1, <1>2, <1>6 DEF k

\* The states of all workers, in any order, are states over the parts of the tuples.
LEMMA OrderParted ==
    ASSUME NEW n, NEW s, NEW I, NEW states, NEW part, Split(n, s, states, part, I),
           IsFiniteSet(DOMAIN states), NEW order \in SetToSeqs(DOMAIN states), order # <<>>,
           NEW maps, maps = [i \in DOMAIN order |-> states[order[i]]]
    PROVE  \E p : Parted(n, s, maps, p, I)
<1> DEFINE k == Cardinality(DOMAIN states)
           p == [i \in 1 .. k |-> part[order[i]]]
<1>1. /\ k \in Nat /\ order \in [1 .. k -> DOMAIN states]
      /\ \A i, j \in 1 .. k : i # j => order[i] # order[j]
      /\ \A x \in DOMAIN states : \E i \in 1 .. k : order[i] = x
  BY OrderListed
<1> HIDE DEF k
<1>2. DOMAIN order = 1 .. k /\ k # 0
  <2>1. order \in Seq(DOMAIN states) /\ DOMAIN order = 1 .. k
    BY <1>1
  <2>2. k = 0 => order = <<>>
    BY <2>1
  <2> QED
    BY <2>1, <2>2
<1>3. /\ part \in [DOMAIN states -> SUBSET I]
      /\ \A t, u \in DOMAIN states : t # u => part[t] \cap part[u] = {}
      /\ \A x \in I : \E t \in DOMAIN states : x \in part[t]
      /\ \A t \in DOMAIN states : Right(n, s, states[t], part[t])
  BY DEF Split
<1>4. maps = [i \in 1 .. k |-> states[order[i]]]
  BY <1>2
<1>5. Len(maps) = k /\ DOMAIN maps = 1 .. k
  <2>1. \A i \in 1 .. k : states[order[i]] \in MapsOver(n, s, I)
    BY <1>1, <1>3, RightIsOver
  <2>2. maps \in Seq(MapsOver(n, s, I)) /\ DOMAIN maps = 1 .. k
    BY <1>1, <1>4, <2>1
  <2> QED
    BY <1>1, <2>2
<1>6. \A i \in 1 .. k : maps[i] = states[order[i]] /\ p[i] = part[order[i]] /\ order[i] \in DOMAIN states
  BY <1>1, <1>4
<1>7. p \in [1 .. k -> SUBSET I]
  BY <1>1, <1>3
<1> HIDE DEF p
<1>8. \A i, j \in 1 .. k : i # j => p[i] \cap p[j] = {}
  BY <1>1, <1>3, <1>6
<1>9. \A x \in I : \E i \in 1 .. k : x \in p[i]
  BY <1>1, <1>3, <1>6
<1>10. \A i \in 1 .. k : Right(n, s, maps[i], p[i])
  BY <1>3, <1>6
<1>11. maps = [i \in 1 .. k |-> maps[i]]
  BY <1>4
<1> QED
  BY <1>1, <1>2, <1>5, <1>7, <1>8, <1>9, <1>10, <1>11 DEF Parted

\* A right state holds what SQL asks of its functions.
LEMMA RightIsAggregate ==
    ASSUME NEW n \in Nat, NEW s, NEW I, SubFacts(n, s, I), NEW map, Right(n, s, map, I),
           NEW key \in DOMAIN map, NEW p \in s.prims, PrimFacts(query, n, p),
           NEW J, J = {tuple \in I : tuple.key = key}
    PROVE  \/ NullsOnly(p, J) /\ map[key][p] = 0
           \/ Below(p, n, J) /\ map[key][p] = 0
           \/ ~NullsOnly(p, J) /\ Answers(p, J, map[key][p])
<1> DEFINE v == map[key][p]
<1>1. J = Group(I, key)
  BY DEF Group
<1>2. key \in KeysOf(n, I) /\ IsState(p, J, v)
  BY <1>1 DEF Right
<1>3. ArgFacts(p, J)
  <2>1. J \in SUBSET I
    OBVIOUS
  <2> QED
    BY <2>1, SubFactsSubset
<1>4. n > 0 => J # {}
  BY <1>2 DEF KeysOf
<1>5. FnFacts(p, n, J)
  BY <1>4 DEF FnFacts, PrimFacts
<1>6. p.fn \in PrimFns
  BY DEF PrimFacts
<1>7. NullsOnly(p, J) <=> p.fn = "sum" /\ J # {} /\ Known(p, J) = {}
  <2>1. (\A t \in J : Arg(p, t) = Null) <=> Known(p, J) = {}
    BY DEF Known
  <2> QED
    BY <1>6, <2>1 DEF NullsOnly, SumOfNulls, PrimFns
<1>8. Below(p, n, J) <=> p.fn = "max" /\ ~query.nullable /\ n > 0 /\ \A t \in J : Arg(p, t) < 0
  BY DEF Below, MaxBelowDefault
<1>9. Value(p, J, v) => Answers(p, J, v)
  BY <1>6, ValueIsAggregate
<1> HIDE DEF v
<1>10. \/ p.fn = "sum" /\ J # {} /\ Known(p, J) = {} /\ v = 0
       \/ p.fn = "max" /\ ~query.nullable /\ n > 0 /\ (\A t \in J : Arg(p, t) < 0) /\ v = 0
       \/ ~(p.fn = "sum" /\ J # {} /\ Known(p, J) = {}) /\ Value(p, J, v)
  BY <1>2, <1>3, <1>5, StateIsValue
<1> QED
  BY <1>7, <1>8, <1>9, <1>10 DEF v

LEMMA InvCombines == AggregationInv => PartialsCombine
<1> SUFFICES ASSUME AggregationInv, cur # NoSub, NEW order \in SetToSeqs(DOMAIN tls), order # <<>>
             PROVE  LET map == MergeAll(cur, [i \in DOMAIN order |-> tls[order[i]]])
                    IN /\ DOMAIN map = {tuple.key : tuple \in taken} \union
                                       (IF Head(parts) = 0 THEN {<<>>} ELSE {})
                       /\ \A key \in DOMAIN map : \A p \in cur.prims :
                            LET I == {tuple \in taken : tuple.key = key}
                                agg == [fn |-> p.fn, distinct |-> FALSE]
                                X(tuple) == Arg(p, tuple)
                            IN \/ SumOfNulls(agg, I, X) /\ map[key][p] = 0
                               \/ MaxBelowDefault(agg, Head(parts), I, X) /\ map[key][p] = 0
                               \/ ~SumOfNulls(agg, I, X) /\ IsAggregate(agg, I, X, map[key][p])
  BY DEF PartialsCombine
<1> DEFINE n == Head(parts)
           maps == [i \in DOMAIN order |-> tls[order[i]]]
           map == MergeAll(cur, maps)
<1>1. InputFacts /\ PartsInv /\ WorkersInv /\ query \in Queries
  BY DEF AggregationInv, InputFacts
<1>2. parts # <<>> /\ cur \in analyze(query, n)
  BY <1>1 DEF PartsInv
<1>3. n \in Nat /\ (n = Len(query.keys) \/ query.rollup)
  BY <1>1, <1>2, HeadFacts
<1>4. SubFacts(n, cur, InputOf(query, n, cur, input))
  BY <1>1, <1>2, <1>3, SubInputFacts
<1>5. taken \in SUBSET InputOf(query, n, cur, input) /\ IsFiniteSet(DOMAIN tls)
  BY <1>1 DEF WorkersInv
<1>6. SubFacts(n, cur, taken)
  BY <1>4, <1>5, SubFactsSubset
<1>7. PICK part : Split(n, cur, tls, part, taken)
  BY <1>1 DEF WorkersInv, Split
<1> HIDE DEF maps
<1>8. PICK q : Parted(n, cur, maps, q, taken)
  BY <1>5, <1>7, OrderParted DEF maps
<1>9. Right(n, cur, map, taken)
  BY <1>6, <1>8, MergeAllRight
<1> HIDE DEF map, n
<1>10. DOMAIN map = {tuple.key : tuple \in taken} \union (IF n = 0 THEN {<<>>} ELSE {})
  BY <1>9 DEF Right, KeysOf
<1>11. ASSUME NEW key \in DOMAIN map, NEW p \in cur.prims
       PROVE  LET I == {tuple \in taken : tuple.key = key}
                  agg == [fn |-> p.fn, distinct |-> FALSE]
                  X(tuple) == Arg(p, tuple)
              IN \/ SumOfNulls(agg, I, X) /\ map[key][p] = 0
                 \/ MaxBelowDefault(agg, n, I, X) /\ map[key][p] = 0
                 \/ ~SumOfNulls(agg, I, X) /\ IsAggregate(agg, I, X, map[key][p])
  <2>1. PrimFacts(query, n, p)
    BY <1>1, <1>2, <1>3, AnalyzedFacts
  <2> DEFINE J == {tuple \in taken : tuple.key = key}
  <2>2. \/ NullsOnly(p, J) /\ map[key][p] = 0
        \/ Below(p, n, J) /\ map[key][p] = 0
        \/ ~NullsOnly(p, J) /\ Answers(p, J, map[key][p])
    BY <1>3, <1>6, <1>9, <2>1, RightIsAggregate
  <2> QED
    BY <2>2 DEF NullsOnly, Below, Answers
<1> QED
  BY <1>10, <1>11 DEF map, maps, n

\* PartialsCombine for every query, table and set of workers: whenever the workers are
\* stopped, merging their states by the combine blocks of RelAlgToSubOp.cpp, in any
\* order of the workers, gives the state of exactly the tuples taken so far.
THEOREM PartialsRight == Spec => []PartialsCombine
BY AggregationInvHolds, InvCombines, PTL

----------------------------------------------------------------------------
(* The finished sub-aggregations *)

\* The input of the sub-aggregations with and without DISTINCT.
TuplesOf(n, d) == InputOf(query, n, [distinct |-> d], input)

LEMMA TuplesOfSub == \A n, s : InputOf(query, n, s, input) = TuplesOf(n, s.distinct)
BY DEF TuplesOf, InputOf

\* The functions of one aggregate.
Rewritten(n, a) == RewriteComplexAggrFuncs(query, n, a)

LEMMA RewrittenNames ==
    ASSUME NEW n, NEW a
    PROVE  Rewritten(n, a) # {} /\ \A p \in Rewritten(n, a) : p.agg = a
<1> DEFINE fn == query.aggs[a].fn
           nullable == resultNullable(query, n, fn)
<1>1. CASE fn = "avg"
  <2>1. Rewritten(n, a) = {Prim(a, "sum", "sum", "x", nullable), Prim(a, "count", "count", "x", FALSE)}
    BY <1>1 DEF Rewritten, RewriteComplexAggrFuncs
  <2> QED
    BY <2>1 DEF Prim
<1>2. CASE fn = "stddev_samp"
  <2>1. Rewritten(n, a) =
            {Prim(a, "squares", "sum", "x2", nullable), Prim(a, "sum", "sum", "x", TRUE),
             Prim(a, "count", "count", "x", FALSE)}
    BY <1>2 DEF Rewritten, RewriteComplexAggrFuncs
  <2> QED
    BY <2>1 DEF Prim
<1>3. CASE fn \notin {"avg", "stddev_samp"}
  <2>1. Rewritten(n, a) = {Prim(a, "value", fn, "x", nullable)}
    BY <1>3 DEF Rewritten, RewriteComplexAggrFuncs
  <2> QED
    BY <2>1 DEF Prim
<1> QED
  BY <1>1, <1>2, <1>3

\* Every function is in the one sub-aggregation of its DISTINCT.
LEMMA AnalyzedOnce ==
    ASSUME query \in Queries, NEW n
    PROVE  /\ \A s \in analyze(query, n) : /\ s # NoSub /\ s.prims # {}
                                           /\ \A p \in s.prims : /\ p.agg \in DOMAIN query.aggs
                                                                 /\ p \in Rewritten(n, p.agg)
                                                                 /\ s.distinct = query.aggs[p.agg].distinct
           /\ \A a \in DOMAIN query.aggs : \A p \in Rewritten(n, a) : \E s \in analyze(query, n) : p \in s.prims
<1> DEFINE plain == {a \in DOMAIN query.aggs : ~query.aggs[a].distinct}
           SubOf(A, d) == [prims |-> UNION {RewriteComplexAggrFuncs(query, n, a) : a \in A},
                           distinct |-> d]
           all == {SubOf(plain, FALSE)} \union {SubOf({a}, TRUE) : a \in DOMAIN query.aggs \ plain}
<1>1. analyze(query, n) = {s \in all : s.prims # {}}
  BY DEF analyze
<1>2. \A a \in DOMAIN query.aggs : query.aggs[a].distinct \in BOOLEAN
  BY QueriesAssumption
<1>3. SubOf(plain, FALSE).prims = UNION {Rewritten(n, a) : a \in plain} /\ SubOf(plain, FALSE).distinct = FALSE
  BY DEF Rewritten
<1>4. \A a : SubOf({a}, TRUE).prims = Rewritten(n, a) /\ SubOf({a}, TRUE).distinct = TRUE
  BY DEF Rewritten
<1>5. \A A, d : SubOf(A, d) # NoSub
  BY DEF NoSub
<1>6. \A s \in all : s = SubOf(plain, FALSE) \/ \E a \in DOMAIN query.aggs \ plain : s = SubOf({a}, TRUE)
  OBVIOUS
<1>7. SubOf(plain, FALSE) \in all /\ \A a \in DOMAIN query.aggs \ plain : SubOf({a}, TRUE) \in all
  OBVIOUS
<1>8. \A a \in plain : a \in DOMAIN query.aggs /\ query.aggs[a].distinct = FALSE
  BY <1>2
<1>9. \A a \in DOMAIN query.aggs \ plain : query.aggs[a].distinct = TRUE
  BY <1>2
<1> HIDE DEF all, SubOf, plain
<1>10. ASSUME NEW s \in all
       PROVE  /\ s # NoSub
              /\ \A p \in s.prims : /\ p.agg \in DOMAIN query.aggs
                                    /\ p \in Rewritten(n, p.agg)
                                    /\ s.distinct = query.aggs[p.agg].distinct
  <2>1. CASE s = SubOf(plain, FALSE)
    <3>1. ASSUME NEW p \in s.prims
          PROVE  /\ p.agg \in DOMAIN query.aggs
                 /\ p \in Rewritten(n, p.agg)
                 /\ s.distinct = query.aggs[p.agg].distinct
      <4>1. PICK a \in plain : p \in Rewritten(n, a)
        BY <1>3, <2>1
      <4>2. p.agg = a
        BY <4>1, RewrittenNames
      <4> QED
        BY <1>3, <1>8, <2>1, <4>1, <4>2
    <3> QED
      BY <1>5, <3>1, <2>1
  <2>2. ASSUME NEW a \in DOMAIN query.aggs \ plain, s = SubOf({a}, TRUE)
        PROVE  \A p \in s.prims : /\ p.agg \in DOMAIN query.aggs
                                  /\ p \in Rewritten(n, p.agg)
                                  /\ s.distinct = query.aggs[p.agg].distinct
    <3>1. s.prims = Rewritten(n, a) /\ s.distinct = TRUE
      BY <1>4, <2>2
    <3>2. query.aggs[a].distinct = TRUE
      BY <1>9
    <3>3. \A p \in Rewritten(n, a) : p.agg = a
      BY RewrittenNames
    <3> QED
      BY <3>1, <3>2, <3>3
  <2> QED
    BY <1>5, <1>6, <2>1, <2>2
<1>11. ASSUME NEW a \in DOMAIN query.aggs, NEW p \in Rewritten(n, a)
       PROVE  \E s \in all : p \in s.prims
  <2>1. CASE a \in plain
    BY <1>3, <1>7, <2>1
  <2>2. CASE a \notin plain
    BY <1>4, <1>7, <2>2
  <2> QED
    BY <2>1, <2>2
<1> QED
  BY <1>1, <1>10, <1>11

\* Every sub-aggregation of a grouping set has the same groups.
LEMMA SameGroups ==
    ASSUME NEW n, NEW d
    PROVE  KeysOf(n, TuplesOf(n, d)) = Groups(n)
<1> DEFINE I == TuplesOf(n, d)
<1>1. {t.key : t \in I} = {KeyOf(query, n, input[i]) : i \in DOMAIN input}
  <2>1. \A t \in I : \E i \in DOMAIN input : t.key = KeyOf(query, n, input[i])
    BY DEF TuplesOf, InputOf
  <2>2. ASSUME NEW i \in DOMAIN input PROVE \E t \in I : t.key = KeyOf(query, n, input[i])
    <3> DEFINE t == [key |-> KeyOf(query, n, input[i]), x |-> input[i].x,
                     pos |-> IF [distinct |-> d].distinct THEN 0 ELSE i]
    <3>1. t \in I
      BY DEF TuplesOf, InputOf
    <3>2. t.key = KeyOf(query, n, input[i])
      OBVIOUS
    <3> QED
      BY <3>1, <3>2
  <2> HIDE DEF I
  <2> QED
    BY <2>1, <2>2
<1>2. CASE n = 0
  <2>1. \A row : KeyOf(query, 0, row) = <<>>
    <3>1. 1 .. 0 = {}
      OBVIOUS
    <3> QED
      BY <3>1 DEF KeyOf
  <2>2. {KeyOf(query, n, input[i]) : i \in DOMAIN input} \subseteq {<<>>}
    BY <1>2, <2>1
  <2> QED
    BY <1>1, <1>2, <2>2 DEF KeysOf, Groups
<1>3. CASE n # 0
  BY <1>1, <1>3 DEF KeysOf, Groups
<1> QED
  BY <1>2, <1>3

Finished(n, s, map) == Right(n, s, map, TuplesOf(n, s.distinct))

StateMaps(n) == UNION {MapsOver(n, s, TuplesOf(n, s.distinct)) : s \in analyze(query, n)}

\* The merged states are those of finished sub-aggregations, all of which have one.
FinishedSubs(n, maps, done) ==
    /\ maps \in Seq(StateMaps(n))
    /\ \A i \in DOMAIN maps : \E s \in analyze(query, n) : Finished(n, s, maps[i])
    /\ \A s \in done : \E i \in DOMAIN maps : Finished(n, s, maps[i])

ResultsInv ==
    /\ pc = "parse" => results = <<>>
    /\ pc = "scan" => subs = {}
    /\ pc \in {"run", "scan"} =>
            FinishedSubs(Head(parts), results, (analyze(query, Head(parts)) \ subs) \ {cur})

LEMMA FinishedIsMap ==
    ASSUME NEW n, NEW s \in analyze(query, n), NEW map, Finished(n, s, map)
    PROVE  map \in StateMaps(n)
<1>1. TuplesOf(n, s.distinct) \in SUBSET TuplesOf(n, s.distinct)
  OBVIOUS
<1>2. map \in MapsOver(n, s, TuplesOf(n, s.distinct))
  BY <1>1, RightIsOver DEF Finished
<1> QED
  BY <1>2 DEF StateMaps

\* The merge of the states of all workers, or of a fresh one if there are none.
LEMMA MergedFinished ==
    ASSUME NEW n, NEW s, NEW I, SubFacts(n, s, I), NEW states, NEW part, Split(n, s, states, part, I),
           IsFiniteSet(DOMAIN states), NEW order \in SetToSeqs(DOMAIN states),
           NEW maps, maps = IF order = <<>> THEN <<Instance(n, s)>>
                            ELSE [i \in DOMAIN order |-> states[order[i]]]
    PROVE  Right(n, s, MergeAll(s, maps), I)
<1>1. CASE order # <<>>
  <2>1. maps = [i \in DOMAIN order |-> states[order[i]]]
    BY <1>1
  <2>2. PICK p : Parted(n, s, maps, p, I)
    BY <1>1, <2>1, OrderParted
  <2> QED
    BY <2>2, MergeAllRight
<1>2. CASE order = <<>>
  <2> DEFINE k == Cardinality(DOMAIN states)
  <2>1. /\ k \in Nat /\ order \in [1 .. k -> DOMAIN states]
        /\ \A x \in DOMAIN states : \E i \in 1 .. k : order[i] = x
    BY OrderListed
  <2> HIDE DEF k
  <2>2. 1 .. k = {}
    BY <1>2, <2>1
  <2>3. DOMAIN states = {}
    BY <2>1, <2>2
  <2>4. I = {}
    BY <2>3 DEF Split
  <2>5. Right(n, s, Instance(n, s), I)
    BY <2>4, InstanceRight
  <2>6. maps = <<Instance(n, s)>>
    BY <1>2
  <2>7. Parted(n, s, maps, [i \in {1} |-> {}], I)
    <3>1. Len(maps) = 1 /\ DOMAIN maps = 1 .. 1 /\ maps[1] = Instance(n, s) /\ 1 .. 1 = {1}
      BY <2>6
    <3>2. maps = [i \in {1} |-> maps[i]]
      BY <2>6
    <3> QED
      BY <2>4, <2>5, <3>1, <3>2 DEF Parted
  <2> QED
    BY <2>7, MergeAllRight
<1> QED
  BY <1>1, <1>2

LEMMA FinishedSame ==
    ASSUME query' = query, input' = input
    PROVE  /\ \A n, d : TuplesOf(n, d)' = TuplesOf(n, d)
           /\ \A n, maps, done : FinishedSubs(n, maps, done)' = FinishedSubs(n, maps, done)
<1>1. \A n, d : TuplesOf(n, d)' = TuplesOf(n, d)
  BY DEF TuplesOf
<1>2. \A n, s, map : Finished(n, s, map)' = Finished(n, s, map)
  BY <1>1 DEF Finished
<1>3. \A n : StateMaps(n)' = StateMaps(n)
  BY <1>1 DEF StateMaps
<1> QED
  BY <1>1, <1>2, <1>3 DEF FinishedSubs

\* The step that merges the states of the workers finishes the running sub-aggregation.
LEMMA MergeFinishes ==
    ASSUME AggregationInv, cur # NoSub, pending = {}, NEW order \in SetToSeqs(DOMAIN tls),
           NEW maps, maps = IF order = <<>> THEN <<Instance(Head(parts), cur)>>
                            ELSE [i \in DOMAIN order |-> tls[order[i]]]
    PROVE  Finished(Head(parts), cur, MergeAll(cur, maps)) /\ cur \in analyze(query, Head(parts))
<1> DEFINE n == Head(parts)
           I == TuplesOf(n, cur.distinct)
<1>1. InputFacts /\ PartsInv /\ WorkersInv
  BY DEF AggregationInv
<1>2. parts # <<>> /\ cur \in analyze(query, n)
  BY <1>1 DEF PartsInv
<1>3. I = InputOf(query, n, cur, input)
  BY TuplesOfSub
<1> HIDE DEF I
<1>4. SubFacts(n, cur, I)
  BY <1>1, <1>2, <1>3, HeadFacts, SubInputFacts
<1>5. taken = I /\ IsFiniteSet(DOMAIN tls) /\ \E part : Split(n, cur, tls, part, I)
  BY <1>1, <1>3 DEF WorkersInv, Split
<1>6. PICK part : Split(n, cur, tls, part, I)
  BY <1>5
<1> HIDE DEF n
<1>7. Right(n, cur, MergeAll(cur, maps), I)
  BY <1>4, <1>5, <1>6, MergedFinished DEF n
<1> QED
  BY <1>2, <1>7 DEF Finished, I, n

LEMMA ResultsStep == AggregationInv /\ ResultsInv /\ [Next]_vars => ResultsInv'
<1> SUFFICES ASSUME AggregationInv, ResultsInv, [Next]_vars PROVE ResultsInv'
  OBVIOUS
<1> DEFINE n == Head(parts)
           all == analyze(query, n)
<1>0. InputFacts /\ PartsInv /\ query \in Queries
  BY DEF AggregationInv, InputFacts
<1>a. ASSUME query' = query, input' = input, pc' # "parse", pc' = "scan" => subs' = {},
             pc' \in {"run", "scan"} =>
                FinishedSubs(Head(parts'), results', (analyze(query, Head(parts')) \ subs') \ {cur'})
      PROVE  ResultsInv'
  BY <1>a, FinishedSame DEF ResultsInv
<1>b. \A m : FinishedSubs(m, <<>>, {})
  BY DEF FinishedSubs
<1>1. CASE Parse
  <2>1. /\ query' = query /\ input' = input /\ results' = results /\ pc' = "run" /\ pc = "parse"
        /\ subs' = analyze(query, Head(parts'))
    BY <1>1 DEF Parse
  <2>2. results = <<>>
    BY <2>1 DEF ResultsInv
  <2>3. (analyze(query, Head(parts')) \ subs') \ {cur'} = {}
    BY <2>1
  <2> QED
    BY <1>a, <1>b, <2>1, <2>2, <2>3
<1>2. ASSUME NEW s \in subs, StartSub(s) PROVE ResultsInv'
  <2>1. /\ query' = query /\ input' = input /\ results' = results /\ pc' = "run" /\ pc = "run"
        /\ subs' = subs \ {s} /\ cur = NoSub /\ cur' = s /\ parts' = parts
    BY <1>2 DEF StartSub
  <2>2. \A t \in all : t # NoSub
    BY <1>0, AnalyzedOnce
  <2>3. FinishedSubs(n, results, (all \ subs) \ {cur})
    BY <2>1 DEF ResultsInv
  <2>4. (all \ subs') \ {cur'} \subseteq (all \ subs) \ {cur}
    BY <2>1, <2>2
  <2>5. FinishedSubs(n, results, (all \ subs') \ {cur'})
    BY <2>3, <2>4 DEF FinishedSubs
  <2> HIDE DEF all
  <2>6. FinishedSubs(Head(parts'), results', (analyze(query, Head(parts')) \ subs') \ {cur'})
    BY <2>1, <2>5 DEF all
  <2> QED
    BY <1>a, <2>1, <2>6
<1>3. ASSUME UNCHANGED <<query, input, pc, parts, subs, cur, results>> PROVE ResultsInv'
  BY <1>3, FinishedSame DEF ResultsInv
<1>4. ASSUME NEW t, GetLocal(t) \/ Reduce(t) PROVE ResultsInv'
  BY <1>3, <1>4 DEF GetLocal, Reduce
<1>5. CASE Merge
  <2>1. PICK order \in SetToSeqs(DOMAIN tls) :
            LET maps == IF order = <<>> THEN <<Instance(Head(parts), cur)>>
                        ELSE [i \in DOMAIN order |-> tls[order[i]]]
            IN results' = Append(results, MergeAll(cur, maps))
    BY <1>5 DEF Merge
  <2> DEFINE maps == IF order = <<>> THEN <<Instance(Head(parts), cur)>>
                     ELSE [i \in DOMAIN order |-> tls[order[i]]]
             map == MergeAll(cur, maps)
  <2>2. results' = Append(results, map)
    BY <2>1
  <2>3. /\ query' = query /\ input' = input /\ cur # NoSub /\ pending = {} /\ cur' = NoSub
        /\ subs' = subs /\ parts' = parts /\ pc' \in {"run", "scan"}
        /\ pc' = "scan" => subs = {}
    BY <1>5 DEF Merge
  <2>4. pc = "run"
    BY <1>0, <2>3 DEF PartsInv
  <2> HIDE DEF maps
  <2>5. Finished(n, cur, map) /\ cur \in all
    BY <2>3, MergeFinishes DEF maps
  <2> HIDE DEF map
  <2>6. FinishedSubs(n, results, (all \ subs) \ {cur})
    BY <2>4 DEF ResultsInv
  <2> HIDE DEF all, n
  <2>7. map \in StateMaps(n)
    BY <2>5, FinishedIsMap DEF all
  <2>8. results \in Seq(StateMaps(n))
    BY <2>6 DEF FinishedSubs
  <2>9. /\ results' \in Seq(StateMaps(n))
        /\ DOMAIN results' = DOMAIN results \cup {Len(results) + 1}
        /\ results'[Len(results) + 1] = map
        /\ \A i \in DOMAIN results : results'[i] = results[i]
    BY <2>2, <2>7, <2>8
  <2>10. FinishedSubs(n, results', (all \ subs) \ {NoSub})
    BY <2>5, <2>6, <2>9 DEF FinishedSubs, all
  <2> QED
    BY <1>a, <2>3, <2>10 DEF all, n
<1>6. CASE Scan
  <2>1. /\ query' = query /\ input' = input /\ results' = <<>> /\ parts' = Tail(parts)
        /\ IF Tail(parts) = <<>> THEN pc' = "done" /\ subs' = {}
           ELSE pc' = "run" /\ subs' = analyze(query, Head(Tail(parts)))
    BY <1>6 DEF Scan
  <2>2. pc' = "run" => (analyze(query, Head(parts')) \ subs') \ {cur'} = {}
    BY <2>1
  <2> QED
    BY <1>a, <1>b, <2>1, <2>2
<1>7. CASE UNCHANGED vars
  BY <1>3, <1>7 DEF vars
<1> QED
  BY <1>1, <1>2, <1>4, <1>5, <1>6, <1>7 DEF Next

\* What is scanned: the merged state of every sub-aggregation.
LEMMA ScanFacts ==
    ASSUME AggregationInv, ResultsInv, Scan
    PROVE  /\ parts # <<>> /\ cur = NoSub
           /\ FinishedSubs(Head(parts), results, analyze(query, Head(parts)))
           /\ results = <<>> <=> DOMAIN query.aggs = {}
<1>1. PartsInv /\ InputFacts /\ query \in Queries
  BY DEF AggregationInv, InputFacts
<1>2. pc \in {"run", "scan"} /\ (pc = "scan" \/ (cur = NoSub /\ subs = {}))
  BY DEF Scan
<1>3. cur = NoSub /\ subs = {} /\ parts # <<>>
  BY <1>1, <1>2 DEF PartsInv, ResultsInv
<1> DEFINE n == Head(parts)
           all == analyze(query, n)
<1>4. FinishedSubs(n, results, (all \ subs) \ {cur})
  BY <1>2 DEF ResultsInv
<1>5. (all \ subs) \ {cur} = all
  BY <1>1, <1>3, AnalyzedOnce
<1>6. FinishedSubs(n, results, all)
  BY <1>4, <1>5
<1>7. all = {} <=> DOMAIN query.aggs = {}
  BY <1>1, AnalyzedOnce, RewrittenNames
<1>8. results = <<>> <=> all = {}
  <2> HIDE DEF all, n
  <2>1. results \in Seq(StateMaps(n)) /\ (results = <<>> <=> DOMAIN results = {})
    BY <1>6 DEF FinishedSubs
  <2> QED
    BY <1>6, <2>1 DEF FinishedSubs, all
<1> QED
  BY <1>3, <1>6, <1>7, <1>8

----------------------------------------------------------------------------
(* The rows of a group and the tuples of its sub-aggregations *)

Matched(f, J, K) ==
    /\ f = [j \in J |-> f[j]] /\ (\A j \in J : f[j] \in K)
    /\ \A i, j \in J : f[i] = f[j] => i = j
    /\ \A k \in K : \E j \in J : f[j] = k

\* A sum may be taken over the elements another set is matched with.
LEMMA SumMatched ==
    ASSUME NEW f, NEW J, NEW K, Matched(f, J, K), NEW v, NEW w, Numbers(v, J),
           \A j \in J : v[j] = w[f[j]]
    PROVE  Sum(v, J) = Sum(w, K)
<1> DEFINE Im(s) == {f[j] : j \in s}
           Bad == {s \in SUBSET J : Sum(v, s) # Sum(w, Im(s))}
<1>1. Im(J) = K
  BY DEF Matched
<1>2. SUFFICES ASSUME Bad # {} PROVE FALSE
  <2>1. Bad = {} => Sum(v, J) = Sum(w, Im(J))
    OBVIOUS
  <2> QED
    BY <1>1, <2>1
<1>3. PICK s \in Bad : \A t \in SUBSET s : t # s => t \notin Bad
  <2>1. Bad \subseteq SUBSET J
    OBVIOUS
  <2> HIDE DEF Bad
  <2> QED
    BY <1>2, <2>1, SmallestSet DEF Numbers
<1>4. s \in SUBSET J /\ Sum(v, s) # Sum(w, Im(s))
  BY <1>3
<1>5. Numbers(v, s) /\ Numbers(w, Im(s))
  <2>1. Numbers(v, s)
    BY <1>4, NumbersSubset
  <2>2. IsFiniteSet(Im(s))
    <3> DEFINE h == [j \in s |-> f[j]]
    <3>1. h \in Surjection(s, Im(s))
      BY DEF Surjection
    <3> QED
      BY <2>1, <3>1, FS_Surjection DEF Numbers
  <2>3. \A y \in Im(s) : w[y] \in Int
    BY <1>4 DEF Numbers
  <2> QED
    BY <2>1, <2>2, <2>3 DEF Numbers
<1>6. s # {}
  <2>1. ASSUME s = {} PROVE FALSE
    <3>1. Im(s) = {}
      BY <2>1
    <3> HIDE DEF Im
    <3>2. Sum(v, s) = 0 /\ Sum(w, Im(s)) = 0
      BY <1>5, <2>1, <3>1, SumStep
    <3> QED
      BY <1>4, <3>2
  <2> QED
    BY <2>1
<1>7. PICK x \in s : TRUE
  BY <1>6
<1>8. Im(s \ {x}) = Im(s) \ {f[x]} /\ f[x] \in Im(s) /\ v[x] = w[f[x]]
  BY <1>4, <1>7 DEF Matched
<1>9. Sum(v, s \ {x}) = Sum(w, Im(s \ {x}))
  <2>1. s \ {x} \in SUBSET s /\ s \ {x} # s /\ s \ {x} \in SUBSET J
    BY <1>4, <1>7
  <2>2. s \ {x} \notin Bad
    BY <1>3, <2>1
  <2> QED
    BY <2>1, <2>2
<1> HIDE DEF Im
<1>10. Sum(v, s) = Sum(v, s \ {x}) + v[x]
  BY <1>5, <1>7, SumRemove
<1>11. Sum(w, Im(s)) = Sum(w, Im(s) \ {f[x]}) + w[f[x]]
  BY <1>5, <1>8, SumRemove
<1> QED
  BY <1>4, <1>8, <1>9, <1>10, <1>11

LEMMA SizeMatched ==
    ASSUME NEW f, NEW J, NEW K, Matched(f, J, K), IsFiniteSet(J)
    PROVE  IsFiniteSet(K) /\ Cardinality(J) = Cardinality(K)
<1>1. f \in Bijection(J, K)
  BY DEF Matched, Bijection, Injection, Surjection, IsInjective
<1> QED
  BY <1>1, FS_Bijection DEF ExistsBijection

\* A match of the elements on which a condition agrees.
LEMMA MatchedPart ==
    ASSUME NEW f, NEW J, NEW K, Matched(f, J, K), NEW J1 \in SUBSET J, NEW K1 \in SUBSET K,
           \A j \in J : j \in J1 <=> f[j] \in K1
    PROVE  Matched([j \in J1 |-> f[j]], J1, K1)
BY DEF Matched

RowTuple(n, d, i) == [key |-> KeyOf(query, n, input[i]), x |-> input[i].x, pos |-> IF d THEN 0 ELSE i]

\* The rows that DISTINCT leaves of a set of rows.
Kept(I, d) == IF d THEN {i \in I : \A k \in I : input[k].x = input[i].x => i <= k} ELSE I

LEMMA TuplesOfRows == \A n, d : TuplesOf(n, d) = {RowTuple(n, d, i) : i \in DOMAIN input}
BY DEF TuplesOf, InputOf, RowTuple

LEMMA RowsOfGroup ==
    ASSUME InputFacts, NEW n, NEW d \in BOOLEAN, NEW key,
           NEW I, I = GroupRows(n, key), NEW T, T = Group(TuplesOf(n, d), key)
    PROVE  /\ I \subseteq DOMAIN input /\ IsFiniteSet(I)
           /\ {t.x : t \in T} = {input[i].x : i \in I} /\ (T = {} <=> I = {})
           /\ Kept(I, d) \subseteq I
           /\ \E f : Matched(f, Kept(I, d), T) /\ \A i \in Kept(I, d) : f[i].x = input[i].x
<1> DEFINE D == Kept(I, d)
           f == [i \in D |-> RowTuple(n, d, i)]
<1>1. DOMAIN input = 1 .. Len(input) /\ Len(input) \in Nat
  BY TablesAssumption DEF InputFacts
<1>2. I \subseteq DOMAIN input /\ I \subseteq Nat /\ IsFiniteSet(I)
  <2>1. I \subseteq DOMAIN input
    BY DEF GroupRows
  <2>2. IsFiniteSet(1 .. Len(input))
    BY <1>1, FS_Interval
  <2> QED
    BY <1>1, <2>1, <2>2, FS_Subset
<1>3. D \subseteq I
  BY DEF Kept
<1>4. \A i : (RowTuple(n, d, i)).x = input[i].x /\ (RowTuple(n, d, i)).key = KeyOf(query, n, input[i])
             /\ (RowTuple(n, d, i)).pos = IF d THEN 0 ELSE i
  BY DEF RowTuple
<1>5. \A i \in I : i \in DOMAIN input /\ KeyOf(query, n, input[i]) = key
  BY DEF GroupRows
<1>6. \A i \in I : RowTuple(n, d, i) \in T
  BY <1>4, <1>5, TuplesOfRows DEF Group
<1>7. ASSUME NEW t \in T PROVE \E i \in I : t = RowTuple(n, d, i)
  <2>1. t \in TuplesOf(n, d) /\ t.key = key
    BY DEF Group
  <2>2. PICK i \in DOMAIN input : t = RowTuple(n, d, i)
    BY <2>1, TuplesOfRows
  <2>3. i \in I
    BY <1>4, <2>1, <2>2 DEF GroupRows
  <2> QED
    BY <2>2, <2>3
<1>8. ASSUME NEW i \in I PROVE \E m \in D : RowTuple(n, d, m) = RowTuple(n, d, i)
  <2>1. CASE ~d
    BY <2>1 DEF Kept
  <2>2. CASE d
    <3> DEFINE S == {k \in I : input[k].x = input[i].x}
    <3>1. S \subseteq Nat /\ S # {}
      BY <1>2
    <3>2. PICK m \in S : \A k \in S : m <= k
      <4> HIDE DEF S
      <4> QED
        BY <3>1, LeastNat
    <3>3. m \in D
      BY <2>2, <3>2 DEF Kept
    <3>4. RowTuple(n, d, m) = RowTuple(n, d, i)
      BY <1>5, <2>2, <3>2 DEF RowTuple
    <3> QED
      BY <3>3, <3>4
  <2> QED
    BY <2>1, <2>2
<1>9. ASSUME NEW i \in D, NEW j \in D, RowTuple(n, d, i) = RowTuple(n, d, j) PROVE i = j
  <2>1. i \in Nat /\ j \in Nat /\ i \in I /\ j \in I
    BY <1>2, <1>3
  <2>2. CASE ~d
    BY <1>4, <1>9, <2>2
  <2>3. CASE d
    <3>1. input[i].x = input[j].x
      BY <1>4, <1>9
    <3>2. i <= j /\ j <= i
      BY <2>1, <2>3, <3>1 DEF Kept
    <3> QED
      BY <2>1, <3>2
  <2> QED
    BY <2>2, <2>3
<1>10. {t.x : t \in T} = {input[i].x : i \in I} /\ (T = {} <=> I = {})
  BY <1>4, <1>6, <1>7
<1> HIDE DEF D
<1>11. /\ f = [i \in D |-> f[i]] /\ \A i \in D : f[i] = RowTuple(n, d, i)
  OBVIOUS
<1> HIDE DEF f
<1>12. Matched(f, D, T)
  <2>1. \A i \in D : f[i] \in T
    BY <1>3, <1>6, <1>11
  <2>2. \A i, j \in D : f[i] = f[j] => i = j
    BY <1>9, <1>11
  <2>3. \A t \in T : \E i \in D : f[i] = t
    BY <1>7, <1>8, <1>11
  <2> QED
    BY <1>11, <2>1, <2>2, <2>3 DEF Matched
<1>13. \A i \in D : f[i].x = input[i].x
  BY <1>4, <1>11
<1> QED
  BY <1>2, <1>3, <1>10, <1>12, <1>13 DEF D
----------------------------------------------------------------------------
(* The value of an aggregate over the rows of a group *)

\* The property's operators over the rows of a group.
RowAnswers(agg, I, val) == IsAggregate(agg, I, LAMBDA i : input[i].x, val)
RowNulls(agg, I) == SumOfNulls(agg, I, LAMBDA i : input[i].x)
RowBelow(agg, n, I) == MaxBelowDefault(agg, n, I, LAMBDA i : input[i].x)

\* A column or its square, as a function of the row.
Xs(J) == [i \in J |-> input[i].x]
Squares(J) == [i \in J |-> input[i].x * input[i].x]

LEMMA RowTotals ==
    ASSUME NEW J
    PROVE  /\ TotalOf(J, LAMBDA i : input[i].x) = Sum(Xs(J), J)
           /\ TotalOf(J, LAMBDA i : input[i].x * input[i].x) = Sum(Squares(J), J)
<1>1. TotalOf(J, LAMBDA i : input[i].x) = Sum(Xs(J), J)
  <2> DEFINE f == Xs(J)
             Body(g) == [s \in SUBSET J |-> IF s = {} THEN 0 ELSE g[s \ {Some(s)}] + input[Some(s)].x]
  <2>1. TotalOf(J, LAMBDA i : input[i].x) = (CHOOSE g : g = Body(g))[J]
    BY DEF TotalOf, FoldSet, MapThenFoldSet, Some
  <2>2. ASSUME NEW g PROVE g = Body(g) <=> IsSums(g, f, J)
    <3>1. ASSUME NEW s \in SUBSET J
          PROVE  (IF s = {} THEN 0 ELSE g[s \ {Some(s)}] + input[Some(s)].x) = (IF s = {} THEN 0 ELSE g[s \ {Some(s)}] + f[Some(s)])
      BY SomeIn DEF Xs
    <3>2. Body(g) = [s \in SUBSET J |-> IF s = {} THEN 0 ELSE g[s \ {Some(s)}] + f[Some(s)]]
      BY <3>1
    <3> QED
      BY <3>2 DEF IsSums
  <2> HIDE DEF f, Body
  <2>3. (CHOOSE g : g = Body(g)) = (CHOOSE g : IsSums(g, f, J))
    BY <2>2
  <2> QED
    BY <2>1, <2>3 DEF Sum, f
<1>2. TotalOf(J, LAMBDA i : input[i].x * input[i].x) = Sum(Squares(J), J)
  <2> DEFINE f == Squares(J)
             Body(g) == [s \in SUBSET J |-> IF s = {} THEN 0 ELSE g[s \ {Some(s)}] + input[Some(s)].x * input[Some(s)].x]
  <2>1. TotalOf(J, LAMBDA i : input[i].x * input[i].x) = (CHOOSE g : g = Body(g))[J]
    BY DEF TotalOf, FoldSet, MapThenFoldSet, Some
  <2>2. ASSUME NEW g PROVE g = Body(g) <=> IsSums(g, f, J)
    <3>1. ASSUME NEW s \in SUBSET J
          PROVE  (IF s = {} THEN 0 ELSE g[s \ {Some(s)}] + input[Some(s)].x * input[Some(s)].x) = (IF s = {} THEN 0 ELSE g[s \ {Some(s)}] + f[Some(s)])
      BY SomeIn DEF Squares
    <3>2. Body(g) = [s \in SUBSET J |-> IF s = {} THEN 0 ELSE g[s \ {Some(s)}] + f[Some(s)]]
      BY <3>1
    <3> QED
      BY <3>2 DEF IsSums
  <2> HIDE DEF f, Body
  <2>3. (CHOOSE g : g = Body(g)) = (CHOOSE g : IsSums(g, f, J))
    BY <2>2
  <2> QED
    BY <2>1, <2>3 DEF Sum, f
<1> QED
  BY <1>1, <1>2

\* What SQL asks of an aggregate, over the rows that DISTINCT leaves.
RowValue(agg, I, val) ==
    LET D == Kept(I, agg.distinct)
        J == {i \in D : input[i].x # Null}
        n == Cardinality(J)
        sum == Sum(Xs(J), J)
        squares == Sum(Squares(J), J)
    IN  /\ agg.fn = "count*" => val = Cardinality(I)
        /\ agg.fn = "count" => val = n
        /\ agg.fn = "any" => \E i \in I : val = input[i].x
        /\ agg.fn = "array_agg" => \A v : Cardinality({i \in D : input[i].x = v}) = Cardinality({k \in DOMAIN val : val[k] = v})
        /\ agg.fn = "sum" => val = IF J = {} THEN Null ELSE sum
        /\ agg.fn = "avg" => val = IF J = {} THEN Null ELSE [num |-> sum, den |-> n]
        /\ agg.fn = "stddev_samp" => val = IF J = {} \/ n = 1 THEN Null
                                           ELSE [num |-> n * squares - sum * sum, den |-> n * (n - 1)]
        /\ agg.fn = "min" => IF J = {} THEN val = Null
                             ELSE val \in {input[i].x : i \in J} /\ \A i \in J : val <= input[i].x
        /\ agg.fn = "max" => IF J = {} THEN val = Null
                             ELSE val \in {input[i].x : i \in J} /\ \A i \in J : val >= input[i].x

QueryFns == {"count*", "count", "sum", "avg", "stddev_samp", "min", "max", "any", "array_agg"}

LEMMA RowValueAnswers ==
    ASSUME NEW agg, agg.fn \in QueryFns, NEW I, NEW val, RowValue(agg, I, val)
    PROVE  RowAnswers(agg, I, val)
<1> DEFINE D == Kept(I, agg.distinct)
           J == {i \in D : input[i].x # Null}
           n == Cardinality(J)
<1>1. (IF agg.distinct THEN {i \in I : \A k \in I : input[k].x = input[i].x => i <= k} ELSE I) = D
  BY DEF Kept
<1>2. /\ TotalOf(J, LAMBDA i : input[i].x) = Sum(Xs(J), J)
      /\ TotalOf(J, LAMBDA i : input[i].x * input[i].x) = Sum(Squares(J), J)
  BY RowTotals
<1> SUFFICES IsAggregate(agg, I, LAMBDA i : input[i].x, val)
  BY DEF RowAnswers
<1> HIDE DEF D
<1>3. CASE agg.fn = "count*"
  BY <1>3 DEF IsAggregate, RowValue
<1>4. CASE agg.fn = "count"
  BY <1>1, <1>4 DEF IsAggregate, RowValue, D
<1>5. CASE agg.fn = "any"
  BY <1>5 DEF IsAggregate, RowValue
<1>6. CASE agg.fn = "array_agg"
  <2>1. \A v : Cardinality({i \in D : input[i].x = v}) = Cardinality({k \in DOMAIN val : val[k] = v})
    BY <1>6 DEF RowValue, D
  <2> QED
    BY <1>1, <1>6, <2>1 DEF IsAggregate
<1>7. CASE agg.fn = "sum"
  <2>1. val = IF J = {} THEN Null ELSE TotalOf(J, LAMBDA i : input[i].x)
    BY <1>2, <1>7 DEF RowValue, D
  <2> QED
    BY <1>1, <1>7, <2>1 DEF IsAggregate
<1>8. CASE agg.fn = "avg"
  <2>1. val = IF J = {} THEN Null ELSE [num |-> TotalOf(J, LAMBDA i : input[i].x), den |-> n]
    BY <1>2, <1>8 DEF RowValue, D
  <2> QED
    BY <1>1, <1>8, <2>1 DEF IsAggregate
<1>9. CASE agg.fn = "stddev_samp"
  <2> DEFINE sum == TotalOf(J, LAMBDA i : input[i].x)
             squares == TotalOf(J, LAMBDA i : input[i].x * input[i].x)
  <2>1. val = IF J = {} \/ n = 1 THEN Null ELSE [num |-> n * squares - sum * sum, den |-> n * (n - 1)]
    BY <1>2, <1>9 DEF RowValue, D
  <2> QED
    BY <1>1, <1>9, <2>1 DEF IsAggregate
<1>10. CASE agg.fn = "min"
  <2>1. IF J = {} THEN val = Null
        ELSE val \in {input[i].x : i \in J} /\ \A i \in J : val <= input[i].x
    BY <1>10 DEF RowValue, D
  <2> QED
    BY <1>1, <1>10, <2>1 DEF IsAggregate
<1>11. CASE agg.fn = "max"
  <2>1. IF J = {} THEN val = Null
        ELSE val \in {input[i].x : i \in J} /\ \A i \in J : val >= input[i].x
    BY <1>11 DEF RowValue, D
  <2> QED
    BY <1>1, <1>11, <2>1 DEF IsAggregate
<1> QED
  BY <1>3, <1>4, <1>5, <1>6, <1>7, <1>8, <1>9, <1>10, <1>11 DEF QueryFns

LEMMA RowColumn ==
    ASSUME InputFacts, NEW i \in DOMAIN input
    PROVE  /\ input[i].x \in Int \cup {Null}
           /\ input[i].x # Null => input[i].x \in Int
           /\ ~query.nullable => input[i].x # Null
BY TablesAssumption, NullAssumption DEF InputFacts

LEMMA ArgIs ==
    ASSUME NEW p, p.arg \in {"x", "x2"}, NEW t, t.x \in Int \cup {Null}
    PROVE  /\ Arg(p, t) # Null <=> t.x # Null
           /\ p.arg = "x" => Arg(p, t) = t.x
           /\ p.arg = "x2" /\ t.x # Null => Arg(p, t) = t.x * t.x
<1>1. t.x # Null => t.x \in Int /\ t.x * t.x \in Int
  OBVIOUS
<1>2. t.x \in Int /\ t.x * t.x \in Int => t.x * t.x # Null /\ t.x # Null
  BY NullAssumption
<1> QED
  BY <1>1, <1>2 DEF Arg, MulOp, IsNull

\* What a function's arguments over the tuples of a group are over its rows.
ArgsMatch(p, T, I, d, D, J) ==
    /\ Cardinality(Known(p, T)) = Cardinality(J) /\ (Known(p, T) = {} <=> J = {})
    /\ IsFiniteSet(J) /\ Cardinality(J) \in Nat
    /\ Sum(Xs(J), J) \in Int /\ Sum(Squares(J), J) \in Int
    /\ p.arg = "x" => /\ SumOf(p, Known(p, T)) = Sum(Xs(J), J)
                      /\ ArgsOf(p, T) = {input[i].x : i \in I}
                      /\ ArgsOf(p, Known(p, T)) = {input[i].x : i \in J}
                      /\ \A v : Cardinality({t \in T : Arg(p, t) = v}) = Cardinality({i \in D : input[i].x = v})
    /\ p.arg = "x2" => SumOf(p, Known(p, T)) = Sum(Squares(J), J)
    /\ ~d => Cardinality(T) = Cardinality(I)
    /\ T = {} <=> I = {}
    /\ {t.x : t \in T} = {input[i].x : i \in I}

LEMMA PrimOfRows ==
    ASSUME InputFacts, NEW n, NEW d \in BOOLEAN, NEW key,
           NEW I, I = GroupRows(n, key), NEW T, T = Group(TuplesOf(n, d), key),
           NEW D, D = Kept(I, d), NEW J, J = {i \in D : input[i].x # Null},
           NEW p, p.arg \in {"x", "x2"}
    PROVE  ArgsMatch(p, T, I, d, D, J)
<1>1. /\ I \subseteq DOMAIN input /\ IsFiniteSet(I)
      /\ {t.x : t \in T} = {input[i].x : i \in I} /\ (T = {} <=> I = {})
      /\ D \subseteq I
      /\ \E f : Matched(f, D, T) /\ \A i \in D : f[i].x = input[i].x
  BY RowsOfGroup
<1>2. PICK f : Matched(f, D, T) /\ \A i \in D : f[i].x = input[i].x
  BY <1>1
<1>3. \A i \in D : i \in DOMAIN input /\ f[i] \in T /\ (input[i].x # Null => input[i].x \in Int)
                   /\ input[i].x \in Int \cup {Null}
  <2>1. \A i \in D : i \in DOMAIN input /\ f[i] \in T
    BY <1>1, <1>2 DEF Matched
  <2> QED
    BY <2>1, RowColumn
<1>4. \A t \in T : t.x \in Int \cup {Null}
  <2>1. \A t \in T : \E i \in D : f[i] = t
    BY <1>2 DEF Matched
  <2> QED
    BY <1>2, <1>3, <2>1
<1>5. ASSUME NEW t \in T
      PROVE  /\ Arg(p, t) # Null <=> t.x # Null
             /\ p.arg = "x" => Arg(p, t) = t.x
             /\ p.arg = "x2" /\ t.x # Null => Arg(p, t) = t.x * t.x
  BY <1>4, ArgIs
<1> DEFINE K == Known(p, T)
           g == [i \in J |-> f[i]]
<1>6. K = {t \in T : t.x # Null} /\ K \subseteq T
  BY <1>5 DEF Known
<1>7. IsFiniteSet(D) /\ IsFiniteSet(J) /\ J \subseteq D
  <2>1. J \subseteq D
    OBVIOUS
  <2> QED
    BY <1>1, <2>1, FS_Subset
<1>8. Matched(g, J, K)
  <2>1. \A i \in D : i \in J <=> f[i] \in K
    BY <1>2, <1>3, <1>6
  <2> QED
    BY <1>2, <1>6, <1>7, <2>1, MatchedPart
<1>9. Cardinality(K) = Cardinality(J) /\ (K = {} <=> J = {})
  <2> HIDE DEF K, g
  <2>1. Cardinality(K) = Cardinality(J)
    BY <1>7, <1>8, SizeMatched
  <2>2. K = {} <=> J = {}
    BY <1>8 DEF Matched
  <2> QED
    BY <2>1, <2>2
<1>10. Cardinality(J) \in Nat
  BY <1>7, FS_CardinalityType
<1>11. \A i \in J : g[i] \in K /\ g[i] \in T /\ (g[i]).x = input[i].x /\ input[i].x \in Int
  <2>1. \A i \in J : g[i] = f[i] /\ i \in D /\ input[i].x # Null
    BY <1>7
  <2>2. \A i \in J : g[i] \in K
    BY <1>8 DEF Matched
  <2> HIDE DEF g, K
  <2> QED
    BY <1>2, <1>3, <1>6, <2>1, <2>2
<1> HIDE DEF g
<1>12. Numbers(Xs(J), J) /\ Numbers(Squares(J), J)
  BY <1>7, <1>11 DEF Numbers, Xs, Squares
<1>13. Sum(Xs(J), J) \in Int /\ Sum(Squares(J), J) \in Int
  BY <1>12, SumStep
<1> HIDE DEF K
<1>14. ASSUME p.arg = "x" PROVE SumOf(p, K) = Sum(Xs(J), J)
  <2> DEFINE w == [t \in K |-> Arg(p, t)]
  <2>1. \A i \in J : Xs(J)[i] = w[g[i]]
    BY <1>5, <1>11, <1>14 DEF Xs
  <2>2. SumOf(p, K) = Sum(w, K)
    BY DEF SumOf
  <2> DEFINE v == Xs(J)
  <2> HIDE DEF v, w
  <2>3. Numbers(v, J) /\ \A i \in J : v[i] = w[g[i]]
    BY <1>12, <2>1 DEF v
  <2>4. Sum(v, J) = Sum(w, K)
    BY <1>8, <2>3, SumMatched
  <2> QED
    BY <2>2, <2>4 DEF v
<1>15. ASSUME p.arg = "x2" PROVE SumOf(p, K) = Sum(Squares(J), J)
  <2> DEFINE w == [t \in K |-> Arg(p, t)]
  <2>0. \A i \in J : Arg(p, g[i]) = input[i].x * input[i].x
    <3>1. \A i \in J : g[i] \in T /\ (g[i]).x # Null
      BY <1>6, <1>11
    <3> QED
      BY <1>5, <1>11, <1>15, <3>1
  <2>1. \A i \in J : Squares(J)[i] = w[g[i]]
    BY <1>11, <2>0 DEF Squares
  <2>2. SumOf(p, K) = Sum(w, K)
    BY DEF SumOf
  <2> DEFINE v == Squares(J)
  <2> HIDE DEF v, w
  <2>3. Numbers(v, J) /\ \A i \in J : v[i] = w[g[i]]
    BY <1>12, <2>1 DEF v
  <2>4. Sum(v, J) = Sum(w, K)
    BY <1>8, <2>3, SumMatched
  <2> QED
    BY <2>2, <2>4 DEF v
<1>16. ASSUME p.arg = "x"
       PROVE  /\ ArgsOf(p, T) = {input[i].x : i \in I}
              /\ ArgsOf(p, K) = {input[i].x : i \in J}
  <2>1. ArgsOf(p, T) = {t.x : t \in T}
    BY <1>5, <1>16 DEF ArgsOf
  <2>2. \A t \in K : t \in T /\ Arg(p, t) = t.x /\ \E i \in J : t = g[i]
    BY <1>5, <1>6, <1>8, <1>16 DEF Matched
  <2>3. ArgsOf(p, K) = {t.x : t \in K}
    BY <2>2 DEF ArgsOf
  <2>4. {t.x : t \in K} = {input[i].x : i \in J}
    BY <1>11, <2>2
  <2> QED
    BY <1>1, <2>1, <2>3, <2>4
<1>17. ASSUME p.arg = "x", NEW v PROVE Cardinality({t \in T : Arg(p, t) = v}) = Cardinality({i \in D : input[i].x = v})
  <2> DEFINE J1 == {i \in D : input[i].x = v}
             K1 == {t \in T : Arg(p, t) = v}
             h == [i \in J1 |-> f[i]]
  <2>1. J1 \subseteq D /\ K1 \subseteq T /\ \A i \in D : i \in J1 <=> f[i] \in K1
    BY <1>2, <1>3, <1>5, <1>17
  <2>2. IsFiniteSet(J1)
    BY <1>7, <2>1, FS_Subset
  <2> HIDE DEF J1, K1
  <2>3. Matched(h, J1, K1)
    BY <1>2, <2>1, MatchedPart
  <2> QED
    BY <2>2, <2>3, SizeMatched DEF J1, K1
<1>18. ~d => Cardinality(T) = Cardinality(I)
  <2>1. ~d => D = I
    BY DEF Kept
  <2>2. Cardinality(D) = Cardinality(T)
    BY <1>2, <1>7, SizeMatched
  <2> QED
    BY <2>1, <2>2
<1> QED
  BY <1>1, <1>7, <1>9, <1>10, <1>13, <1>14, <1>15, <1>16, <1>17, <1>18 DEF ArgsMatch, K

\* A state of all functions of a grouping set over the tuples of a group.
FinalFacts(n, key, state) ==
    /\ DOMAIN state = UNION {Rewritten(n, a) : a \in DOMAIN query.aggs}
    /\ \A p \in DOMAIN state : IsState(p, Group(TuplesOf(n, query.aggs[p.agg].distinct), key), state[p])

Negative(p, I) == \A t \in I : Arg(p, t) < 0

LEMMA PrimValue ==
    ASSUME InputFacts, NEW n \in Nat, n = Len(query.keys) \/ query.rollup,
           NEW a \in DOMAIN query.aggs, NEW key \in Groups(n), NEW p \in Rewritten(n, a),
           NEW T, T = Group(TuplesOf(n, query.aggs[a].distinct), key), NEW v, IsState(p, T, v)
    PROVE  /\ PrimFacts(query, n, p)
           /\ \/ p.fn = "sum" /\ T # {} /\ Known(p, T) = {}
              \/ p.fn = "max" /\ ~query.nullable /\ n > 0 /\ Negative(p, T)
              \/ Value(p, T, v)
<1> DEFINE d == query.aggs[a].distinct
<1>0. query \in Queries /\ d \in BOOLEAN
  BY QueriesAssumption DEF InputFacts
<1>1. PrimFacts(query, n, p)
  BY <1>0, RewrittenFacts DEF Rewritten
<1>2. PICK s \in analyze(query, n) : p \in s.prims /\ s.distinct = d
  <2>1. \E s \in analyze(query, n) : p \in s.prims
    BY <1>0, AnalyzedOnce
  <2>2. p.agg = a
    BY RewrittenNames
  <2>3. \A s \in analyze(query, n) : p \in s.prims => s.distinct = query.aggs[p.agg].distinct
    BY <1>0, AnalyzedOnce
  <2> QED
    BY <2>1, <2>2, <2>3
<1>3. SubFacts(n, s, TuplesOf(n, d))
  BY <1>2, SubInputFacts, TuplesOfSub
<1>4. ArgFacts(p, T)
  <2>1. T \in SUBSET TuplesOf(n, d)
    BY DEF Group
  <2> QED
    BY <1>2, <1>3, <2>1, SubFactsSubset
<1>5. n > 0 => T # {}
  <2>1. key \in KeysOf(n, TuplesOf(n, d))
    BY SameGroups
  <2> QED
    BY <2>1 DEF KeysOf, Group
<1>6. FnFacts(p, n, T)
  BY <1>1, <1>5 DEF FnFacts, PrimFacts
<1> QED
  BY <1>1, <1>4, <1>6, StateIsValue DEF Negative

\* The function of a role.
LEMMA RoleValue ==
    ASSUME NEW n, NEW key, NEW state, FinalFacts(n, key, state), NEW a \in DOMAIN query.aggs,
           NEW p \in Rewritten(n, a), \A q \in Rewritten(n, a) : q.role = p.role => q = p
    PROVE  /\ p \in DOMAIN state
           /\ state[CHOOSE q \in DOMAIN state : q.agg = a /\ q.role = p.role] = state[p]
           /\ IsState(p, Group(TuplesOf(n, query.aggs[a].distinct), key), state[p])
<1>1. p \in DOMAIN state /\ p.agg = a
  BY RewrittenNames DEF FinalFacts
<1>2. ASSUME NEW q \in DOMAIN state, q.agg = a, q.role = p.role PROVE q = p
  <2>1. PICK b \in DOMAIN query.aggs : q \in Rewritten(n, b)
    BY DEF FinalFacts
  <2>2. b = a
    BY <1>2, <2>1, RewrittenNames
  <2> QED
    BY <1>2, <2>1, <2>2
<1>3. (CHOOSE q \in DOMAIN state : q.agg = a /\ q.role = p.role) = p
  BY <1>1, <1>2
<1> QED
  BY <1>1, <1>3 DEF FinalFacts

LEMMA NullRows ==
    ASSUME InputFacts, NEW n \in Nat, NEW d \in BOOLEAN, NEW key,
           NEW I, I = GroupRows(n, key), NEW T, T = Group(TuplesOf(n, d), key),
           NEW p, p.arg \in {"x", "x2"}
    PROVE  /\ Known(p, T) = {} => \A i \in I : input[i].x = Null
           /\ p.arg = "x" /\ Negative(p, T) => \A i \in I : input[i].x < 0
           /\ T = {} <=> I = {}
<1> DEFINE D == Kept(I, d)
           J == {i \in D : input[i].x # Null}
<1>0. D = Kept(I, d) /\ J = {i \in D : input[i].x # Null}
  OBVIOUS
<1> HIDE DEF D, J
<1>a. ArgsMatch(p, T, I, d, D, J)
  BY <1>0, PrimOfRows
<1>1. /\ T = {} <=> I = {}
      /\ {t.x : t \in T} = {input[i].x : i \in I}
      /\ p.arg = "x" => ArgsOf(p, T) = {input[i].x : i \in I}
  BY <1>a DEF ArgsMatch
<1>2. ASSUME Known(p, T) = {}, NEW i \in I PROVE input[i].x = Null
  <2>1. PICK t \in T : t.x = input[i].x
    BY <1>1
  <2>2. i \in DOMAIN input
    BY DEF GroupRows
  <2>3. Arg(p, t) = Null
    BY <1>2 DEF Known
  <2>4. t.x = Null
    BY <2>1, <2>2, <2>3, ArgIs, RowColumn
  <2> QED
    BY <2>1, <2>4
<1>3. ASSUME p.arg = "x", Negative(p, T), NEW i \in I PROVE input[i].x < 0
  <2>1. input[i].x \in ArgsOf(p, T)
    BY <1>1, <1>3
  <2>2. PICK t \in T : Arg(p, t) = input[i].x
    BY <2>1 DEF ArgsOf
  <2> QED
    BY <1>3, <2>2 DEF Negative
<1> QED
  BY <1>1, <1>2, <1>3

LEMMA NullsOfRows ==
    ASSUME InputFacts, NEW n \in Nat, NEW d \in BOOLEAN, NEW key,
           NEW I, I = GroupRows(n, key), NEW T, T = Group(TuplesOf(n, d), key),
           NEW agg, NEW p, p.arg \in {"x", "x2"},
           agg.fn \in {"sum", "avg", "stddev_samp"}, T # {}, Known(p, T) = {}
    PROVE  RowNulls(agg, I)
BY NullRows DEF RowNulls, SumOfNulls

LEMMA BelowOfRows ==
    ASSUME InputFacts, NEW n \in Nat, NEW d \in BOOLEAN, NEW key,
           NEW I, I = GroupRows(n, key), NEW T, T = Group(TuplesOf(n, d), key),
           NEW agg, NEW p, p.arg = "x",
           agg.fn = "max", ~query.nullable, n > 0, Negative(p, T)
    PROVE  RowBelow(agg, n, I)
<1>1. \A i \in I : input[i].x < 0
  BY NullRows
<1> QED
  BY <1>1 DEF RowBelow, MaxBelowDefault

\* The final value of an aggregate is what SQL asks of the rows of the group.
LEMMA FinalRight ==
    ASSUME InputFacts, NEW n \in Nat, n = Len(query.keys) \/ query.rollup, NEW key \in Groups(n),
           NEW state, FinalFacts(n, key, state), NEW a \in DOMAIN query.aggs,
           NEW agg, agg = query.aggs[a], NEW I, I = GroupRows(n, key)
    PROVE  \/ RowNulls(agg, I)
           \/ RowBelow(agg, n, I)
           \/ RowAnswers(agg, I, FinalValue(query, a, state))
<1> DEFINE d == agg.distinct
           fn == agg.fn
           nullable == resultNullable(query, n, fn)
           T == Group(TuplesOf(n, d), key)
           D == Kept(I, d)
           J == {i \in D : input[i].x # Null}
           N == Cardinality(J)
           val == FinalValue(query, a, state)
           v(role) == state[CHOOSE p \in DOMAIN state : p.agg = a /\ p.role = role]
<1>0. d \in BOOLEAN /\ fn \in QueryFns /\ (fn = "count*" => ~d)
  BY QueriesAssumption DEF InputFacts, QueryFns
<1>1. val = CASE fn = "avg" -> DivOp(v("sum"), v("count"))
              [] fn = "stddev_samp" -> VarSamp(v("squares"), v("sum"), v("count"))
              [] OTHER -> v("value")
  BY DEF FinalValue
<1>2. T = Group(TuplesOf(n, d), key) /\ D = Kept(I, d) /\ J = {i \in D : input[i].x # Null}
      /\ N = Cardinality(J)
  OBVIOUS
<1>3. RowValue(agg, I, val) => RowAnswers(agg, I, val)
  BY <1>0, RowValueAnswers
<1> HIDE DEF v, val, nullable
<1>4. CASE fn \notin {"avg", "stddev_samp"}
  <2> DEFINE p == Prim(a, "value", fn, "x", nullable)
  <2>1. Rewritten(n, a) = {p}
    BY <1>4 DEF Rewritten, RewriteComplexAggrFuncs, nullable
  <2>2. p.arg = "x" /\ p.fn = fn /\ p.role = "value"
    BY DEF Prim
  <2> HIDE DEF p
  <2>3. val = state[p] /\ IsState(p, T, state[p])
    <3>1. /\ state[CHOOSE q \in DOMAIN state : q.agg = a /\ q.role = p.role] = state[p]
          /\ IsState(p, Group(TuplesOf(n, query.aggs[a].distinct), key), state[p])
      BY <2>1, RoleValue
    <3>2. val = v("value")
      BY <1>1, <1>4
    <3> QED
      BY <2>2, <3>1, <3>2 DEF v
  <2> HIDE DEF D, J, N
  <2>4. ArgsMatch(p, T, I, d, D, J)
    BY <1>0, <1>2, <2>2, PrimOfRows
  <2> HIDE DEF T
  <2>5. \/ fn = "sum" /\ T # {} /\ Known(p, T) = {}
        \/ fn = "max" /\ ~query.nullable /\ n > 0 /\ Negative(p, T)
        \/ Value(p, T, val)
    BY <1>2, <2>1, <2>2, <2>3, PrimValue
  <2>6. \/ RowNulls(agg, I)
        \/ RowBelow(agg, n, I)
        \/ Value(p, T, val)
    <3>1. ASSUME fn = "sum", T # {}, Known(p, T) = {} PROVE RowNulls(agg, I)
      BY <1>0, <1>2, <2>2, <3>1, NullsOfRows
    <3>2. ASSUME fn = "max", ~query.nullable, n > 0, Negative(p, T) PROVE RowBelow(agg, n, I)
      BY <1>0, <1>2, <2>2, <3>2, BelowOfRows
    <3> QED
      BY <2>2, <2>5, <3>1, <3>2
  <2> HIDE DEF fn, d
  <2>7. ASSUME Value(p, T, val) PROVE RowValue(agg, I, val)
    <3>1. fn = "count*" => val = Cardinality(I)
      BY <1>0, <2>2, <2>4, <2>7 DEF Value, ArgsMatch
    <3>2. fn = "count" => val = Cardinality(J)
      BY <2>2, <2>4, <2>7 DEF Value, ArgsMatch
    <3>3. fn = "any" => \E i \in I : val = input[i].x
      <4>1. fn = "any" => val \in {input[i].x : i \in I}
        BY <2>2, <2>4, <2>7 DEF Value, ArgsMatch
      <4> QED
        BY <4>1
    <3>4. fn = "array_agg" => \A x : Cardinality({i \in D : input[i].x = x}) = Cardinality({k \in DOMAIN val : val[k] = x})
      <4>1. fn = "array_agg" => SameElements(p, T, val)
        BY <2>2, <2>7 DEF Value
      <4>2. \A x : Cardinality({t \in T : Arg(p, t) = x}) = Cardinality({i \in D : input[i].x = x})
        BY <2>2, <2>4 DEF ArgsMatch
      <4> QED
        BY <4>1, <4>2 DEF SameElements
    <3>5. fn = "sum" => val = IF J = {} THEN Null ELSE Sum(Xs(J), J)
      BY <2>2, <2>4, <2>7 DEF Value, ArgsMatch
    <3>6. ArgsOf(p, Known(p, T)) = {input[i].x : i \in J} /\ (Known(p, T) = {} <=> J = {})
      BY <2>2, <2>4 DEF ArgsMatch
    <3>7. fn = "min" => IF J = {} THEN val = Null
                        ELSE val \in {input[i].x : i \in J} /\ \A i \in J : val <= input[i].x
      <4>1. fn = "min" => IF J = {} THEN val = Null
                          ELSE val \in {input[i].x : i \in J} /\ \A x \in {input[i].x : i \in J} : val <= x
        BY <2>2, <2>7, <3>6 DEF Value
      <4> QED
        BY <4>1
    <3>8. fn = "max" => IF J = {} THEN val = Null
                        ELSE val \in {input[i].x : i \in J} /\ \A i \in J : val >= input[i].x
      <4>1. fn = "max" => IF J = {} THEN val = Null
                          ELSE val \in {input[i].x : i \in J} /\ \A x \in {input[i].x : i \in J} : val >= x
        BY <2>2, <2>7, <3>6 DEF Value
      <4> QED
        BY <4>1
    <3> QED
      BY <1>2, <1>4, <3>1, <3>2, <3>3, <3>4, <3>5, <3>7, <3>8 DEF RowValue, fn, d
  <2> QED
    BY <1>3, <2>6, <2>7 DEF val
<1>5. CASE fn = "avg"
  <2> DEFINE p == Prim(a, "sum", "sum", "x", nullable)
             c == Prim(a, "count", "count", "x", FALSE)
  <2>1. Rewritten(n, a) = {p, c}
    BY <1>5 DEF Rewritten, RewriteComplexAggrFuncs, nullable
  <2>2. p.arg = "x" /\ p.fn = "sum" /\ p.role = "sum" /\ c.arg = "x" /\ c.fn = "count" /\ c.role = "count"
    BY DEF Prim
  <2> HIDE DEF p, c
  <2>3. v("sum") = state[p] /\ IsState(p, T, state[p]) /\ v("count") = state[c] /\ IsState(c, T, state[c])
    <3>1. /\ state[CHOOSE q \in DOMAIN state : q.agg = a /\ q.role = p.role] = state[p]
          /\ IsState(p, Group(TuplesOf(n, query.aggs[a].distinct), key), state[p])
      BY <2>1, <2>2, RoleValue
    <3>2. /\ state[CHOOSE q \in DOMAIN state : q.agg = a /\ q.role = c.role] = state[c]
          /\ IsState(c, Group(TuplesOf(n, query.aggs[a].distinct), key), state[c])
      BY <2>1, <2>2, RoleValue
    <3> QED
      BY <2>2, <3>1, <3>2 DEF v
  <2>4. val = DivOp(state[p], state[c])
    BY <1>1, <1>5, <2>3
  <2> HIDE DEF D, J, N
  <2>5. ArgsMatch(p, T, I, d, D, J) /\ ArgsMatch(c, T, I, d, D, J)
    BY <1>0, <1>2, <2>2, PrimOfRows
  <2> HIDE DEF T
  <2>6. (T # {} /\ Known(p, T) = {}) \/ Value(p, T, state[p])
    BY <1>2, <2>1, <2>2, <2>3, PrimValue
  <2>7. Value(c, T, state[c])
    BY <1>2, <2>1, <2>2, <2>3, PrimValue
  <2>8. RowNulls(agg, I) \/ Value(p, T, state[p])
    BY <1>0, <1>2, <1>5, <2>2, <2>6, NullsOfRows
  <2>9. state[c] = N /\ N \in Nat /\ Sum(Xs(J), J) \in Int
    BY <1>2, <2>2, <2>5, <2>7 DEF Value, ArgsMatch
  <2>10. ASSUME Value(p, T, state[p]) PROVE RowValue(agg, I, val)
    <3>1. state[p] = IF J = {} THEN Null ELSE Sum(Xs(J), J)
      BY <2>2, <2>5, <2>10 DEF Value, ArgsMatch
    <3>2. val = IF J = {} THEN Null ELSE [num |-> Sum(Xs(J), J), den |-> N]
      BY <2>4, <2>9, <3>1, NullAssumption DEF DivOp, IsNull
    <3> QED
      BY <1>2, <1>5, <3>2 DEF RowValue
  <2> QED
    BY <1>3, <2>8, <2>10 DEF val
<1>6. CASE fn = "stddev_samp"
  <2> DEFINE s == Prim(a, "squares", "sum", "x2", nullable)
             p == Prim(a, "sum", "sum", "x", TRUE)
             c == Prim(a, "count", "count", "x", FALSE)
  <2>1. Rewritten(n, a) = {s, p, c}
    BY <1>6 DEF Rewritten, RewriteComplexAggrFuncs, nullable
  <2>2. /\ s.arg = "x2" /\ s.fn = "sum" /\ s.role = "squares"
        /\ p.arg = "x" /\ p.fn = "sum" /\ p.role = "sum"
        /\ c.arg = "x" /\ c.fn = "count" /\ c.role = "count"
    BY DEF Prim
  <2> HIDE DEF s, p, c
  <2>3. /\ v("squares") = state[s] /\ IsState(s, T, state[s])
        /\ v("sum") = state[p] /\ IsState(p, T, state[p])
        /\ v("count") = state[c] /\ IsState(c, T, state[c])
    <3>1. ASSUME NEW u \in {s, p, c}
          PROVE  /\ state[CHOOSE q \in DOMAIN state : q.agg = a /\ q.role = u.role] = state[u]
                 /\ IsState(u, Group(TuplesOf(n, query.aggs[a].distinct), key), state[u])
      <4>1. u \in Rewritten(n, a) /\ \A q \in Rewritten(n, a) : q.role = u.role => q = u
        BY <2>1, <2>2
      <4> QED
        BY <4>1, RoleValue
    <3> QED
      BY <2>2, <3>1 DEF v
  <2>4. val = VarSamp(state[s], state[p], state[c])
    BY <1>1, <1>6, <2>3
  <2> HIDE DEF D, J, N
  <2>5. ArgsMatch(s, T, I, d, D, J) /\ ArgsMatch(p, T, I, d, D, J) /\ ArgsMatch(c, T, I, d, D, J)
    BY <1>0, <1>2, <2>2, PrimOfRows
  <2> HIDE DEF T
  <2>6. /\ (T # {} /\ Known(s, T) = {}) \/ Value(s, T, state[s])
        /\ (T # {} /\ Known(p, T) = {}) \/ Value(p, T, state[p])
    BY <1>2, <2>1, <2>2, <2>3, PrimValue
  <2>7. Value(c, T, state[c])
    BY <1>2, <2>1, <2>2, <2>3, PrimValue
  <2>8. RowNulls(agg, I) \/ (Value(s, T, state[s]) /\ Value(p, T, state[p]))
    BY <1>0, <1>2, <1>6, <2>2, <2>6, NullsOfRows
  <2>9. state[c] = N /\ N \in Nat /\ Sum(Xs(J), J) \in Int /\ Sum(Squares(J), J) \in Int
    BY <1>2, <2>2, <2>5, <2>7 DEF Value, ArgsMatch
  <2>10. ASSUME Value(s, T, state[s]), Value(p, T, state[p]) PROVE RowValue(agg, I, val)
    <3>1. state[p] = IF J = {} THEN Null ELSE Sum(Xs(J), J)
      BY <2>2, <2>5, <2>10 DEF Value, ArgsMatch
    <3>2. state[s] = IF J = {} THEN Null ELSE Sum(Squares(J), J)
      BY <2>2, <2>5, <2>10 DEF Value, ArgsMatch
    <3>3. J = {} => N = 0
      BY <1>2, FS_EmptySet
    <3>4. val = IF J = {} \/ N = 1 THEN Null
                ELSE [num |-> N * Sum(Squares(J), J) - Sum(Xs(J), J) * Sum(Xs(J), J), den |-> N * (N - 1)]
      <4> DEFINE S == Sum(Xs(J), J)
                 Q == Sum(Squares(J), J)
      <4>0. SubOp(N, 1) = N - 1 /\ N - 1 \in Int /\ MulOp(N, N - 1) = N * (N - 1)
        BY <2>9, NullAssumption DEF SubOp, MulOp, IsNull
      <4>1. CASE N = 1
        BY <2>4, <2>9, <4>0, <4>1 DEF VarSamp
      <4>2. CASE J = {}
        <5>1. SubOp(MulOp(N, state[s]), MulOp(state[p], state[p])) = Null
          BY <3>1, <3>2, <4>2 DEF SubOp, MulOp, IsNull
        <5>2. SubOp(N, 1) # 0
          BY <3>3, <4>0, <4>2
        <5> QED
          BY <2>4, <2>9, <4>2, <5>1, <5>2 DEF VarSamp, DivOp, IsNull
      <4>3. CASE J # {} /\ N # 1
        <5>1. state[p] = S /\ state[s] = Q /\ S \in Int /\ Q \in Int /\ SubOp(N, 1) # 0
          BY <2>9, <3>1, <3>2, <4>0, <4>3
        <5> HIDE DEF S, Q
        <5>2. MulOp(N, Q) = N * Q /\ MulOp(S, S) = S * S /\ N * Q \in Int /\ S * S \in Int
          BY <2>9, <5>1, NullAssumption DEF MulOp, IsNull
        <5>3. SubOp(N * Q, S * S) = N * Q - S * S /\ N * Q - S * S \in Int
          BY <5>2, NullAssumption DEF SubOp, IsNull
        <5>4. N * (N - 1) \in Int
          BY <2>9
        <5>5. val = DivOp(N * Q - S * S, N * (N - 1))
          BY <2>4, <2>9, <4>0, <5>1, <5>2, <5>3 DEF VarSamp
        <5>6. val = [num |-> N * Q - S * S, den |-> N * (N - 1)]
          BY <5>3, <5>4, <5>5, NullAssumption DEF DivOp, IsNull
        <5> QED
          BY <4>3, <5>6 DEF S, Q
      <4> QED
        BY <4>1, <4>2, <4>3
    <3> QED
      BY <1>2, <1>6, <3>4 DEF RowValue
  <2> QED
    BY <1>3, <2>8, <2>10 DEF val
<1> QED
  BY <1>4, <1>5, <1>6
----------------------------------------------------------------------------
(* The rows of the result *)

\* A row that stands for a group.
Shows(n, key, row) ==
    \A j \in DOMAIN query.keys :
        IF j <= n THEN row.keys[j] = key[j] /\ row.grouping[j] = 0
                  ELSE row.keys[j] = Null /\ row.grouping[j] = 1

ValsRight(n, key, row) ==
    \A a \in DOMAIN query.aggs :
        \/ RowNulls(query.aggs[a], GroupRows(n, key))
        \/ RowBelow(query.aggs[a], n, GroupRows(n, key))
        \/ RowAnswers(query.aggs[a], GroupRows(n, key), row.vals[a])

Sizes(S) == [n \in S |-> Cardinality(Groups(n))]

\* One row for each group of the grouping sets done.
Output(rows, done) ==
    /\ IsFiniteSet(rows) /\ Cardinality(rows) = Sum(Sizes(done), done)
    /\ \A row \in rows : \E n \in done : \E key \in Groups(n) : Shows(n, key, row)
    /\ \A n \in done : \A key \in Groups(n) : \E row \in rows : Shows(n, key, row) /\ ValsRight(n, key, row)

\* The rows of one grouping set, from the states of its groups.
OutRows(n, states, rows) ==
    /\ rows = {OutRow(query, n, k, states[k]) : k \in Groups(n)}
    /\ DOMAIN query.aggs # {} => \A k \in Groups(n) : FinalFacts(n, k, states[k])

KeyLengths == 0 .. Len(query.keys)

LEMMA KeysFacts ==
    ASSUME query \in Queries
    PROVE  /\ Len(query.keys) \in Nat /\ DOMAIN query.keys = 1 .. Len(query.keys)
           /\ KeyLengths \subseteq Nat /\ IsFiniteSet(KeyLengths)
<1>1. Len(query.keys) \in Nat /\ DOMAIN query.keys = 1 .. Len(query.keys)
  BY QueriesAssumption
<1>2. KeyLengths \subseteq Nat
  BY <1>1 DEF KeyLengths
<1>3. IsFiniteSet(KeyLengths)
  <2> DEFINE L == Len(query.keys)
  <2>1. L \in Int /\ KeyLengths = 0 .. L
    BY <1>1 DEF KeyLengths
  <2> HIDE DEF L
  <2> QED
    BY <2>1, FS_Interval
<1> QED
  BY <1>1, <1>2, <1>3

LEMMA GroupsFinite ==
    ASSUME InputFacts, NEW n
    PROVE  IsFiniteSet(Groups(n)) /\ Cardinality(Groups(n)) \in Nat
<1>1. IsFiniteSet(Groups(n))
  <2>1. CASE n = 0
    BY <2>1, FS_Singleton DEF Groups
  <2>2. CASE n # 0
    <3> DEFINE f == [i \in DOMAIN input |-> KeyOf(query, n, input[i])]
    <3>1. f \in Surjection(DOMAIN input, Groups(n))
      BY <2>2 DEF Surjection, Groups
    <3>2. IsFiniteSet(DOMAIN input)
      <4>1. DOMAIN input = 1 .. Len(input) /\ Len(input) \in Nat
        BY TablesAssumption DEF InputFacts
      <4> QED
        BY <4>1, FS_Interval
    <3> QED
      BY <3>1, <3>2, FS_Surjection
  <2> QED
    BY <2>1, <2>2
<1> QED
  BY <1>1, FS_CardinalityType

\* A key of a group has a value for each of its columns.
LEMMA GroupKey ==
    ASSUME NEW n, NEW key \in Groups(n)
    PROVE  key = [j \in 1 .. n |-> key[j]]
<1>1. CASE n = 0
  <2>1. key = <<>> /\ 1 .. 0 = {}
    BY <1>1 DEF Groups
  <2> QED
    BY <1>1, <2>1
<1>2. CASE n # 0
  BY <1>2 DEF Groups, KeyOf
<1> QED
  BY <1>1, <1>2

\* A row stands for one group only.
LEMMA ShowsOnce ==
    ASSUME query \in Queries, NEW n \in KeyLengths, NEW m \in KeyLengths, NEW k \in Groups(n), NEW l \in Groups(m),
           NEW row, Shows(n, k, row), Shows(m, l, row)
    PROVE  n = m /\ k = l
<1>1. /\ Len(query.keys) \in Nat /\ DOMAIN query.keys = 1 .. Len(query.keys)
      /\ n \in Nat /\ m \in Nat /\ n <= Len(query.keys) /\ m <= Len(query.keys)
  BY KeysFacts DEF KeyLengths
<1>2. ASSUME NEW i \in KeyLengths, NEW j \in KeyLengths, NEW x, NEW y, Shows(i, x, row), Shows(j, y, row), i < j
      PROVE  FALSE
  <2>1. j \in DOMAIN query.keys /\ ~(j <= i) /\ j <= j
    BY <1>1, <1>2 DEF KeyLengths
  <2>2. row.grouping[j] = 0
    BY <1>2, <2>1 DEF Shows
  <2>3. row.grouping[j] = 1
    BY <1>2, <2>1 DEF Shows
  <2> QED
    BY <2>2, <2>3
<1>3. n = m
  <2>1. ~(n < m) /\ ~(m < n)
    BY <1>2
  <2> QED
    BY <1>1, <2>1
<1>4. \A j \in 1 .. n : k[j] = l[j]
  <2> SUFFICES ASSUME NEW j \in 1 .. n PROVE k[j] = l[j]
    OBVIOUS
  <2>1. j \in DOMAIN query.keys /\ j <= n /\ j <= m
    BY <1>1, <1>3
  <2> QED
    BY <2>1 DEF Shows
<1>5. k = [j \in 1 .. n |-> k[j]] /\ l = [j \in 1 .. n |-> l[j]]
  BY <1>3, GroupKey
<1> QED
  BY <1>3, <1>4, <1>5

LEMMA OutRowShows ==
    ASSUME query \in Queries, NEW n \in KeyLengths, NEW k, NEW state
    PROVE  Shows(n, k, OutRow(query, n, k, state))
<1> DEFINE row == OutRow(query, n, k, state)
           L == Len(query.keys)
<1>1. L \in Nat /\ DOMAIN query.keys = 1 .. L /\ n \in Nat /\ n <= L
  BY KeysFacts DEF KeyLengths
<1>2. /\ row.keys = [j \in 1 .. L |-> IF j <= n THEN k[j] ELSE Null]
      /\ row.grouping = [j \in 1 .. L |-> mapCheckBit(present(query, n), j - 1)]
  BY DEF OutRow
<1>3. present(query, n) = {j - 1 : j \in n + 1 .. L}
  BY DEF present
<1> HIDE DEF row, L
<1>4. ASSUME NEW j \in 1 .. L PROVE mapCheckBit(present(query, n), j - 1) = IF j <= n THEN 0 ELSE 1
  <2>1. ASSUME j <= n, NEW i \in n + 1 .. L PROVE i - 1 # j - 1
    BY <1>1, <2>1
  <2>2. ~(j <= n) => j \in n + 1 .. L
    BY <1>1
  <2>3. j - 1 \in present(query, n) <=> ~(j <= n)
    BY <1>3, <2>1, <2>2
  <2> QED
    BY <2>3 DEF mapCheckBit
<1>5. \A j \in 1 .. L : /\ row.keys[j] = IF j <= n THEN k[j] ELSE Null
                        /\ row.grouping[j] = IF j <= n THEN 0 ELSE 1
  BY <1>2, <1>4
<1>6. Shows(n, k, row)
  BY <1>1, <1>5 DEF Shows
<1> QED
  BY <1>6 DEF row

LEMMA OutRowVals ==
    ASSUME InputFacts, NEW n \in KeyLengths, n = Len(query.keys) \/ query.rollup, NEW k \in Groups(n),
           NEW state, DOMAIN query.aggs # {} => FinalFacts(n, k, state)
    PROVE  ValsRight(n, k, OutRow(query, n, k, state))
<1>1. n \in Nat
  BY KeysFacts DEF InputFacts
<1>2. \A a \in DOMAIN query.aggs : (OutRow(query, n, k, state)).vals[a] = FinalValue(query, a, state)
  BY DEF OutRow
<1>3. ASSUME NEW a \in DOMAIN query.aggs
      PROVE  \/ RowNulls(query.aggs[a], GroupRows(n, k))
             \/ RowBelow(query.aggs[a], n, GroupRows(n, k))
             \/ RowAnswers(query.aggs[a], GroupRows(n, k), FinalValue(query, a, state))
  <2>1. FinalFacts(n, k, state)
    OBVIOUS
  <2> QED
    BY <1>1, <2>1, FinalRight
<1> QED
  BY <1>2, <1>3 DEF ValsRight

\* The rows of one more grouping set.
LEMMA OutputMore ==
    ASSUME InputFacts, NEW rows, NEW done \in SUBSET KeyLengths, Output(rows, done),
           NEW n \in KeyLengths, n \notin done, n = Len(query.keys) \/ query.rollup,
           NEW states, NEW new, OutRows(n, states, new)
    PROVE  Output(rows \cup new, done \cup {n})
<1>0. query \in Queries
  BY DEF InputFacts
<1> DEFINE row(k) == OutRow(query, n, k, states[k])
           f == [k \in Groups(n) |-> row(k)]
           all == done \cup {n}
<1>1. \A k \in Groups(n) : Shows(n, k, row(k)) /\ ValsRight(n, k, row(k))
  BY <1>0, OutRowShows, OutRowVals DEF OutRows
<1>2. new = {row(k) : k \in Groups(n)}
  BY DEF OutRows
<1> HIDE DEF row
<1>3. Matched(f, Groups(n), new)
  <2>1. \A k, l \in Groups(n) : row(k) = row(l) => k = l
    BY <1>0, <1>1, ShowsOnce
  <2> QED
    BY <1>2, <2>1 DEF Matched
<1> HIDE DEF f
<1>4. IsFiniteSet(new) /\ Cardinality(new) = Cardinality(Groups(n)) /\ Cardinality(Groups(n)) \in Nat
  BY <1>3, SizeMatched, GroupsFinite
<1>5. rows \cap new = {}
  <2>1. ASSUME NEW r \in rows, NEW k \in Groups(n), r = row(k) PROVE FALSE
    <3>1. PICK m \in done : \E key \in Groups(m) : Shows(m, key, r)
      BY DEF Output
    <3>2. PICK key \in Groups(m) : Shows(m, key, r)
      BY <3>1
    <3>3. Shows(n, k, r) /\ m \in KeyLengths
      BY <1>1, <2>1, <3>1
    <3>4. m = n
      BY <1>0, <3>2, <3>3, ShowsOnce
    <3> QED
      BY <3>1, <3>4
  <2> QED
    BY <1>2, <2>1
<1>6. IsFiniteSet(rows \cup new) /\ Cardinality(rows \cup new) = Cardinality(rows) + Cardinality(new)
  BY <1>4, <1>5, SizeOfUnion, FS_Union DEF Output
<1>7. Sum(Sizes(all), all) = Sum(Sizes(done), done) + Cardinality(Groups(n))
  <2>1. IsFiniteSet(all)
    <3>1. all \subseteq KeyLengths /\ IsFiniteSet(KeyLengths)
      BY <1>0, KeysFacts
    <3> QED
      BY <3>1, FS_Subset
  <2>2. Numbers(Sizes(all), all)
    BY <2>1, GroupsFinite DEF Numbers, Sizes
  <2>3. Sum(Sizes(all), all) = Sum(Sizes(all), done) + Sizes(all)[n]
    BY <2>2, SumAdd
  <2>4. Sum(Sizes(all), done) = Sum(Sizes(done), done)
    <3>1. \A m \in done : Sizes(all)[m] = Sizes(done)[m]
      BY DEF Sizes
    <3> QED
      BY <3>1, SumSame
  <2>5. Sizes(all)[n] = Cardinality(Groups(n))
    BY DEF Sizes
  <2> QED
    BY <2>3, <2>4, <2>5
<1>8. \A r \in rows \cup new : \E m \in all : \E key \in Groups(m) : Shows(m, key, r)
  BY <1>1, <1>2 DEF Output
<1>9. \A m \in all : \A key \in Groups(m) : \E r \in rows \cup new : Shows(m, key, r) /\ ValsRight(m, key, r)
  BY <1>1, <1>2 DEF Output
<1> QED
  BY <1>4, <1>6, <1>7, <1>8, <1>9 DEF Output

Sets == Range(groupingSets(query))
PartsSet == {parts[i] : i \in DOMAIN parts}

\* The rows of the result are those of the grouping sets that are done.
OutInv ==
    /\ pc = "parse" => out = {}
    /\ pc = "done" => parts = <<>>
    /\ pc # "parse" =>
        /\ PartsSet \subseteq Sets /\ \A i, j \in DOMAIN parts : parts[i] = parts[j] => i = j
        /\ Output(out, Sets \ PartsSet)

LEMMA SetsFacts ==
    ASSUME query \in Queries
    PROVE  /\ Sets \subseteq KeyLengths
           /\ \A i, j \in DOMAIN groupingSets(query) : groupingSets(query)[i] = groupingSets(query)[j] => i = j
<1>1. groupingSets(query) \in Seq(0 .. Len(query.keys))
  BY GroupingSets
<1>2. \A i \in DOMAIN groupingSets(query) : groupingSets(query)[i] \in 0 .. Len(query.keys)
  BY <1>1
<1>3. Sets \subseteq KeyLengths
  BY <1>2 DEF Sets, Range, KeyLengths
<1>4. \A i, j \in DOMAIN groupingSets(query) : groupingSets(query)[i] = groupingSets(query)[j] => i = j
  <2> DEFINE L == Len(query.keys)
  <2>1. L \in Nat
    BY KeysFacts
  <2>2. groupingSets(query) = IF query.rollup THEN [i \in 1 .. L + 1 |-> L - (i - 1)] ELSE <<L>>
    BY DEF groupingSets
  <2> HIDE DEF L
  <2>3. CASE query.rollup
    BY <2>1, <2>2, <2>3
  <2>4. CASE ~query.rollup
    BY <2>2, <2>4
  <2> QED
    BY <2>3, <2>4
<1> QED
  BY <1>3, <1>4

\* The states of the groups, joined from the merged states of the sub-aggregations.
LEMMA JoinedFacts ==
    ASSUME InputFacts, NEW n, NEW maps, FinishedSubs(n, maps, analyze(query, n)), NEW k \in Groups(n)
    PROVE  /\ \A i \in DOMAIN maps : DOMAIN maps[i] = Groups(n)
           /\ FinalFacts(n, k, [p \in UNION {DOMAIN maps[i][k] : i \in DOMAIN maps} |->
                                   maps[CHOOSE i \in DOMAIN maps : p \in DOMAIN maps[i][k]][k][p]])
<1> DEFINE P == UNION {DOMAIN maps[i][k] : i \in DOMAIN maps}
           at(p) == CHOOSE i \in DOMAIN maps : p \in DOMAIN maps[i][k]
           J == [p \in P |-> maps[at(p)][k][p]]
<1>0. query \in Queries
  BY DEF InputFacts
<1>1. ASSUME NEW s \in analyze(query, n), NEW map, Finished(n, s, map)
      PROVE  /\ DOMAIN map = Groups(n) /\ DOMAIN map[k] = s.prims
             /\ \A p \in s.prims : IsState(p, Group(TuplesOf(n, s.distinct), k), map[k][p])
  <2>1. KeysOf(n, TuplesOf(n, s.distinct)) = Groups(n)
    BY SameGroups
  <2>2. /\ map \in [Groups(n) -> [s.prims -> StateValues]]
        /\ \A p \in s.prims : IsState(p, Group(TuplesOf(n, s.distinct), k), map[k][p])
    BY <1>1, <2>1 DEF Finished, Right
  <2> QED
    BY <2>2
<1>2. \A i \in DOMAIN maps : \E s \in analyze(query, n) : Finished(n, s, maps[i])
  BY DEF FinishedSubs
<1>3. \A s \in analyze(query, n) : \E i \in DOMAIN maps : Finished(n, s, maps[i])
  BY DEF FinishedSubs
<1>4. \A i \in DOMAIN maps : DOMAIN maps[i] = Groups(n)
  BY <1>1, <1>2
<1>5. ASSUME NEW i \in DOMAIN maps, NEW p \in DOMAIN maps[i][k]
      PROVE  /\ p.agg \in DOMAIN query.aggs /\ p \in Rewritten(n, p.agg)
             /\ IsState(p, Group(TuplesOf(n, query.aggs[p.agg].distinct), k), maps[i][k][p])
  <2>1. PICK s \in analyze(query, n) : Finished(n, s, maps[i])
    BY <1>2
  <2>2. p \in s.prims /\ IsState(p, Group(TuplesOf(n, s.distinct), k), maps[i][k][p])
    BY <1>1, <1>5, <2>1
  <2>3. /\ p.agg \in DOMAIN query.aggs /\ p \in Rewritten(n, p.agg)
        /\ s.distinct = query.aggs[p.agg].distinct
    BY <1>0, <2>2, AnalyzedOnce
  <2> QED
    BY <2>2, <2>3
<1>6. P = UNION {Rewritten(n, a) : a \in DOMAIN query.aggs}
  <2>1. ASSUME NEW a \in DOMAIN query.aggs, NEW p \in Rewritten(n, a) PROVE p \in P
    <3>1. PICK s \in analyze(query, n) : p \in s.prims
      BY <1>0, AnalyzedOnce
    <3>2. PICK i \in DOMAIN maps : Finished(n, s, maps[i])
      BY <1>3
    <3>3. p \in DOMAIN maps[i][k]
      BY <1>1, <3>1, <3>2
    <3> QED
      BY <3>3
  <2>2. ASSUME NEW p \in P PROVE \E a \in DOMAIN query.aggs : p \in Rewritten(n, a)
    BY <1>5
  <2> QED
    BY <2>1, <2>2
<1>7. ASSUME NEW p \in P PROVE at(p) \in DOMAIN maps /\ p \in DOMAIN maps[at(p)][k]
  OBVIOUS
<1> HIDE DEF at, P
<1>8. ASSUME NEW p \in P
      PROVE  J[p] = maps[at(p)][k][p] /\ IsState(p, Group(TuplesOf(n, query.aggs[p.agg].distinct), k), J[p])
  BY <1>5, <1>7
<1>9. DOMAIN J = P
  OBVIOUS
<1> HIDE DEF J
<1>10. FinalFacts(n, k, J)
  BY <1>6, <1>8, <1>9 DEF FinalFacts
<1> QED
  BY <1>4, <1>10 DEF J, P, at

LEMMA ScanRows ==
    ASSUME AggregationInv, ResultsInv, Scan
    PROVE  \E states, new : OutRows(Head(parts), states, new) /\ out' = out \cup new
<1> DEFINE n == Head(parts)
           Joined(k) == [p \in UNION {DOMAIN results[i][k] : i \in DOMAIN results} |->
                            results[CHOOSE i \in DOMAIN results : p \in DOMAIN results[i][k]][k][p]]
           rows == IF results = <<>>
                   THEN {OutRow(query, n, KeyOf(query, n, input[i]), <<>>) : i \in DOMAIN input}
                   ELSE {OutRow(query, n, k, Joined(k)) : k \in DOMAIN results[1]}
<1>1. InputFacts /\ PartsInv /\ query \in Queries
  BY DEF AggregationInv, InputFacts
<1>2. /\ parts # <<>> /\ FinishedSubs(n, results, analyze(query, n))
      /\ results = <<>> <=> DOMAIN query.aggs = {}
  BY ScanFacts
<1>3. out' = out \cup rows
  BY DEF Scan
<1> HIDE DEF n
<1>4. CASE DOMAIN query.aggs = {}
  <2>1. Len(query.keys) > 0 /\ ~query.rollup
    BY <1>1, <1>4, QueriesAssumption
  <2>2. n \in Nat /\ n = Len(query.keys)
    BY <1>1, <1>2, <2>1, HeadFacts DEF n
  <2>3. Groups(n) = {KeyOf(query, n, input[i]) : i \in DOMAIN input}
    BY <2>1, <2>2 DEF Groups
  <2> DEFINE states == [k \in Groups(n) |-> <<>>]
  <2>4. rows = {OutRow(query, n, KeyOf(query, n, input[i]), <<>>) : i \in DOMAIN input}
    BY <1>2, <1>4
  <2>5. rows = {OutRow(query, n, k, <<>>) : k \in Groups(n)}
    BY <2>3, <2>4
  <2>6. \A k \in Groups(n) : states[k] = <<>>
    OBVIOUS
  <2> HIDE DEF states, rows
  <2>7. OutRows(n, states, rows)
    BY <1>4, <2>5, <2>6 DEF OutRows
  <2> QED
    BY <1>3, <2>7 DEF n
<1>5. CASE DOMAIN query.aggs # {}
  <2>1. 1 \in DOMAIN results /\ results # <<>>
    <3>1. results \in Seq(StateMaps(n)) /\ results # <<>>
      BY <1>2, <1>5 DEF FinishedSubs
    <3> QED
      BY <3>1
  <2>2. ASSUME NEW k \in Groups(n) PROVE FinalFacts(n, k, Joined(k))
    BY <1>1, <1>2, JoinedFacts
  <2>3. DOMAIN results[1] = Groups(n)
    <3>1. PICK s \in analyze(query, n) : Finished(n, s, results[1])
      BY <1>2, <2>1 DEF FinishedSubs
    <3>2. KeysOf(n, TuplesOf(n, s.distinct)) = Groups(n)
      BY SameGroups
    <3> QED
      BY <3>1, <3>2 DEF Finished, Right
  <2> HIDE DEF Joined
  <2> DEFINE states == [k \in Groups(n) |-> Joined(k)]
  <2>4. rows = {OutRow(query, n, k, Joined(k)) : k \in Groups(n)}
    BY <2>1, <2>3
  <2>5. \A k \in Groups(n) : states[k] = Joined(k)
    OBVIOUS
  <2> HIDE DEF states, rows
  <2>6. OutRows(n, states, rows)
    BY <2>2, <2>4, <2>5 DEF OutRows
  <2> QED
    BY <1>3, <2>6 DEF n
<1> QED
  BY <1>4, <1>5

LEMMA OutputSame ==
    ASSUME query' = query, input' = input
    PROVE  \A rows, done : Output(rows, done)' = Output(rows, done)
<1>1. \A n, key : GroupRows(n, key)' = GroupRows(n, key)
  BY DEF GroupRows
<1>2. \A agg, I, val : RowAnswers(agg, I, val)' = RowAnswers(agg, I, val)
  BY DEF RowAnswers, IsAggregate, TotalOf, FoldSet, MapThenFoldSet, Kept, Range
<1>3. \A agg, I : RowNulls(agg, I)' = RowNulls(agg, I)
  BY DEF RowNulls, SumOfNulls
<1>4. \A agg, n, I : RowBelow(agg, n, I)' = RowBelow(agg, n, I)
  BY DEF RowBelow, MaxBelowDefault
<1>5. \A n, key, row : ValsRight(n, key, row)' = ValsRight(n, key, row)
  BY <1>1, <1>2, <1>3, <1>4 DEF ValsRight
<1>6. \A n, key, row : Shows(n, key, row)' = Shows(n, key, row)
  BY DEF Shows
<1>7. \A n : Groups(n)' = Groups(n)
  BY DEF Groups
<1>8. \A done : Sizes(done)' = Sizes(done)
  BY <1>7 DEF Sizes
<1> QED
  BY <1>5, <1>6, <1>7, <1>8 DEF Output

LEMMA OutStep == AggregationInv /\ ResultsInv /\ OutInv /\ [Next]_vars => OutInv'
<1> SUFFICES ASSUME AggregationInv, ResultsInv, OutInv, [Next]_vars PROVE OutInv'
  OBVIOUS
<1>0. InputFacts /\ PartsInv /\ query \in Queries
  BY DEF AggregationInv, InputFacts
<1>a. ASSUME query' = query, input' = input
      PROVE  Sets' = Sets /\ (\A rows, done : Output(rows, done)' = Output(rows, done))
  <2>1. Sets' = Sets
    BY <1>a DEF Sets
  <2> QED
    BY <1>a, <2>1, OutputSame
<1>1. CASE Parse
  <2>1. /\ query' = query /\ input' = input /\ pc = "parse" /\ pc' = "run" /\ out' = out
        /\ parts' = groupingSets(query)
    BY <1>1 DEF Parse
  <2>2. out = {}
    BY <2>1 DEF OutInv
  <2>3. PartsSet' = Sets
    BY <2>1 DEF PartsSet, Sets, Range
  <2>4. \A i, j \in DOMAIN parts' : parts'[i] = parts'[j] => i = j
    BY <1>0, <2>1, SetsFacts
  <2>5. Output({}, {})
    <3>1. Sum(Sizes({}), {}) = 0
      <4>1. Numbers(Sizes({}), {})
        BY FS_EmptySet DEF Numbers
      <4> QED
        BY <4>1, SumStep
    <3>2. IsFiniteSet({}) /\ Cardinality({}) = 0
      BY FS_EmptySet
    <3> QED
      BY <3>1, <3>2 DEF Output
  <2>6. Output(out, Sets \ Sets)
    BY <2>2, <2>5
  <2>7. Output(out', Sets' \ PartsSet')
    BY <1>a, <2>1, <2>3, <2>6
  <2>8. (Output(out, Sets \ PartsSet))'
    BY <1>a, <2>1, <2>3, <2>6
  <2> QED
    BY <1>a, <2>1, <2>3, <2>4, <2>8 DEF OutInv
<1>2. ASSUME UNCHANGED <<query, input, parts, out>>, pc # "parse", pc' # "parse", pc' # "done" \/ pc = "done"
      PROVE  OutInv'
  <2>1. PartsSet' = PartsSet
    BY <1>2 DEF PartsSet
  <2>2. Output(out, Sets \ PartsSet)
    BY <1>2 DEF OutInv
  <2>3. (Output(out, Sets \ PartsSet))'
    BY <1>a, <1>2, <2>1, <2>2
  <2> QED
    BY <1>a, <1>2, <2>1, <2>3 DEF OutInv
<1>3. ASSUME NEW s \in subs, StartSub(s) PROVE OutInv'
  BY <1>2, <1>3 DEF StartSub
<1>4. ASSUME UNCHANGED <<query, input, parts, out, pc>> PROVE OutInv'
  <2>1. CASE pc = "parse"
    BY <1>4, <2>1 DEF OutInv
  <2>2. CASE pc # "parse"
    BY <1>2, <1>4, <2>2
  <2> QED
    BY <2>1, <2>2
<1>5. ASSUME NEW t, GetLocal(t) \/ Reduce(t) PROVE OutInv'
  BY <1>4, <1>5 DEF GetLocal, Reduce
<1>6. CASE Merge
  <2>1. cur # NoSub /\ pc' \in {"run", "scan"} /\ UNCHANGED <<query, input, parts, out>>
    BY <1>6 DEF Merge
  <2>2. pc = "run"
    BY <1>0, <2>1 DEF PartsInv
  <2> QED
    BY <1>2, <2>1, <2>2
<1>7. CASE Scan
  <2> DEFINE n == Head(parts)
             done == Sets \ PartsSet
  <2>1. /\ query' = query /\ input' = input /\ parts' = Tail(parts)
        /\ pc \in {"run", "scan"} /\ pc' \in {"run", "done"}
        /\ pc' = "done" => Tail(parts) = <<>>
    BY <1>7 DEF Scan
  <2>2. PICK states, new : OutRows(n, states, new) /\ out' = out \cup new
    BY <1>7, ScanRows
  <2>3. parts # <<>> /\ parts \in Seq(KeyLengths)
    BY <1>0, <1>7, ScanFacts DEF PartsInv, KeyLengths
  <2>4. /\ n = parts[1] /\ 1 \in DOMAIN parts /\ n \in KeyLengths
        /\ Len(parts) \in Nat /\ DOMAIN parts = 1 .. Len(parts)
        /\ DOMAIN Tail(parts) = 1 .. Len(parts) - 1
        /\ \A i \in DOMAIN Tail(parts) : Tail(parts)[i] = parts[i + 1] /\ i + 1 \in DOMAIN parts
    BY <2>3
  <2>5. n = Len(query.keys) \/ query.rollup
    BY <1>0, <2>4 DEF PartsInv
  <2>6. /\ PartsSet \subseteq Sets /\ \A i, j \in DOMAIN parts : parts[i] = parts[j] => i = j
        /\ Output(out, done)
    BY <2>1 DEF OutInv
  <2>7. n \in PartsSet /\ n \notin done /\ n \in Sets
    BY <2>4, <2>6 DEF PartsSet
  <2>8. done \in SUBSET KeyLengths
    BY <1>0, SetsFacts
  <2> HIDE DEF n, done
  <2>9. Output(out \cup new, done \cup {n})
    BY <1>0, <2>2, <2>4, <2>5, <2>6, <2>7, <2>8, OutputMore
  <2>10. PartsSet' = PartsSet \ {n}
    <3>1. ASSUME NEW i \in DOMAIN Tail(parts) PROVE Tail(parts)[i] \in PartsSet \ {n}
      <4>1. Tail(parts)[i] = parts[i + 1] /\ i + 1 \in DOMAIN parts /\ i + 1 # 1
        BY <2>4
      <4>2. parts[i + 1] # parts[1]
        BY <2>4, <2>6, <4>1
      <4> QED
        BY <2>4, <4>1, <4>2 DEF PartsSet
    <3>2. ASSUME NEW i \in DOMAIN parts, parts[i] # n PROVE parts[i] \in {Tail(parts)[j] : j \in DOMAIN Tail(parts)}
      <4>1. i # 1 /\ i - 1 \in DOMAIN Tail(parts) /\ (i - 1) + 1 = i
        BY <2>4, <3>2
      <4>2. Tail(parts)[i - 1] = parts[i]
        BY <2>4, <4>1
      <4> QED
        BY <4>1, <4>2
    <3>3. PartsSet' = {Tail(parts)[j] : j \in DOMAIN Tail(parts)}
      BY <2>1 DEF PartsSet
    <3> QED
      BY <3>1, <3>2, <3>3 DEF PartsSet
  <2>11. \A i, j \in DOMAIN Tail(parts) : Tail(parts)[i] = Tail(parts)[j] => i = j
    <3> SUFFICES ASSUME NEW i \in DOMAIN Tail(parts), NEW j \in DOMAIN Tail(parts), Tail(parts)[i] = Tail(parts)[j]
                 PROVE  i = j
      OBVIOUS
    <3>1. parts[i + 1] = parts[j + 1] /\ i + 1 \in DOMAIN parts /\ j + 1 \in DOMAIN parts
      BY <2>4
    <3>2. i + 1 = j + 1
      BY <2>6, <3>1
    <3> QED
      BY <2>4, <3>2
  <2>12. Sets \ (PartsSet \ {n}) = done \cup {n}
    BY <2>7 DEF done
  <2>13. (Output(out, Sets \ PartsSet))'
    BY <1>a, <2>1, <2>2, <2>9, <2>10, <2>12
  <2> QED
    BY <1>a, <2>1, <2>6, <2>10, <2>11, <2>13 DEF OutInv
<1>8. CASE UNCHANGED vars
  BY <1>4, <1>8 DEF vars
<1> QED
  BY <1>1, <1>3, <1>5, <1>6, <1>7, <1>8 DEF Next

LEMMA GroupCounts == TotalOf(Sets, LAMBDA n : Cardinality(Groups(n))) = Sum(Sizes(Sets), Sets)
<1> DEFINE f == Sizes(Sets)
           Body(g) == [s \in SUBSET Sets |-> IF s = {} THEN 0 ELSE g[s \ {Some(s)}] + Cardinality(Groups(Some(s)))]
<1>1. TotalOf(Sets, LAMBDA n : Cardinality(Groups(n))) = (CHOOSE g : g = Body(g))[Sets]
  BY DEF TotalOf, FoldSet, MapThenFoldSet, Some
<1>2. ASSUME NEW g PROVE g = Body(g) <=> IsSums(g, f, Sets)
  <2>1. ASSUME NEW s \in SUBSET Sets
        PROVE  (IF s = {} THEN 0 ELSE g[s \ {Some(s)}] + Cardinality(Groups(Some(s)))) = (IF s = {} THEN 0 ELSE g[s \ {Some(s)}] + f[Some(s)])
    BY SomeIn DEF Sizes
  <2>2. Body(g) = [s \in SUBSET Sets |-> IF s = {} THEN 0 ELSE g[s \ {Some(s)}] + f[Some(s)]]
    BY <2>1
  <2> QED
    BY <2>2 DEF IsSums
<1> HIDE DEF f, Body
<1>3. (CHOOSE g : g = Body(g)) = (CHOOSE g : IsSums(g, f, Sets))
  BY <1>2
<1> QED
  BY <1>1, <1>3 DEF Sum, f

LEMMA OutIsAggregate == AggregationInv /\ OutInv => ResultIsAggregate
<1> SUFFICES ASSUME AggregationInv, OutInv, pc = "done" PROVE ResultIsAggregate
  BY DEF ResultIsAggregate
<1>1. PartsSet = {}
  <2>1. parts = <<>>
    BY DEF OutInv
  <2>2. DOMAIN parts = {}
    BY <2>1
  <2> QED
    BY <2>2 DEF PartsSet
<1>2. Output(out, Sets)
  <2>1. Output(out, Sets \ PartsSet) /\ Sets \ PartsSet = Sets
    BY <1>1 DEF OutInv
  <2> QED
    BY <2>1
<1>3. Cardinality(out) = TotalOf(Sets, LAMBDA n : Cardinality(Groups(n)))
  BY <1>2, GroupCounts DEF Output
<1>4. \A n \in Sets : \A key \in Groups(n) : \E row \in out : Shows(n, key, row) /\ ValsRight(n, key, row)
  BY <1>2 DEF Output
<1>5. \A n \in Sets : \A key \in Groups(n) : \E row \in out :
                /\ \A j \in DOMAIN query.keys :
                    IF j <= n THEN row.keys[j] = key[j] /\ row.grouping[j] = 0
                              ELSE row.keys[j] = Null /\ row.grouping[j] = 1
                /\ \A a \in DOMAIN query.aggs :
                    LET agg == query.aggs[a]
                        I == GroupRows(n, key)
                    IN \/ SumOfNulls(agg, I, LAMBDA i : input[i].x)
                       \/ MaxBelowDefault(agg, n, I, LAMBDA i : input[i].x)
                       \/ IsAggregate(agg, I, LAMBDA i : input[i].x, row.vals[a])
  <2> SUFFICES ASSUME NEW n \in Sets, NEW key \in Groups(n)
               PROVE  \E row \in out :
                /\ \A j \in DOMAIN query.keys :
                    IF j <= n THEN row.keys[j] = key[j] /\ row.grouping[j] = 0
                              ELSE row.keys[j] = Null /\ row.grouping[j] = 1
                /\ \A a \in DOMAIN query.aggs :
                    LET agg == query.aggs[a]
                        I == GroupRows(n, key)
                    IN \/ SumOfNulls(agg, I, LAMBDA i : input[i].x)
                       \/ MaxBelowDefault(agg, n, I, LAMBDA i : input[i].x)
                       \/ IsAggregate(agg, I, LAMBDA i : input[i].x, row.vals[a])
    OBVIOUS
  <2>1. PICK row \in out : Shows(n, key, row) /\ ValsRight(n, key, row)
    BY <1>4
  <2> QED
    BY <2>1 DEF Shows, ValsRight, RowNulls, RowBelow, RowAnswers
<1> QED
  BY <1>3, <1>5 DEF ResultIsAggregate, Sets

\* The result is what SQL asks: whatever the tables, the queries and the workers, and
\* however they take the tuples and are merged, the finished result has exactly one row
\* for each group of each grouping set, with NULL for the keys the set leaves out and
\* GROUPING 1 exactly for those, and for each aggregate, with DISTINCT or not, the value
\* SQL defines over the group's rows; but for sums over NULLs only and MAX over negative
\* values of a column that is not nullable.
THEOREM ResultRight == Spec => []ResultIsAggregate
<1>1. Init => AggregationInv /\ ResultsInv /\ OutInv
  <2>1. Init => ResultsInv
    BY DEF Init, ResultsInv
  <2>2. Init => OutInv
    BY DEF Init, OutInv
  <2> QED
    BY <2>1, <2>2, AggregationInit
<1>2. AggregationInv /\ ResultsInv /\ OutInv /\ [Next]_vars => (AggregationInv /\ ResultsInv /\ OutInv)'
  BY InputStep, PartsStep, WorkersStep, ResultsStep, OutStep DEF AggregationInv
<1>3. AggregationInv /\ OutInv => ResultIsAggregate
  BY OutIsAggregate
<1> QED
  BY <1>1, <1>2, <1>3, PTL DEF Spec
=============================================================================
