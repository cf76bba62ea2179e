------------------------ MODULE ParallelizeProofs --------------------------
(***************************************************************************)
(* For every program and any threads: EnforceOrderPass runs every root once *)
(* and after those it depends on; under conditions on the program that say  *)
(* when the passes are right, readers run after writers, and no thread-local *)
(* instance is filled after its merge.                                      *)
(***************************************************************************)
EXTENDS Parallelize, SequenceTheorems, FunctionTheorems, FiniteSetTheorems, WellFoundedInduction, TLAPS

(* Induction over the naturals, in the form of a least counterexample *)
LEMMA LeastNat == ASSUME NEW S, S \subseteq Nat, S # {} PROVE \E n \in S : \A m \in S : n <= m
<1> DEFINE R == {ss \in Nat \X Nat : ss[1] < ss[2]}
<1>0. OpToRel(<, Nat) = R
  BY DEF OpToRel
<1>1. IsWellFoundedOn(R, Nat)
  BY <1>0, NatLessThanWellFounded
<1>2. IsWellFoundedOn(R, S)
  BY <1>1, IsWellFoundedOnSubset
<1>3. \A a, b \in Nat : <<a, b>> \in R <=> a < b
  OBVIOUS
<1> HIDE DEF R
<1>4. PICK n \in S : \A m \in S : ~(<<m, n>> \in R)
  BY <1>2, WFMin
<1>5. \A m \in S : ~(m < n)
  BY <1>3, <1>4
<1> QED
  BY <1>5

-----------------------------------------------------------------------------
(* Sequences *)

JoinOf(S, a, p, b, q, u) ==
    u \in Seq(S) /\ Len(u) = p + q /\ \A i \in 1 .. p + q : u[i] = IF i <= p THEN a[i] ELSE b[i - p]

LEMMA ConcatJoin ==
    ASSUME NEW S, NEW a \in Seq(S), NEW b \in Seq(S), NEW p, p = Len(a), NEW q, q = Len(b), NEW u, u = a \o b
    PROVE  JoinOf(S, a, p, b, q, u)
<1>1. /\ a \o b \in Seq(S) /\ Len(a \o b) = Len(a) + Len(b)
      /\ \A i \in 1 .. Len(a) + Len(b) : (a \o b)[i] = IF i <= Len(a) THEN a[i] ELSE b[i - Len(a)]
  BY ConcatProperties
<1> QED
  BY <1>1 DEF JoinOf

Flattened(s, f, n) == f = [i \in 1 .. n |-> IF i = 1 THEN s[i] ELSE f[i - 1] \o s[i]]

LEMMA FlattenExists == ASSUME NEW s, NEW n \in Nat PROVE \E f : Flattened(s, f, n)
<1> DEFINE Bad == {m \in Nat : ~\E f : Flattened(s, f, m)}
<1>1. SUFFICES Bad = {}
  OBVIOUS
<1>2. SUFFICES ASSUME Bad # {} PROVE FALSE
  OBVIOUS
<1>3. PICK b \in Bad : \A m \in Bad : b <= m
  BY <1>2, LeastNat
<1>4. CASE b = 0
  <2> DEFINE g == [i \in 1 .. 0 |-> 1]
  <2>1. Flattened(s, g, 0)
    BY DEF Flattened
  <2> QED
    BY <1>3, <1>4, <2>1
<1>5. CASE b # 0
  <2>0. b \in Nat /\ b - 1 \in Nat /\ b - 1 < b
    BY <1>5
  <2>1. b - 1 \notin Bad
    <3> HIDE DEF Bad
    <3> QED
      BY <1>3, <2>0
  <2>2. \E f : Flattened(s, f, b - 1)
    BY <2>0, <2>1
  <2>3. PICK f : Flattened(s, f, b - 1)
    BY <2>2
  <2>4. \A i \in 1 .. b - 1 : f[i] = IF i = 1 THEN s[i] ELSE f[i - 1] \o s[i]
    BY <2>3 DEF Flattened
  <2> DEFINE g == [i \in 1 .. b |-> IF i = b THEN (IF b = 1 THEN s[b] ELSE f[b - 1] \o s[b]) ELSE f[i]]
  <2>5. ASSUME NEW i \in 1 .. b PROVE g[i] = IF i = 1 THEN s[i] ELSE g[i - 1] \o s[i]
    <3>1. CASE i = b
      <4>1. b # 1 => b - 1 \in 1 .. b /\ g[b - 1] = f[b - 1]
        BY <2>0
      <4> QED
        BY <3>1, <4>1
    <3>2. CASE i # b
      <4>1. i \in 1 .. b - 1 /\ g[i] = f[i]
        BY <2>0, <3>2
      <4>2. i # 1 => i - 1 \in 1 .. b /\ i - 1 # b /\ g[i - 1] = f[i - 1]
        BY <2>0, <4>1
      <4> QED
        BY <2>4, <4>1, <4>2
    <3> QED
      BY <3>1, <3>2
  <2>6. g = [i \in 1 .. b |-> g[i]]
    OBVIOUS
  <2> HIDE DEF g
  <2>7. Flattened(s, g, b)
    BY <2>5, <2>6 DEF Flattened
  <2> QED
    BY <1>3, <2>7
<1> QED
  BY <1>4, <1>5

(* v, the m elements of the first n sequences of s: the q-th is the J[q]-th of  *)
(* the K[q]-th                                                                *)
Located(s, n, v, m, K, J) ==
    /\ \A q \in 1 .. m : K[q] \in 1 .. n /\ J[q] \in DOMAIN s[K[q]] /\ v[q] = s[K[q]][J[q]]
    /\ \A k \in 1 .. n : \A j \in DOMAIN s[k] : \E q \in 1 .. m : K[q] = k /\ J[q] = j
    /\ \A q, r \in 1 .. m : q < r => K[q] < K[r] \/ (K[q] = K[r] /\ J[q] < J[r])

Gathered(S, s, n, v) == v \in Seq(S) /\ \E K, J : Located(s, n, v, Len(v), K, J)

LEMMA LocatedOne ==
    ASSUME NEW S, NEW v \in Seq(S), NEW s, s[1] = v
    PROVE  \E K, J : Located(s, 1, v, Len(v), K, J)
<1> DEFINE K == [q \in DOMAIN v |-> 1]
           J == [q \in DOMAIN v |-> q]
<1>1. 1 .. 1 = {1} /\ Len(v) \in Nat /\ DOMAIN v = 1 .. Len(v)
  OBVIOUS
<1>2. \A q \in 1 .. Len(v) : K[q] = 1 /\ J[q] = q
  OBVIOUS
<1> HIDE DEF K, J
<1>3. Located(s, 1, v, Len(v), K, J)
  BY <1>1, <1>2 DEF Located
<1> QED
  BY <1>3

LEMMA LocatedNext ==
    ASSUME NEW S, NEW s, NEW b \in Nat \ {0}, NEW a \in Seq(S), NEW w \in Seq(S), s[b + 1] = w, NEW u, u = a \o w,
           NEW K, NEW J, Located(s, b, a, Len(a), K, J)
    PROVE  Gathered(S, s, b + 1, u)
<1> DEFINE p == Len(a)
           l == Len(w)
<1>1. p \in Nat /\ l \in Nat /\ DOMAIN a = 1 .. p /\ DOMAIN w = 1 .. l
  OBVIOUS
<1>2. JoinOf(S, a, p, w, l, u)
  BY ConcatJoin
<1> HIDE DEF p, l
<1>3. u \in Seq(S) /\ Len(u) = p + l /\ \A i \in 1 .. p + l : u[i] = IF i <= p THEN a[i] ELSE w[i - p]
  BY <1>1, <1>2 DEF JoinOf
<1> DEFINE M == [q \in 1 .. p + l |-> IF q <= p THEN K[q] ELSE b + 1]
           N == [q \in 1 .. p + l |-> IF q <= p THEN J[q] ELSE q - p]
<1>4. \A q \in 1 .. p : q \in 1 .. p + l /\ M[q] = K[q] /\ N[q] = J[q] /\ u[q] = a[q]
  BY <1>1, <1>3
<1>5. \A j \in 1 .. l : p + j \in 1 .. p + l /\ M[p + j] = b + 1 /\ N[p + j] = j /\ u[p + j] = w[j]
  <2> SUFFICES ASSUME NEW j \in 1 .. l PROVE p + j \in 1 .. p + l /\ M[p + j] = b + 1 /\ N[p + j] = j /\ u[p + j] = w[j]
    OBVIOUS
  <2>1. p + j \in 1 .. p + l /\ ~(p + j <= p) /\ (p + j) - p = j
    BY <1>1
  <2> QED
    BY <1>3, <2>1
<1>6. \A q \in 1 .. p + l : q \in 1 .. p \/ \E j \in 1 .. l : q = p + j
  <2> SUFFICES ASSUME NEW q \in 1 .. p + l, q \notin 1 .. p PROVE \E j \in 1 .. l : q = p + j
    OBVIOUS
  <2>1. q - p \in 1 .. l /\ q = p + (q - p)
    BY <1>1
  <2> QED
    BY <2>1
<1> HIDE DEF M, N
<1>7. /\ \A q \in 1 .. p : K[q] \in 1 .. b /\ J[q] \in DOMAIN s[K[q]] /\ a[q] = s[K[q]][J[q]]
      /\ \A k \in 1 .. b : \A j \in DOMAIN s[k] : \E q \in 1 .. p : K[q] = k /\ J[q] = j
      /\ \A q, r \in 1 .. p : q < r => K[q] < K[r] \/ (K[q] = K[r] /\ J[q] < J[r])
  BY Zenon DEF Located, p
<1>8. ASSUME NEW q \in 1 .. p + l
      PROVE  M[q] \in 1 .. b + 1 /\ N[q] \in DOMAIN s[M[q]] /\ u[q] = s[M[q]][N[q]]
  <2>1. CASE q \in 1 .. p
    <3>1. K[q] \in 1 .. b + 1
      BY <1>7, <2>1
    <3> QED
      BY <1>4, <1>7, <2>1, <3>1
  <2>2. ASSUME NEW j \in 1 .. l, q = p + j PROVE M[q] = b + 1 /\ N[q] = j /\ u[q] = w[j]
    BY <1>5, <2>2
  <2>3. b + 1 \in 1 .. b + 1
    OBVIOUS
  <2> QED
    BY <1>1, <1>6, <2>1, <2>2, <2>3
<1>9. ASSUME NEW k \in 1 .. b + 1, NEW j \in DOMAIN s[k] PROVE \E q \in 1 .. p + l : M[q] = k /\ N[q] = j
  <2>1. CASE k \in 1 .. b
    <3>1. PICK q \in 1 .. p : K[q] = k /\ J[q] = j
      BY <1>7, <2>1
    <3> QED
      BY <1>4, <3>1
  <2>2. CASE k = b + 1
    <3>1. j \in 1 .. l
      BY <1>1, <2>2
    <3> QED
      BY <1>5, <2>2, <3>1
  <2> QED
    BY <2>1, <2>2
<1>10. ASSUME NEW q \in 1 .. p + l, NEW r \in 1 .. p + l, q < r
       PROVE  M[q] < M[r] \/ (M[q] = M[r] /\ N[q] < N[r])
  <2>1. CASE r \in 1 .. p
    <3>1. q \in 1 .. p
      BY <1>1, <1>10, <2>1
    <3> QED
      BY <1>4, <1>7, <1>10, <2>1, <3>1
  <2>2. CASE q \in 1 .. p /\ r \notin 1 .. p
    <3>1. M[q] \in 1 .. b
      BY <1>4, <1>7, <2>2
    <3>2. M[r] = b + 1
      BY <1>5, <1>6, <2>2
    <3> QED
      BY <3>1, <3>2
  <2>3. CASE q \notin 1 .. p /\ r \notin 1 .. p
    <3>1. PICK j \in 1 .. l : q = p + j
      BY <1>6, <2>3
    <3>2. PICK k \in 1 .. l : r = p + k
      BY <1>6, <2>3
    <3>3. M[q] = M[r] /\ N[q] = j /\ N[r] = k
      BY <1>5, <3>1, <3>2
    <3>4. j < k
      BY <1>1, <1>10, <3>1, <3>2
    <3> QED
      BY <3>3, <3>4
  <2> QED
    BY <2>1, <2>2, <2>3
<1>11. Located(s, b + 1, u, Len(u), M, N)
  <2>1. Located(s, b + 1, u, p + l, M, N)
    BY <1>8, <1>9, <1>10, Zenon DEF Located
  <2> QED
    BY <1>3, <2>1, Zenon
<1> QED
  BY <1>3, <1>11 DEF Gathered

LEMMA FlattenPlaces ==
    ASSUME NEW S, NEW s \in Seq(Seq(S)), NEW v, v = FlattenSeq(s)
    PROVE  Gathered(S, s, Len(s), v)
<1> DEFINE n == Len(s)
           f == CHOOSE f : f = [i \in 1 .. n |-> IF i = 1 THEN s[i] ELSE f[i - 1] \o s[i]]
           Up(i) == Gathered(S, s, i, f[i])
<1>1. n \in Nat /\ DOMAIN s = 1 .. n /\ \A i \in 1 .. n : s[i] \in Seq(S)
  OBVIOUS
<1>2. v = IF n = 0 THEN s ELSE f[n]
  BY DEF FlattenSeq
<1>3. f = [i \in 1 .. n |-> IF i = 1 THEN s[i] ELSE f[i - 1] \o s[i]]
  <2>1. \E g : g = [i \in 1 .. n |-> IF i = 1 THEN s[i] ELSE g[i - 1] \o s[i]]
    BY <1>1, FlattenExists DEF Flattened
  <2> QED
    BY <2>1
<1> HIDE DEF f, n
<1>4. \A i \in 1 .. n : f[i] = IF i = 1 THEN s[i] ELSE f[i - 1] \o s[i]
  BY <1>3
<1>5. \A i \in 1 .. n : Up(i)
  <2> DEFINE Bad == {i \in 1 .. n : ~Up(i)}
  <2>1. SUFFICES ASSUME Bad # {} PROVE FALSE
    OBVIOUS
  <2>2. Bad \subseteq Nat
    BY <1>1
  <2>3. PICK b \in Bad : \A m \in Bad : b <= m
    BY <2>1, <2>2, LeastNat
  <2>4. b \in 1 .. n /\ ~Up(b)
    OBVIOUS
  <2>5. CASE b = 1
    <3>1. f[1] = s[1] /\ s[1] \in Seq(S)
      BY <1>1, <1>4, <2>4, <2>5
    <3>2. \E K, J : Located(s, 1, f[1], Len(f[1]), K, J)
      BY <3>1, LocatedOne
    <3> QED
      BY <2>4, <2>5, <3>1, <3>2 DEF Gathered
  <2>6. CASE b # 1
    <3> DEFINE c == b - 1
    <3>1. c \in 1 .. n /\ ~(b <= c) /\ c \in Nat \ {0} /\ b = c + 1 /\ s[b] \in Seq(S)
      BY <1>1, <2>4, <2>6
    <3>2. f[b] = f[c] \o s[b]
      BY <1>4, <2>4, <2>6
    <3> HIDE DEF c
    <3>3. Up(c)
      <4>1. c \notin Bad
        <5> HIDE DEF Bad
        <5> QED
          BY <2>3, <3>1
      <4> QED
        BY <3>1, <4>1
    <3>4. PICK K, J : Located(s, c, f[c], Len(f[c]), K, J)
      BY <3>3 DEF Gathered
    <3> DEFINE a == f[c]
               w == s[b]
               u == f[b]
    <3>5. a \in Seq(S) /\ w \in Seq(S) /\ s[c + 1] = w /\ u = a \o w /\ Located(s, c, a, Len(a), K, J)
      BY <3>1, <3>2, <3>3, <3>4 DEF Gathered
    <3> HIDE DEF a, w, u
    <3>6. Gathered(S, s, c + 1, u)
      BY <3>1, <3>5, LocatedNext
    <3> QED
      BY <2>4, <3>1, <3>6 DEF u
  <2> QED
    BY <2>5, <2>6
<1>6. CASE n = 0
  <2>1. v = s /\ s = <<>> /\ 1 .. n = {} /\ Len(v) = 0
    BY <1>1, <1>2, <1>6 DEF n
  <2>2. Located(s, n, v, 0, 0, 0)
    BY <2>1 DEF Located
  <2>3. v \in Seq(S)
    BY <2>1
  <2> QED
    BY <2>1, <2>2, <2>3 DEF n, Gathered
<1>7. CASE n # 0
  <2>1. Up(n) /\ v = f[n]
    BY <1>1, <1>2, <1>5, <1>7
  <2> QED
    BY <2>1 DEF n
<1> QED
  BY <1>6, <1>7

(* s has every element of S once *)
Listed(S, s) ==
    /\ s \in Seq(S)
    /\ \A i, j \in DOMAIN s : s[i] = s[j] => i = j
    /\ \A x \in S : \E i \in DOMAIN s : s[i] = x

LEMMA InjectionLists ==
    ASSUME NEW S, IsFiniteSet(S), NEW n, n = Cardinality(S), NEW s \in [1 .. n -> S], \A i, j \in 1 .. n : s[i] = s[j] => i = j
    PROVE  Listed(S, s)
<1>1. n \in Nat
  BY FS_CardinalityType
<1>2. IsFiniteSet(1 .. n) /\ Cardinality(1 .. n) = n
  BY <1>1, FS_Interval
<1>3. s \in Injection(1 .. n, S)
  BY DEF Injection, IsInjective
<1>4. s \in Surjection(1 .. n, S)
  BY <1>2, <1>3, FS_Injection
<1>5. \A x \in S : \E i \in 1 .. n : s[i] = x
  BY <1>4 DEF Surjection
<1>6. s \in Seq(S) /\ DOMAIN s = 1 .. n
  BY <1>1
<1> QED
  BY <1>5, <1>6 DEF Listed

LEMMA AnySeqLists == ASSUME NEW S, IsFiniteSet(S), NEW s \in SetToSeqs(S) PROVE Listed(S, s)
<1> DEFINE n == Cardinality(S)
<1>1. s \in [1 .. n -> S] /\ \A i, j \in 1 .. n : s[i] = s[j] => i = j
  BY DEF SetToSeqs
<1> HIDE DEF n
<1> QED
  BY <1>1, InjectionLists DEF n

LEMMA SetSeqLists == ASSUME NEW S, IsFiniteSet(S), NEW s, s = SetToSeq(S) PROVE Listed(S, s)
<1> DEFINE n == Cardinality(S)
<1>1. \E f : f \in Bijection(1 .. n, S)
  BY FS_CardinalityType DEF ExistsBijection
<1>2. \E f \in [1 .. n -> S] : IsInjective(f)
  BY <1>1 DEF Bijection, Injection
<1>3. s = CHOOSE f \in [1 .. n -> S] : IsInjective(f)
  BY DEF SetToSeq
<1>4. s \in [1 .. n -> S] /\ IsInjective(s)
  BY <1>2, <1>3
<1>5. \A i, j \in 1 .. n : s[i] = s[j] => i = j
  BY <1>4 DEF IsInjective
<1> HIDE DEF n
<1> QED
  BY <1>4, <1>5, InjectionLists DEF n

-----------------------------------------------------------------------------
(* What only depends on the program and on what the passes decided            *)

LEMMA SameMembers ==
    ASSUME prog' = prog
    PROVE  /\ \A s : Base(s)' = Base(s) /\ Type(s)' = Type(s) /\ Vals(s)' = Vals(s) /\ Members(s)' = Members(s)
           /\ \A o : ReadMembers(o)' = ReadMembers(o) /\ WrittenMembers(o)' = WrittenMembers(o)
BY DEF Base, Type, Vals, Members, Mapped, ReadMembers, WrittenMembers

LEMMA SameVerdict == ASSUME prog' = prog PROVE \A ops, i : Verdict(ops, i)' = Verdict(ops, i) /\ Collisions(ops, i)' = Collisions(ops, i)
<1>1. \A ops, i : Collisions(ops, i)' = Collisions(ops, i)
  BY SameMembers DEF Collisions
<1>2. \A ops, i, C : ReduceVerdict(ops, i, C)' = ReduceVerdict(ops, i, C)
  BY DEF ReduceVerdict, OnlyWith, IsAtomicable, Type, Vals
<1>3. ASSUME NEW ops, NEW i PROVE Verdict(ops, i)' = Verdict(ops, i)
  <2>1. PICK C : C = Collisions(ops, i)
    OBVIOUS
  <2>2. Collisions(ops, i)' = C /\ Collisions(ops, i) = C
    BY <1>1, <2>1
  <2>3. ReduceVerdict(ops, i, C)' = ReduceVerdict(ops, i, C)
    BY <1>2
  <2>4. ReduceVerdict(ops, i, Collisions(ops, i))' = ReduceVerdict(ops, i, C)'
    BY <2>2 DEF ReduceVerdict, OnlyWith, IsAtomicable, Type, Vals
  <2> QED
    BY <2>2, <2>3, <2>4 DEF Verdict, OnlyWith
<1> QED
  BY <1>1, <1>3

LEMMA SameLocalAt ==
    ASSUME prog' = prog, NEW p, NEW i
    PROVE  /\ LocalAt(p, i)' = LocalAt(p, i)
           /\ Verdict(OpsAt(p), i)' = Verdict(OpsAt(p), i)
<1>1. PICK o : o = OpsAt(p)
  OBVIOUS
<1>2. OpsAt(p) = o /\ OpsAt(p)' = o
  BY <1>1 DEF OpsAt
<1>3. \A j : Verdict(o, j)' = Verdict(o, j) /\ Collisions(o, j)' = Collisions(o, j)
  BY SameVerdict
<1>4. CanBeParallel(o)' = CanBeParallel(o) /\ LocalUsers(o)' = LocalUsers(o)
  BY <1>3 DEF CanBeParallel, LocalUsers
<1>5. IsParallelSource(prog.block[p])' = IsParallelSource(prog.block[p])
  BY DEF IsParallelSource
<1> QED
  BY <1>2, <1>3, <1>4, <1>5 DEF LocalAt

LEMMA SameUsesMerged == ASSUME prog' = prog, NEW p, NEW s PROVE UsesMerged(p, s)' = UsesMerged(p, s)
<1>1. \A i : LocalAt(p, i)' = LocalAt(p, i)
  BY SameLocalAt
<1> QED
  BY <1>1 DEF UsesMerged, HasStateOperand, Base

LEMMA SameFilledFirst == ASSUME prog' = prog, FilledFirst PROVE FilledFirst'
<1>1. Pipes' = Pipes
  BY DEF Pipes
<1>2. \A p : OpsAt(p)' = OpsAt(p)
  BY DEF OpsAt
<1>3. \A p, i : LocalAt(p, i)' = LocalAt(p, i)
  BY SameLocalAt
<1>4. \A q, s : UsesMerged(q, s)' = UsesMerged(q, s)
  BY SameUsesMerged
<1>5. ASSUME NEW p \in Pipes, NEW i \in DOMAIN OpsAt(p), NEW s \in DOMAIN prog.states, LocalAt(p, i), s = Base(OpsAt(p)[i].st)
      PROVE  /\ \E q \in DOMAIN prog.block : UsesMerged(q, s)
             /\ \A q \in DOMAIN prog.block : UsesMerged(q, s) => p < q
  BY <1>5 DEF FilledFirst
<1> QED
  BY <1>1, <1>2, <1>3, <1>4, <1>5 DEF FilledFirst, Base

LEMMA SameScansReported == ASSUME prog' = prog PROVE ScansReported' = ScansReported
BY DEF ScansReported, Pipes, HasStateOperand, OpsAt, WrittenMembers, ReadMembers, Mapped, Members, Vals, Base

LEMMA SameViewsBuilt == ASSUME prog' = prog PROVE ViewsBuiltBetween' = ViewsBuiltBetween
BY DEF ViewsBuiltBetween, Pipes, OpsAt, Fills, Base

LEMMA SameDependencies ==
    ASSUME UNCHANGED <<prog, locals, block>>
    PROVE  Roots' = Roots /\ \A m : dependencies(m)' = dependencies(m)
BY DEF dependencies, Roots, UsesResultOf, MemberConflict, DifferentStates, Accesses, StateValue, HasStateOperand,
       WrittenMembers, ReadMembers, Mapped, Members, Vals, Base, OtherUsers

LEMMA SameNodes ==
    ASSUME UNCHANGED <<prog, locals>>
    PROVE  ThreadLocalStates' = ThreadLocalStates /\ BlockNodes' = BlockNodes
           /\ \A s : MergePoint(s)' = MergePoint(s) /\ MergeOf(s)' = MergeOf(s)
           /\ \A p : NodeOf(p)' = NodeOf(p)
<1>1. ThreadLocalStates' = ThreadLocalStates
  BY DEF ThreadLocalStates
<1>2. \A p : NodeOf(p)' = NodeOf(p)
  BY DEF NodeOf
<1>3. \A s : OtherUsers(s)' = OtherUsers(s)
  BY DEF OtherUsers, HasStateOperand
<1>4. ASSUME NEW s PROVE MergePoint(s)' = MergePoint(s)
  BY <1>3 DEF MergePoint
<1>5. \A s : MergeOf(s)' = MergeOf(s)
  BY <1>4 DEF MergeOf
<1>6. BlockNodes' = BlockNodes
  BY <1>1, <1>2, <1>5 DEF BlockNodes
<1> QED
  BY <1>1, <1>2, <1>4, <1>5, <1>6

LEMMA SameBlock ==
    ASSUME UNCHANGED <<prog, locals, block>>, phase # "analyze", BlockRight
    PROVE  BlockRight'
BY SameNodes DEF BlockRight

LEMMA SameLocalsOf == ASSUME prog' = prog, NEW P PROVE LocalsOf(P)' = LocalsOf(P)
<1>1. \A p : OpsAt(p)' = OpsAt(p)
  BY DEF OpsAt
<1>2. \A p, i : LocalAt(p, i)' = LocalAt(p, i)
  BY SameLocalAt
<1>3. \A p : {i \in DOMAIN OpsAt(p) : LocalAt(p, i)}' = {i \in DOMAIN OpsAt(p) : LocalAt(p, i)}
  BY <1>1, <1>2
<1> QED
  BY <1>3 DEF LocalsOf

LEMMA SameLocals ==
    ASSUME UNCHANGED <<prog, locals>>, phase # "analyze", phase' # "analyze", LocalsRight
    PROVE  LocalsRight'
<1> DEFINE P == {p \in Pipes : TRUE}
<1>1. locals = LocalsOf(P)
  BY DEF LocalsRight
<1>2. Pipes' = Pipes
  BY DEF Pipes
<1>3. LocalsOf(P)' = LocalsOf(P)
  BY <1>2, SameLocalsOf
<1> QED
  BY <1>1, <1>2, <1>3 DEF LocalsRight

-----------------------------------------------------------------------------
(* Programs and nodes *)

LEMMA ProgramShape ==
    ASSUME prog \in Programs
    PROVE  /\ Len(prog.block) \in Nat /\ DOMAIN prog.block = 1 .. Len(prog.block)
           /\ \A p \in DOMAIN prog.block : prog.block[p] \in NodeType
           /\ \A p \in DOMAIN prog.block : prog.block[p].kind \in {"pipe", "view", "result"}
           /\ \A p \in Pipes : /\ OpsAt(p) \in Seq(OpType)
                               /\ Len(OpsAt(p)) \in Nat /\ DOMAIN OpsAt(p) = 1 .. Len(OpsAt(p))
                               /\ \A i \in DOMAIN OpsAt(p) : OpsAt(p)[i] \in OpType
<1> DEFINE b == prog.block
<1>1. ProgramOK(prog)
  BY ProgramsAssumption
<1>2. b \in Seq(NodeType)
  BY <1>1 DEF ProgramOK
<1> HIDE DEF b
<1>3. Len(b) \in Nat /\ DOMAIN b = 1 .. Len(b) /\ \A p \in DOMAIN b : b[p] \in NodeType
  BY <1>2
<1>4. \A n \in NodeType : n.kind \in {"pipe", "view", "result"} /\ (n.kind = "pipe" => n.ops \in Seq(OpType))
  BY DEF NodeType
<1>5. \A o \in Seq(OpType) : Len(o) \in Nat /\ DOMAIN o = 1 .. Len(o) /\ \A i \in DOMAIN o : o[i] \in OpType
  OBVIOUS
<1>6. \A p \in Pipes : p \in DOMAIN b /\ OpsAt(p) = b[p].ops /\ b[p].kind = "pipe"
  BY DEF Pipes, OpsAt, b
<1>7. \A p \in Pipes : OpsAt(p) \in Seq(OpType)
  BY <1>3, <1>4, <1>6
<1>8. \A p \in Pipes : Len(OpsAt(p)) \in Nat /\ DOMAIN OpsAt(p) = 1 .. Len(OpsAt(p)) /\ \A i \in DOMAIN OpsAt(p) : OpsAt(p)[i] \in OpType
  BY <1>5, <1>7
<1>9. \A p \in DOMAIN b : b[p].kind \in {"pipe", "view", "result"}
  BY <1>3, <1>4
<1> QED
  BY <1>3, <1>7, <1>8, <1>9 DEF b

LEMMA NodeFields ==
    ASSUME prog \in Programs, NEW p \in DOMAIN prog.block
    PROVE  /\ NodeOf(p).at = p /\ NodeOf(p).kind = prog.block[p].kind /\ NodeOf(p).kind # "merge"
           /\ p \in Pipes => NodeOf(p).ops = OpsAt(p) /\ NodeOf(p).source = prog.block[p].source
           /\ p \notin Pipes => NodeOf(p).st = prog.block[p].st
<1> DEFINE n == prog.block[p]
           x == NodeOf(p)
<1>1. n \in NodeType /\ x = Placed(n, p) /\ (p \in Pipes <=> n.kind = "pipe") /\ OpsAt(p) = n.ops
  BY ProgramShape DEF NodeOf, Pipes, OpsAt
<1> HIDE DEF n, x
<1>2. CASE n \in [kind : {"pipe"}, source : STRING, rows : Seq(Nat), ops : Seq(OpType)]
  <2>1. DOMAIN n = {"kind", "source", "rows", "ops"} /\ n.kind = "pipe"
    BY <1>2
  <2>2. x.at = p /\ x.kind = n.kind /\ x.ops = n.ops /\ x.source = n.source
    BY <1>1, <2>1 DEF Placed
  <2> QED
    BY <1>1, <2>1, <2>2 DEF n, x
<1>3. CASE n \in [kind : {"view", "result"}, st : STRING]
  <2>1. DOMAIN n = {"kind", "st"} /\ n.kind \in {"view", "result"}
    BY <1>3
  <2>2. x.at = p /\ x.kind = n.kind /\ x.st = n.st
    BY <1>1, <2>1 DEF Placed
  <2> QED
    BY <1>1, <2>1, <2>2 DEF n, x
<1> QED
  BY <1>1, <1>2, <1>3 DEF NodeType

LEMMA LocalUsersIn ==
    ASSUME prog \in Programs, NEW p \in Pipes
    PROVE  LocalUsers(OpsAt(p)) \subseteq DOMAIN OpsAt(p) /\ IsFiniteSet(LocalUsers(OpsAt(p)))
<1> DEFINE o == OpsAt(p)
<1>1. Len(o) \in Nat /\ DOMAIN o = 1 .. Len(o)
  BY ProgramShape
<1> HIDE DEF o
<1>2. \A i \in DOMAIN o : Collisions(o, i) \subseteq DOMAIN o
  BY <1>1 DEF Collisions
<1>3. LocalUsers(o) \subseteq DOMAIN o
  BY <1>2 DEF LocalUsers
<1>4. IsFiniteSet(DOMAIN o)
  BY <1>1, FS_Interval
<1>5. IsFiniteSet(LocalUsers(o))
  BY <1>3, <1>4, FS_Subset
<1> QED
  BY <1>3, <1>5 DEF o

LEMMA LocalsOfIs == ASSUME NEW P, NEW u PROVE u \in LocalsOf(P) <=> \E p \in P : \E i \in DOMAIN OpsAt(p) : LocalAt(p, i) /\ u = <<p, i>>
BY DEF LocalsOf

(* The local users of the program, once all of it has been analyzed *)
LEMMA LocalsKnown ==
    ASSUME prog \in Programs, LocalsRight, phase # "analyze"
    PROVE  /\ IsFiniteSet(locals)
           /\ \A p, i : <<p, i>> \in locals <=> p \in Pipes /\ i \in DOMAIN OpsAt(p) /\ LocalAt(p, i)
           /\ \A u \in locals : u = <<u[1], u[2]>>
<1>1. locals = LocalsOf(Pipes) /\ IsFiniteSet(locals)
  BY DEF LocalsRight
<1>2. \A u : u \in locals <=> \E p \in Pipes : \E i \in DOMAIN OpsAt(p) : LocalAt(p, i) /\ u = <<p, i>>
  BY <1>1, LocalsOfIs
<1> QED
  BY <1>1, <1>2

-----------------------------------------------------------------------------
(* The walk over the block, and the merges                                    *)

LEMMA AnalyzeScanLocals == ASSUME ParallelizeInv, AnalyzeScan PROVE LocalsRight'
<1> DEFINE n == prog.block[pos]
           par == IsParallelSource(n) /\ CanBeParallel(n.ops)
           U == LocalUsers(n.ops)
           P == {p \in Pipes : p < pos}
           Q == {p \in Pipes : p < pos + 1}
<1>1. /\ phase = "analyze" /\ phase' = "analyze" /\ pos <= Len(prog.block) /\ pos' = pos + 1 /\ prog' = prog
      /\ locals' = IF par THEN locals \cup ({pos} \X U) ELSE locals
  BY DEF AnalyzeScan, passVars
<1>2. prog \in Programs /\ locals = LocalsOf(P) /\ IsFiniteSet(locals) /\ pos \in Nat \ {0}
  BY <1>1 DEF ParallelizeInv, LocalsRight
<1>3. pos \in DOMAIN prog.block /\ Pipes \subseteq Nat
  BY <1>1, <1>2, ProgramShape DEF Pipes
<1>4. n.ops = OpsAt(pos) /\ (par => pos \in Pipes)
  BY <1>3 DEF OpsAt, Pipes, IsParallelSource
<1>5. \A i : LocalAt(pos, i) <=> par /\ i \in U
  BY <1>4 DEF LocalAt
<1>6. par => U \subseteq DOMAIN OpsAt(pos) /\ IsFiniteSet(U)
  BY <1>2, <1>4, LocalUsersIn
<1>7. \A p : p \in Q <=> p \in P \/ (p = pos /\ pos \in Pipes)
  <2>1. ASSUME NEW p \in Pipes PROVE p < pos + 1 <=> p < pos \/ p = pos
    <3>1. p \in Nat /\ pos \in Nat
      BY <1>2, <1>3
    <3> QED
      BY <3>1
  <2> QED
    BY <2>1
<1> HIDE DEF n, par, U, P, Q
<1>8. \A u : u \in LocalsOf(Q) <=> u \in LocalsOf(P) \/ (par /\ \E i \in U : u = <<pos, i>>)
  BY <1>4, <1>5, <1>6, <1>7, LocalsOfIs
<1>9. locals' = LocalsOf(Q)
  <2>1. \A u : u \in {pos} \X U <=> \E i \in U : u = <<pos, i>>
    OBVIOUS
  <2> QED
    BY <1>1, <1>2, <1>8, <2>1
<1>10. IsFiniteSet(locals')
  <2>1. CASE par
    <3>1. IsFiniteSet({pos} \X U)
      BY <1>6, <2>1, FS_Product, FS_Singleton
    <3> QED
      BY <1>1, <1>2, <2>1, <3>1, FS_Union
  <2>2. CASE ~par
    BY <1>1, <1>2, <2>2
  <2> QED
    BY <2>1, <2>2
<1>11. Pipes' = Pipes /\ pos' \in Nat \ {0}
  BY <1>1, <1>2 DEF Pipes
<1>12. PICK C : C = Q
  OBVIOUS
<1>13. locals' = LocalsOf(C)'
  BY <1>1, <1>9, <1>12, SameLocalsOf
<1>14. {p \in Pipes' : phase' = "analyze" => p < pos'} = C
  BY <1>1, <1>11, <1>12 DEF Q
<1>15. LocalsOf({p \in Pipes : phase = "analyze" => p < pos})' = LocalsOf(C)'
  BY <1>14 DEF LocalsOf
<1> QED
  BY <1>1, <1>10, <1>11, <1>13, <1>15 DEF LocalsRight

LEMMA FiniteImage ==
    ASSUME NEW S, IsFiniteSet(S), NEW T, NEW f \in [S -> T], \A x \in T : \E y \in S : f[y] = x
    PROVE  IsFiniteSet(T)
<1>1. f \in Surjection(S, T)
  BY DEF Surjection
<1> QED
  BY <1>1, FS_Surjection

LEMMA MergesListed ==
    ASSUME prog \in Programs, LocalsRight, phase = "analyze", NEW p
    PROVE  Listed({MergeOf(s) : s \in {x \in ThreadLocalStates : MergePoint(x) = p}}, MergesAt(p))
<1> DEFINE T == {x \in ThreadLocalStates : MergePoint(x) = p}
           M == {MergeOf(s) : s \in T}
<1>1. IsFiniteSet(locals)
  BY DEF LocalsRight
<1>2. IsFiniteSet(ThreadLocalStates)
  <2> DEFINE f == [u \in locals |-> prog.block[u[1]].ops[u[2]].st]
  <2>1. ThreadLocalStates = {f[u] : u \in locals}
    BY Zenon DEF ThreadLocalStates
  <2>2. f = [u \in locals |-> f[u]]
    OBVIOUS
  <2> HIDE DEF f
  <2>3. f \in [locals -> ThreadLocalStates] /\ \A x \in ThreadLocalStates : \E u \in locals : f[u] = x
    BY <2>1, <2>2
  <2> QED
    BY <1>1, <2>3, FiniteImage
<1>3. IsFiniteSet(T)
  BY <1>2, FS_Subset
<1>4. IsFiniteSet(M)
  <2> DEFINE f == [x \in T |-> MergeOf(x)]
  <2>1. f \in [T -> M] /\ \A m \in M : \E x \in T : f[x] = m
    OBVIOUS
  <2> HIDE DEF f, M, T
  <2> QED
    BY <1>3, <2>1, FiniteImage
<1>5. MergesAt(p) = SetToSeq(M)
  <2>1. \A s \in T : MergeOf(s) = [kind |-> "merge", st |-> s, at |-> p]
    BY DEF MergeOf
  <2>2. M = {[kind |-> "merge", st |-> s, at |-> p] : s \in T}
    BY <2>1
  <2> QED
    BY <2>2 DEF MergesAt
<1> HIDE DEF M
<1>6. Listed(M, MergesAt(p))
  BY <1>4, <1>5, SetSeqLists
<1> QED
  BY <1>6 DEF M

LEMMA MergeFields == ASSUME NEW s PROVE MergeOf(s).kind = "merge" /\ MergeOf(s).st = s /\ MergeOf(s).at = MergePoint(s)
BY DEF MergeOf

(* The shape of the block, of which the positions in the program are 1 .. n   *)
BlockShape ==
    /\ block \in Seq(BlockNodes)
    /\ \A p \in DOMAIN prog.block : \E q \in DOMAIN block : block[q] = NodeOf(p)
    /\ \A s \in ThreadLocalStates : MergePoint(s) \in DOMAIN prog.block => \E q \in DOMAIN block : block[q] = MergeOf(s)
    /\ \A q, r \in DOMAIN block :
          block[q].at < block[r].at \/ (block[q].at = block[r].at /\ block[q].kind = "merge" /\ block[r].kind # "merge")
              => q < r
    /\ \A q, r \in DOMAIN block : block[q] = block[r] /\ block[q].kind # "merge" => q = r

LEMMA InsertMergesBlock == ASSUME ParallelizeInv, InsertMerges PROVE BlockRight'
<1> DEFINE D == DOMAIN prog.block
           s == [p \in D |-> Append(MergesAt(p), NodeOf(p))]
           v == block'
           M(p) == {MergeOf(x) : x \in {y \in ThreadLocalStates : MergePoint(y) = p}}
           l(p) == Len(MergesAt(p))
<1>1. phase = "analyze" /\ prog' = prog /\ locals' = locals /\ v = FlattenSeq(s)
  BY DEF InsertMerges, passVars, NodeOf
<1>2. prog \in Programs /\ LocalsRight
  BY DEF ParallelizeInv
<1>3. D = 1 .. Len(prog.block) /\ Len(prog.block) \in Nat
  BY <1>2, ProgramShape
<1>4. ASSUME NEW p
      PROVE  /\ MergesAt(p) \in Seq(M(p)) /\ l(p) \in Nat /\ DOMAIN MergesAt(p) = 1 .. l(p)
             /\ \A j \in 1 .. l(p) : MergesAt(p)[j] \in M(p)
             /\ \A x \in M(p) : \E j \in 1 .. l(p) : MergesAt(p)[j] = x
  <2> DEFINE m == MergesAt(p)
             S == M(p)
  <2>1. Listed(S, m)
    BY <1>1, <1>2, MergesListed
  <2> HIDE DEF m, S
  <2>2. m \in Seq(S) /\ \A x \in S : \E i \in DOMAIN m : m[i] = x
    BY <2>1 DEF Listed
  <2>3. Len(m) \in Nat /\ DOMAIN m = 1 .. Len(m) /\ \A j \in 1 .. Len(m) : m[j] \in S
    BY <2>2
  <2> QED
    BY <2>2, <2>3 DEF m, S
<1>5. \A p \in D : M(p) \subseteq BlockNodes /\ NodeOf(p) \in BlockNodes
  BY DEF BlockNodes
<1>6. ASSUME NEW p \in D
      PROVE  /\ s[p] \in Seq(BlockNodes) /\ DOMAIN s[p] = 1 .. l(p) + 1
             /\ s[p][l(p) + 1] = NodeOf(p) /\ \A j \in 1 .. l(p) : s[p][j] = MergesAt(p)[j]
  <2> DEFINE m == MergesAt(p)
             e == NodeOf(p)
             k == l(p)
             w == s[p]
             S == M(p)
  <2>1. w = Append(m, e) /\ k = Len(m)
    OBVIOUS
  <2>2. m \in Seq(S) /\ S \subseteq BlockNodes /\ e \in BlockNodes /\ k \in Nat /\ DOMAIN m = 1 .. k /\ \A j \in 1 .. k : m[j] \in S
    BY <1>4, <1>5
  <2> HIDE DEF m, e, k, w, S
  <2>3. m \in Seq(BlockNodes)
    <3>1. \A j \in 1 .. k : m[j] \in BlockNodes
      BY <2>2
    <3>2. m = [j \in 1 .. k |-> m[j]]
      BY <2>1, <2>2
    <3> QED
      BY <2>2, <3>1, <3>2
  <2>4. w \in Seq(BlockNodes) /\ Len(w) = k + 1 /\ w[k + 1] = e /\ \A j \in 1 .. k : w[j] = m[j]
    BY <2>1, <2>2, <2>3, AppendProperties
  <2>5. DOMAIN w = 1 .. k + 1
    BY <2>4
  <2> QED
    BY <2>4, <2>5 DEF m, e, k, w, S
<1> DEFINE n == Len(s)
<1>7. s \in Seq(Seq(BlockNodes)) /\ n = Len(prog.block) /\ D = 1 .. n
  <2>1. s \in [1 .. Len(prog.block) -> Seq(BlockNodes)]
    BY <1>3, <1>6
  <2> HIDE DEF s
  <2> QED
    BY <1>3, <2>1
<1> HIDE DEF s, M, l, v, n, D
<1>8. Gathered(BlockNodes, s, n, v)
  BY <1>1, <1>7, FlattenPlaces DEF n
<1>9. v \in Seq(BlockNodes)
  BY <1>8 DEF Gathered
<1>10. PICK K, J : Located(s, n, v, Len(v), K, J)
  BY <1>8 DEF Gathered
<1> DEFINE E == 1 .. Len(v)
<1>11. DOMAIN v = E /\ E \subseteq Nat
  BY <1>9
<1>12. /\ \A q \in E : K[q] \in D /\ J[q] \in DOMAIN s[K[q]] /\ v[q] = s[K[q]][J[q]]
       /\ \A k \in D : \A j \in DOMAIN s[k] : \E q \in E : K[q] = k /\ J[q] = j
       /\ \A q, r \in E : q < r => K[q] < K[r] \/ (K[q] = K[r] /\ J[q] < J[r])
  BY <1>7, <1>10, Zenon DEF Located
<1> HIDE DEF E
<1>13. \A p : \A x \in M(p) : x.kind = "merge" /\ x.at = p
  BY MergeFields DEF M
<1>14. ASSUME NEW q \in E
       PROVE  \/ v[q].kind = "merge" /\ v[q].at = K[q] /\ J[q] \in 1 .. l(K[q])
              \/ v[q].kind # "merge" /\ v[q].at = K[q] /\ J[q] = l(K[q]) + 1
  <2> DEFINE p == K[q]
             j == J[q]
             k == l(p)
  <2>1. p \in D /\ j \in 1 .. k + 1 /\ v[q] = s[p][j] /\ k \in Nat
    BY <1>4, <1>6, <1>12
  <2>2. CASE j \in 1 .. k
    <3>1. v[q] \in M(p)
      BY <1>4, <1>6, <2>1, <2>2
    <3> QED
      BY <1>13, <2>2, <3>1
  <2>3. CASE j = k + 1
    <3>1. v[q] = NodeOf(p)
      BY <1>6, <2>1, <2>3
    <3>2. NodeOf(p).kind # "merge" /\ NodeOf(p).at = p
      BY <1>2, <2>1, NodeFields DEF D
    <3> QED
      BY <2>3, <3>1, <3>2
  <2> HIDE DEF k, j
  <2>4. j \in 1 .. k \/ j = k + 1
    BY <2>1
  <2> QED
    BY <2>2, <2>3, <2>4
<1>15. ASSUME NEW q \in E, NEW r \in E,
              v[q].at < v[r].at \/ (v[q].at = v[r].at /\ v[q].kind = "merge" /\ v[r].kind # "merge")
       PROVE  q < r
  <2>1. K[q] \in Int /\ K[r] \in Int /\ q \in Int /\ r \in Int
    BY <1>3, <1>11, <1>12
  <2>2. l(K[r]) \in Nat
    BY <1>4
  <2>3. K[q] < K[r] \/ (K[q] = K[r] /\ J[q] < J[r] /\ J[q] \in Int /\ J[r] \in Int)
    <3>1. CASE v[q].at < v[r].at
      BY <1>14, <3>1
    <3>2. CASE v[q].at = v[r].at /\ v[q].kind = "merge" /\ v[r].kind # "merge"
      <4>1. K[q] = K[r] /\ J[q] \in 1 .. l(K[r]) /\ J[r] = l(K[r]) + 1
        BY <1>14, <3>2
      <4> QED
        BY <2>2, <4>1
    <3> QED
      BY <1>15, <3>1, <3>2
  <2>4. ~(r < q)
    BY <1>12, <2>1, <2>3
  <2>5. q # r
    BY <2>1, <2>3
  <2> QED
    BY <2>1, <2>4, <2>5
<1>16. ASSUME NEW q \in E, NEW r \in E, v[q] = v[r], v[q].kind # "merge" PROVE q = r
  <2>1. K[q] \in Int /\ K[r] \in Int /\ q \in Int /\ r \in Int /\ l(K[q]) \in Nat
    BY <1>3, <1>4, <1>11, <1>12
  <2>2. K[q] = K[r] /\ J[q] = l(K[q]) + 1 /\ J[r] = l(K[q]) + 1
    BY <1>14, <1>16
  <2>3. ~(q < r) /\ ~(r < q)
    BY <1>12, <2>1, <2>2
  <2> QED
    BY <2>1, <2>3
<1>17. ASSUME NEW p \in D PROVE \E q \in E : v[q] = NodeOf(p)
  <2>1. l(p) \in Nat
    BY <1>4
  <2>2. l(p) + 1 \in DOMAIN s[p]
    BY <1>6, <2>1
  <2>3. PICK q \in E : K[q] = p /\ J[q] = l(p) + 1
    BY <1>12, <2>2
  <2> QED
    BY <1>6, <1>12, <2>3
<1>18. ASSUME NEW x \in ThreadLocalStates, MergePoint(x) \in D PROVE \E q \in E : v[q] = MergeOf(x)
  <2> DEFINE p == MergePoint(x)
  <2>1. MergeOf(x) \in M(p)
    BY DEF M
  <2> HIDE DEF p
  <2>2. PICK j \in 1 .. l(p) : MergesAt(p)[j] = MergeOf(x)
    BY <1>4, <2>1
  <2>3. l(p) \in Nat /\ p \in D
    BY <1>4, <1>18 DEF p
  <2>4. j \in DOMAIN s[p] /\ s[p][j] = MergeOf(x)
    BY <1>6, <2>2, <2>3
  <2>5. PICK q \in E : K[q] = p /\ J[q] = j
    BY <1>12, <2>3, <2>4
  <2> QED
    BY <1>12, <2>4, <2>5
<1>19. BlockShape'
  <2>1. BlockNodes' = BlockNodes /\ (\A p : NodeOf(p)' = NodeOf(p)) /\ ThreadLocalStates' = ThreadLocalStates
        /\ \A x : MergePoint(x)' = MergePoint(x) /\ MergeOf(x)' = MergeOf(x)
    BY <1>1, SameNodes
  <2>2. block' \in Seq(BlockNodes)'
    BY <1>9, <2>1 DEF v
  <2>3. \A p \in DOMAIN prog'.block : \E q \in DOMAIN block' : block'[q] = NodeOf(p)'
    BY <1>1, <1>11, <1>17, <2>1 DEF v, D
  <2>4. \A x \in ThreadLocalStates' : MergePoint(x)' \in DOMAIN prog'.block => \E q \in DOMAIN block' : block'[q] = MergeOf(x)'
    BY <1>1, <1>11, <1>18, <2>1 DEF v, D
  <2>5. \A q, r \in DOMAIN block' :
            block'[q].at < block'[r].at \/ (block'[q].at = block'[r].at /\ block'[q].kind = "merge" /\ block'[r].kind # "merge")
                => q < r
    BY <1>11, <1>15 DEF v
  <2>6. \A q, r \in DOMAIN block' : block'[q] = block'[r] /\ block'[q].kind # "merge" => q = r
    BY <1>11, <1>16 DEF v
  <2> QED
    BY <2>2, <2>3, <2>4, <2>5, <2>6 DEF BlockShape
<1> QED
  BY <1>19 DEF BlockRight, BlockShape

LEMMA InsertMergesLocals == ASSUME ParallelizeInv, InsertMerges PROVE LocalsRight'
<1> DEFINE P == {p \in Pipes : p < pos}
<1>1. phase = "analyze" /\ phase' = "depend" /\ pos > Len(prog.block) /\ prog' = prog /\ locals' = locals
  BY DEF InsertMerges, passVars
<1>2. prog \in Programs /\ locals = LocalsOf(P) /\ IsFiniteSet(locals) /\ pos \in Nat
  BY <1>1 DEF ParallelizeInv, LocalsRight
<1>3. Pipes \subseteq 1 .. Len(prog.block) /\ Len(prog.block) \in Nat
  BY <1>2, ProgramShape DEF Pipes
<1>4. P = Pipes
  <2> DEFINE l == Len(prog.block)
  <2>1. pos > l /\ pos \in Nat /\ l \in Nat /\ Pipes \subseteq 1 .. l
    BY <1>1, <1>2, <1>3
  <2> HIDE DEF l
  <2>2. \A p \in Pipes : p < pos
    BY <2>1
  <2> QED
    BY <2>2
<1>5. PICK C : C = Pipes
  OBVIOUS
<1>6. Pipes' = C
  BY <1>1, <1>5 DEF Pipes
<1>7. LocalsOf(C)' = LocalsOf(C)
  BY <1>1, SameLocalsOf
<1>8. {p \in Pipes' : phase' = "analyze" => p < pos'} = C
  BY <1>1, <1>6
<1>9. LocalsOf({p \in Pipes : phase = "analyze" => p < pos})' = LocalsOf(C)'
  BY <1>8 DEF LocalsOf
<1>10. locals' = LocalsOf(C)'
  BY <1>1, <1>2, <1>4, <1>5, <1>7
<1> QED
  BY <1>1, <1>2, <1>9, <1>10 DEF LocalsRight

(* Nothing runs before the order has been found *)
LEMMA CompileRun ==
    ASSUME RunRight, phase \in {"analyze", "depend", "order"}, phase' \in {"analyze", "depend", "order"}, UNCHANGED <<todo, th, merged>>
    PROVE  RunRight'
<1>1. todo = None /\ (\A t \in Threads : th[t] = Idle) /\ merged = {}
  BY DEF RunRight, Running
<1> QED
  BY <1>1 DEF RunRight, Idle

LEMMA CompileOrder ==
    ASSUME OrderRight, phase = "analyze", phase' \in {"analyze", "depend"}, order' = order
    PROVE  OrderRight'
BY DEF OrderRight

LEMMA AnalyzeScanStep == ASSUME ParallelizeInv, AnalyzeScan PROVE ParallelizeInv'
<1>1. /\ phase = "analyze" /\ phase' = "analyze" /\ prog' = prog /\ order' = order
      /\ UNCHANGED <<todo, th, merged>>
  BY DEF AnalyzeScan, orderVars, heapVars
<1>2. prog \in Programs /\ OrderRight /\ RunRight
  BY DEF ParallelizeInv
<1>3. LocalsRight'
  BY AnalyzeScanLocals
<1>4. BlockRight'
  BY <1>1 DEF BlockRight
<1>5. OrderRight' /\ RunRight'
  BY <1>1, <1>2, CompileOrder, CompileRun
<1> QED
  BY <1>1, <1>2, <1>3, <1>4, <1>5 DEF ParallelizeInv

LEMMA InsertMergesStep == ASSUME ParallelizeInv, InsertMerges PROVE ParallelizeInv'
<1>1. /\ phase = "analyze" /\ phase' = "depend" /\ prog' = prog /\ order' = order
      /\ UNCHANGED <<todo, th, merged>>
  BY DEF InsertMerges, orderVars
<1>2. prog \in Programs /\ OrderRight /\ RunRight
  BY DEF ParallelizeInv
<1>3. LocalsRight' /\ BlockRight'
  BY InsertMergesLocals, InsertMergesBlock
<1>4. OrderRight' /\ RunRight'
  BY <1>1, <1>2, CompileOrder, CompileRun
<1> QED
  BY <1>1, <1>2, <1>3, <1>4 DEF ParallelizeInv

-----------------------------------------------------------------------------
(* The worklist of SubOpDependencyAnalysis, over roots R with dependencies D   *)

Topological(R, D, ord) ==
    /\ ord \in Seq(R)
    /\ \A i, j \in DOMAIN ord : ord[i] = ord[j] => i = j
    /\ \A i \in DOMAIN ord : \A n \in D[ord[i]] : \E j \in 1 .. i - 1 : ord[j] = n

Worklist(R, D, ord, q, c) ==
    /\ q \in Seq(R)
    /\ \A i, j \in DOMAIN q : q[i] = q[j] => i = j
    /\ \A i \in DOMAIN q : q[i] \notin ToSet(ord)
    /\ c \in [R -> Nat]
    /\ \A m \in R : c[m] = Cardinality(D[m] \ ToSet(ord))
    /\ \A m \in R : c[m] = 0 <=> m \in ToSet(q) \cup ToSet(ord)

Dependent(R, D) == R \subseteq Nat /\ \A m \in R : D[m] \subseteq R /\ IsFiniteSet(D[m]) /\ \A n \in D[m] : n < m

LEMMA EmptyCard == ASSUME NEW S, IsFiniteSet(S) PROVE Cardinality(S) \in Nat /\ (Cardinality(S) = 0 <=> S = {})
BY FS_CardinalityType, FS_EmptySet

LEMMA WorklistStarts ==
    ASSUME NEW R, NEW D, Dependent(R, D), NEW c, c = [m \in R |-> Cardinality(D[m])],
           NEW S, S = {m \in R : D[m] = {}}, NEW q, Listed(S, q), NEW e, e = << >>
    PROVE  Topological(R, D, e) /\ Worklist(R, D, e, q, c)
<1>1. DOMAIN e = {} /\ ToSet(e) = {} /\ e \in Seq(R)
  BY DEF ToSet
<1>2. \A m \in R : Cardinality(D[m]) \in Nat /\ (Cardinality(D[m]) = 0 <=> D[m] = {})
  BY EmptyCard DEF Dependent
<1>3. \A m \in R : c[m] = Cardinality(D[m] \ ToSet(e))
  BY <1>1
<1>4. q \in Seq(S) /\ S \subseteq R /\ DOMAIN q = 1 .. Len(q) /\ Len(q) \in Nat
  BY DEF Listed
<1>5. \A i \in DOMAIN q : q[i] \in S
  BY <1>4
<1>6. q \in Seq(R)
  BY <1>4, <1>5
<1>7. ToSet(q) = S
  BY <1>5 DEF ToSet, Listed
<1>8. c \in [R -> Nat] /\ \A m \in R : c[m] = 0 <=> m \in ToSet(q) \cup ToSet(e)
  BY <1>1, <1>2, <1>7
<1>9. Worklist(R, D, e, q, c)
  BY <1>1, <1>3, <1>6, <1>8 DEF Worklist, Listed
<1> QED
  BY <1>1, <1>9 DEF Topological

LEMMA AppendSet == ASSUME NEW R, NEW s \in Seq(R), NEW x, NEW u, u = Append(s, x) PROVE ToSet(u) = ToSet(s) \cup {x}
<1>1. Len(s) \in Nat /\ DOMAIN s = 1 .. Len(s) /\ DOMAIN u = 1 .. Len(s) + 1 /\ u[Len(s) + 1] = x
      /\ \A i \in 1 .. Len(s) : u[i] = s[i]
  OBVIOUS
<1>2. DOMAIN u = DOMAIN s \cup {Len(s) + 1} /\ \A i \in DOMAIN s : u[i] = s[i]
  BY <1>1
<1> QED
  BY <1>1, <1>2 DEF ToSet

LEMMA WorklistAppends ==
    ASSUME NEW R, NEW D, NEW ord, Topological(R, D, ord), NEW r \in R, r \notin ToSet(ord), D[r] \subseteq ToSet(ord),
           NEW u, u = Append(ord, r)
    PROVE  Topological(R, D, u)
<1> DEFINE l == Len(ord)
<1>1. ord \in Seq(R) /\ l \in Nat /\ DOMAIN ord = 1 .. l
  BY DEF Topological
<1>2. u \in Seq(R) /\ DOMAIN u = 1 .. l + 1 /\ u[l + 1] = r /\ \A i \in 1 .. l : u[i] = ord[i]
  BY <1>1
<1> HIDE DEF l
<1>3. \A n \in ToSet(ord) : \E j \in 1 .. l : ord[j] = n
  BY <1>1 DEF ToSet
<1>4. \A i \in 1 .. l : ord[i] # r
  BY <1>1 DEF ToSet
<1>5. \A i \in 1 .. l + 1 : i \in 1 .. l \/ i = l + 1
  BY <1>1
<1>6. ASSUME NEW i \in DOMAIN u, NEW j \in DOMAIN u, u[i] = u[j] PROVE i = j
  BY <1>1, <1>2, <1>4, <1>5, <1>6 DEF Topological
<1>7. ASSUME NEW i \in DOMAIN u, NEW n \in D[u[i]] PROVE \E j \in 1 .. i - 1 : u[j] = n
  <2>1. CASE i \in 1 .. l
    <3>1. PICK j \in 1 .. i - 1 : ord[j] = n
      BY <1>1, <1>2, <2>1 DEF Topological
    <3>2. j \in 1 .. l
      BY <1>1, <2>1
    <3> QED
      BY <1>2, <3>1, <3>2
  <2>2. CASE i = l + 1
    <3>1. i - 1 = l /\ n \in D[r]
      BY <1>1, <1>2, <2>2
    <3> QED
      BY <1>2, <1>3, <3>1
  <2> QED
    BY <1>2, <1>5, <2>1, <2>2
<1> QED
  BY <1>2, <1>6, <1>7 DEF Topological

(* The counts after r has been put into the order *)
Counted(R, D, T, c, d, r) ==
    /\ d \in [R -> Nat]
    /\ \A m \in R : d[m] = Cardinality(D[m] \ T)
    /\ \A m \in R : d[m] = 0 <=> c[m] = 0 \/ (r \in D[m] /\ c[m] = 1)

LEMMA CountsDrop ==
    ASSUME NEW R, NEW D, Dependent(R, D), NEW ord, NEW q, NEW c, Worklist(R, D, ord, q, c),
           NEW r \in R, r \notin ToSet(ord), NEW T, T = ToSet(ord) \cup {r}, NEW d,
           d = [m \in R |-> IF r \in D[m] /\ c[m] > 0 THEN c[m] - 1 ELSE c[m]]
    PROVE  Counted(R, D, T, c, d, r)
<1>1. c \in [R -> Nat] /\ \A m \in R : c[m] = Cardinality(D[m] \ ToSet(ord)) /\ IsFiniteSet(D[m] \ ToSet(ord))
  BY FS_Subset DEF Worklist, Dependent
<1>2. d \in [R -> Nat]
  BY <1>1
<1>3. ASSUME NEW m \in R PROVE d[m] = Cardinality(D[m] \ T)
  <2> DEFINE A == D[m] \ ToSet(ord)
             B == D[m] \ T
  <2>1. IsFiniteSet(A) /\ c[m] = Cardinality(A) /\ c[m] \in Nat
    BY <1>1
  <2>2. CASE r \in D[m]
    <3>1. r \in A /\ B = A \ {r}
      BY <2>2
    <3> HIDE DEF A, B
    <3>2. Cardinality(B) = Cardinality(A) - 1
      BY <2>1, <3>1, FS_RemoveElement
    <3>3. c[m] # 0
      BY <2>1, <3>1, EmptyCard
    <3> QED
      BY <2>1, <2>2, <3>2, <3>3 DEF B
  <2>3. CASE r \notin D[m]
    <3>1. B = A
      BY <2>3
    <3> QED
      BY <2>1, <2>3, <3>1
  <2> QED
    BY <2>2, <2>3
<1>4. \A m \in R : d[m] = 0 <=> c[m] = 0 \/ (r \in D[m] /\ c[m] = 1)
  BY <1>1
<1> QED
  BY <1>2, <1>3, <1>4 DEF Counted

(* The list u, which has the elements of q but r, and those of F *)
Replaced(R, q, r, F, u) ==
    /\ r \in R /\ r \in ToSet(q)
    /\ u \in Seq(R) /\ ToSet(u) = (ToSet(q) \ {r}) \cup F
    /\ \A i, j \in DOMAIN u : u[i] = u[j] => i = j

Once(q) == \A i, j \in DOMAIN q : q[i] = q[j] => i = j

LEMMA HeadReplaced ==
    ASSUME NEW R, NEW q \in Seq(R), q # << >>, Once(q), NEW r, r = Head(q),
           NEW F, NEW new, Listed(F, new), F \subseteq R, F \cap ToSet(q) = {}, NEW u, u = Tail(q) \o new
    PROVE  Replaced(R, q, r, F, u)
<1> DEFINE a == Tail(q)
           p == Len(a)
           l == Len(new)
<1>1. Len(q) \in Nat /\ Len(q) # 0 /\ DOMAIN q = 1 .. Len(q) /\ r = q[1]
  BY EmptySeq
<1>2. a \in Seq(R) /\ Len(q) = p + 1 /\ p \in Nat /\ \A i \in 1 .. p : a[i] = q[i + 1]
  BY <1>1
<1>3. new \in Seq(R) /\ l \in Nat /\ DOMAIN new = 1 .. l /\ \A i \in 1 .. l : new[i] \in F
  <2>1. new \in Seq(F)
    BY DEF Listed
  <2>2. new \in [1 .. l -> F] /\ l \in Nat
    BY <2>1
  <2>3. new \in [1 .. l -> R]
    BY <2>2
  <2> HIDE DEF l
  <2>4. new \in Seq(R)
    BY <2>2, <2>3
  <2> QED
    BY <2>2, <2>4
<1>4. u = a \o new
  OBVIOUS
<1> HIDE DEF a, p, l
<1>5. JoinOf(R, a, p, new, l, u)
  BY <1>2, <1>3, <1>4, ConcatJoin DEF p, l
<1>6. u \in Seq(R) /\ DOMAIN u = 1 .. p + l /\ \A i \in 1 .. p + l : u[i] = IF i <= p THEN a[i] ELSE new[i - p]
  BY <1>2, <1>3, <1>5 DEF JoinOf
<1>7. r \in R /\ r \in ToSet(q)
  <2>1. 1 \in DOMAIN q
    BY <1>1
  <2> QED
    BY <1>1, <2>1 DEF ToSet
<1>8. \A i \in 1 .. p + l : IF i <= p THEN i + 1 \in DOMAIN q /\ u[i] = q[i + 1] ELSE i - p \in 1 .. l /\ u[i] = new[i - p]
  <2> SUFFICES ASSUME NEW i \in 1 .. p + l
               PROVE  IF i <= p THEN i + 1 \in DOMAIN q /\ u[i] = q[i + 1] ELSE i - p \in 1 .. l /\ u[i] = new[i - p]
    OBVIOUS
  <2>1. CASE i <= p
    <3>1. i \in 1 .. p /\ i + 1 \in DOMAIN q
      BY <1>1, <1>2, <1>3, <2>1
    <3> QED
      BY <1>2, <1>6, <2>1, <3>1
  <2>2. CASE ~(i <= p)
    <3>1. i - p \in 1 .. l
      BY <1>2, <1>3, <2>2
    <3> QED
      BY <1>6, <2>2, <3>1
  <2> QED
    BY <2>1, <2>2
<1>9. /\ \A x \in ToSet(q) : \E i \in DOMAIN q : q[i] = x
      /\ \A i \in DOMAIN q : q[i] \in ToSet(q)
      /\ \A x \in ToSet(u) : \E i \in 1 .. p + l : u[i] = x
      /\ \A i \in 1 .. p + l : u[i] \in ToSet(u)
  BY <1>6 DEF ToSet
<1>10. ASSUME NEW i \in 1 .. p + l PROVE IF i <= p THEN u[i] \in ToSet(q) \ {r} ELSE u[i] \in F
  <2>1. CASE i <= p
    <3>1. i + 1 \in DOMAIN q /\ u[i] = q[i + 1] /\ i + 1 # 1 /\ 1 \in DOMAIN q
      BY <1>1, <1>2, <1>8, <2>1
    <3>2. u[i] # q[1]
      BY <3>1 DEF Once
    <3>3. u[i] \in ToSet(q) \ {r}
      BY <1>1, <1>9, <3>1, <3>2
    <3> QED
      BY <2>1, <3>3
  <2>2. CASE ~(i <= p)
    BY <1>3, <1>8, <2>2
  <2> QED
    BY <2>1, <2>2
<1>11. ASSUME NEW x \in (ToSet(q) \ {r}) \cup F PROVE x \in ToSet(u)
  <2>1. CASE x \in F
    <3>1. PICK j \in 1 .. l : new[j] = x
      BY <1>3, <2>1 DEF Listed
    <3>2. p + j \in 1 .. p + l /\ ~(p + j <= p) /\ (p + j) - p = j
      BY <1>2, <1>3
    <3>3. u[p + j] = new[j]
      BY <1>6, <3>2
    <3> QED
      BY <1>9, <3>1, <3>2, <3>3
  <2>2. CASE x \in ToSet(q) \ {r}
    <3>1. PICK j \in DOMAIN q : q[j] = x
      BY <1>9, <2>2
    <3>2. j # 1 /\ j - 1 \in 1 .. p /\ (j - 1) + 1 = j /\ j - 1 \in 1 .. p + l /\ j - 1 <= p
      BY <1>1, <1>2, <1>3, <2>2, <3>1
    <3> QED
      BY <1>8, <1>9, <3>1, <3>2
  <2> QED
    BY <2>1, <2>2
<1>12. ASSUME NEW i \in 1 .. p + l, NEW j \in 1 .. p + l, u[i] = u[j] PROVE i = j
  <2>1. CASE i <= p /\ j <= p
    <3>1. i + 1 = j + 1
      BY <1>8, <1>12, <2>1 DEF Once
    <3> QED
      BY <1>2, <1>3, <3>1
  <2>2. CASE ~(i <= p) /\ ~(j <= p)
    <3>1. i - p \in 1 .. l /\ j - p \in 1 .. l /\ new[i - p] = new[j - p]
      BY <1>8, <1>12, <2>2
    <3>2. i - p = j - p
      BY <1>3, <3>1 DEF Listed
    <3> QED
      BY <1>2, <1>3, <3>2
  <2>3. CASE (i <= p) /\ ~(j <= p)
    BY <1>2, <1>10, <1>12, <2>3
  <2>4. CASE ~(i <= p) /\ (j <= p)
    BY <1>2, <1>10, <1>12, <2>4
  <2> QED
    BY <2>1, <2>2, <2>3, <2>4
<1>13. ToSet(u) = (ToSet(q) \ {r}) \cup F
  <2>1. \A x \in ToSet(u) : x \in (ToSet(q) \ {r}) \cup F
    <3> SUFFICES ASSUME NEW x \in ToSet(u) PROVE x \in (ToSet(q) \ {r}) \cup F
      OBVIOUS
    <3>1. PICK i \in 1 .. p + l : u[i] = x
      BY <1>9
    <3> QED
      BY <1>10, <3>1
  <2>2. \A x \in (ToSet(q) \ {r}) \cup F : x \in ToSet(u)
    BY <1>11
  <2> QED
    BY <2>1, <2>2, Zenon
<1> QED
  BY <1>6, <1>7, <1>12, <1>13 DEF Replaced

LEMMA WorklistPops ==
    ASSUME NEW R, NEW D, Dependent(R, D), NEW ord, Topological(R, D, ord), NEW q, q # << >>, NEW c, Worklist(R, D, ord, q, c),
           NEW r, r = Head(q), NEW F, F = {m \in R : r \in D[m] /\ c[m] = 1}, NEW new, Listed(F, new),
           NEW d, d = [m \in R |-> IF r \in D[m] /\ c[m] > 0 THEN c[m] - 1 ELSE c[m]],
           NEW u, u = Tail(q) \o new, NEW v, v = Append(ord, r)
    PROVE  Topological(R, D, v) /\ Worklist(R, D, v, u, d)
<1>1. /\ q \in Seq(R) /\ \A i, j \in DOMAIN q : q[i] = q[j] => i = j
      /\ c \in [R -> Nat] /\ \A m \in R : c[m] = 0 <=> m \in ToSet(q) \cup ToSet(ord)
  BY DEF Worklist
<1>2. F \subseteq R /\ F \cap ToSet(q) = {} /\ F \cap ToSet(ord) = {}
  BY <1>1
<1>3. /\ r \in R /\ r \in ToSet(q)
      /\ u \in Seq(R) /\ ToSet(u) = (ToSet(q) \ {r}) \cup F
      /\ \A i, j \in DOMAIN u : u[i] = u[j] => i = j
  <2>1. Once(q) /\ q \in Seq(R)
    BY <1>1 DEF Once
  <2>2. Replaced(R, q, r, F, u)
    BY <1>2, <2>1, HeadReplaced
  <2> QED
    BY <2>2 DEF Replaced
<1>4. ToSet(q) \cap ToSet(ord) = {}
  BY DEF ToSet, Worklist
<1>5. r \notin ToSet(ord) /\ c[r] = 0
  BY <1>1, <1>3, <1>4
<1>6. ToSet(v) = ToSet(ord) \cup {r}
  BY AppendSet DEF Topological
<1>7. D[r] \subseteq ToSet(ord)
  <2>1. IsFiniteSet(D[r] \ ToSet(ord)) /\ c[r] = Cardinality(D[r] \ ToSet(ord))
    BY <1>3, FS_Subset DEF Worklist, Dependent
  <2> QED
    BY <1>5, <2>1, EmptyCard
<1>8. Topological(R, D, v)
  BY <1>3, <1>5, <1>7, WorklistAppends
<1>9. /\ d \in [R -> Nat]
      /\ \A m \in R : d[m] = Cardinality(D[m] \ ToSet(v))
      /\ \A m \in R : d[m] = 0 <=> c[m] = 0 \/ (r \in D[m] /\ c[m] = 1)
  <2> DEFINE T == ToSet(v)
  <2>1. T = ToSet(ord) \cup {r}
    BY <1>6
  <2> HIDE DEF T
  <2>2. Counted(R, D, T, c, d, r)
    BY <1>3, <1>5, <2>1, CountsDrop
  <2> QED
    BY <2>2 DEF Counted, T
<1>10. \A m \in R : d[m] = 0 <=> m \in ToSet(u) \cup ToSet(v)
  BY <1>1, <1>3, <1>6, <1>9
<1>11. \A i \in DOMAIN u : u[i] \notin ToSet(v)
  <2>1. \A i \in DOMAIN u : u[i] \in ToSet(u)
    BY DEF ToSet
  <2>2. ToSet(u) \cap ToSet(v) = {}
    <3>1. r \notin F
      BY <1>2, <1>3
    <3> QED
      BY <1>2, <1>3, <1>4, <1>6, <3>1
  <2> QED
    BY <2>1, <2>2
<1> QED
  BY <1>3, <1>8, <1>9, <1>10, <1>11 DEF Worklist

(* No root is left behind: the least one would have its dependencies in the order *)
LEMMA WorklistEnds ==
    ASSUME NEW R, NEW D, Dependent(R, D), NEW ord, NEW q, q = << >>, NEW c, Worklist(R, D, ord, q, c)
    PROVE  \A m \in R : c[m] = 0 /\ m \in ToSet(ord)
<1> DEFINE L == {m \in R : c[m] # 0}
<1>1. ToSet(q) = {}
  BY DEF ToSet
<1>2. /\ \A m \in R : c[m] = Cardinality(D[m] \ ToSet(ord)) /\ (c[m] = 0 <=> m \in ToSet(ord))
      /\ \A m \in R : IsFiniteSet(D[m] \ ToSet(ord))
  BY <1>1, FS_Subset DEF Worklist, Dependent
<1>3. SUFFICES ASSUME L # {} PROVE FALSE
  BY <1>2
<1>4. L \subseteq Nat /\ R \subseteq Nat
  BY DEF Dependent
<1>5. PICK m \in L : \A n \in L : m <= n
  BY <1>3, <1>4, LeastNat
<1>6. m \in R /\ c[m] # 0
  OBVIOUS
<1>7. ASSUME NEW n \in D[m] PROVE n \in ToSet(ord)
  <2>1. n \in R /\ n < m /\ n \in Nat /\ m \in Nat
    BY <1>4, <1>6 DEF Dependent
  <2>2. ~(m <= n)
    BY <2>1
  <2>3. n \notin L
    <3> HIDE DEF L
    <3> QED
      BY <1>5, <2>2
  <2> QED
    BY <1>2, <2>1, <2>3
<1>8. D[m] \ ToSet(ord) = {}
  BY <1>7
<1> QED
  BY <1>2, <1>6, <1>8, EmptyCard

-----------------------------------------------------------------------------
(* The order of the roots *)

Deps == [m \in Roots |-> dependencies(m)]
Ordered == Topological(Roots, Deps, order)
Listing == Worklist(Roots, Deps, order, queue, count)

LEMMA DepsShape ==
    ASSUME BlockRight, phase # "analyze"
    PROVE  Dependent(Roots, Deps) /\ IsFiniteSet(Roots) /\ Roots \subseteq DOMAIN block
<1>1. block \in Seq(BlockNodes)
  BY DEF BlockRight
<1>2. Len(block) \in Nat /\ DOMAIN block = 1 .. Len(block)
  BY <1>1
<1>3. Roots \subseteq DOMAIN block
  BY DEF Roots
<1>4. IsFiniteSet(Roots) /\ Roots \subseteq Nat
  <2>1. IsFiniteSet(1 .. Len(block))
    BY <1>2, FS_Interval
  <2> QED
    BY <1>2, <1>3, <2>1, FS_Subset
<1>5. \A m \in Roots : dependencies(m) \subseteq Roots /\ \A n \in dependencies(m) : n < m
  BY DEF dependencies
<1>6. \A m \in Roots : IsFiniteSet(dependencies(m))
  BY <1>4, <1>5, FS_Subset
<1>7. \A m \in Roots : Deps[m] = dependencies(m)
  BY DEF Deps
<1> QED
  BY <1>3, <1>4, <1>5, <1>6, <1>7 DEF Dependent

LEMMA SameDeps == ASSUME UNCHANGED <<prog, locals, block>> PROVE Roots' = Roots /\ Deps' = Deps
<1>1. Roots' = Roots /\ \A m : dependencies(m)' = dependencies(m)
  BY SameDependencies
<1> QED
  BY <1>1 DEF Deps

LEMMA OrderIs ==
    ASSUME OrderRight
    PROVE  /\ phase \notin {"analyze", "depend"} => Ordered
           /\ phase = "order" => Listing
<1>1. \A m \in Roots : Deps[m] = dependencies(m)
  BY DEF Deps
<1>2. ASSUME phase \notin {"analyze", "depend"} PROVE Ordered
  <2>1. /\ order \in Seq(Roots)
        /\ \A i, j \in DOMAIN order : order[i] = order[j] => i = j
        /\ \A m \in Roots : \A n \in dependencies(m) : \A i \in DOMAIN order : order[i] = m => \E j \in 1 .. i - 1 : order[j] = n
    BY <1>2 DEF OrderRight
  <2>2. \A i \in DOMAIN order : order[i] \in Roots
    BY <2>1
  <2> QED
    BY <1>1, <2>1, <2>2 DEF Ordered, Topological
<1>3. ASSUME phase = "order" PROVE Listing
  <2>1. /\ queue \in Seq(Roots)
        /\ \A i, j \in DOMAIN queue : queue[i] = queue[j] => i = j
        /\ \A i \in DOMAIN queue : queue[i] \notin ToSet(order)
        /\ count \in [Roots -> Nat]
        /\ \A m \in Roots : count[m] = Cardinality(dependencies(m) \ ToSet(order))
        /\ \A m \in Roots : count[m] = 0 <=> m \in ToSet(queue) \cup ToSet(order)
    BY <1>3 DEF OrderRight
  <2> QED
    BY <1>1, <2>1 DEF Listing, Worklist
<1> QED
  BY <1>2, <1>3

LEMMA OrderFrom ==
    ASSUME Ordered', phase' \notin {"analyze", "depend"},
           phase' = "order" => Listing',
           phase' \in {"run", "done"} => \A m \in Roots' : m \in ToSet(order')
    PROVE  OrderRight'
<1>1. \A m \in Roots' : Deps'[m] = dependencies(m)'
  BY DEF Deps
<1>2. /\ order' \in Seq(Roots')
      /\ \A i, j \in DOMAIN order' : order'[i] = order'[j] => i = j
      /\ \A i \in DOMAIN order' : \A n \in Deps'[order'[i]] : \E j \in 1 .. i - 1 : order'[j] = n
  BY DEF Ordered, Topological
<1>4. \A m \in Roots' : \A n \in dependencies(m)' : \A i \in DOMAIN order' : order'[i] = m => \E j \in 1 .. i - 1 : order'[j] = n
  BY <1>1, <1>2
<1>5. phase' = "order" =>
        /\ queue' \in Seq(Roots')
        /\ \A i, j \in DOMAIN queue' : queue'[i] = queue'[j] => i = j
        /\ \A i \in DOMAIN queue' : queue'[i] \notin ToSet(order')
        /\ count' \in [Roots' -> Nat]
        /\ \A m \in Roots' : count'[m] = Cardinality(Deps'[m] \ ToSet(order'))
        /\ \A m \in Roots' : count'[m] = 0 <=> m \in ToSet(queue') \cup ToSet(order')
  BY DEF Listing, Worklist
<1>6. phase' = "order" => \A m \in Roots' : count'[m] = Cardinality(dependencies(m)' \ ToSet(order'))
  BY <1>1, <1>5
<1> QED
  BY <1>2, <1>4, <1>5, <1>6 DEF OrderRight

LEMMA StartOrderStep == ASSUME ParallelizeInv, StartOrder PROVE ParallelizeInv'
<1>1. /\ phase = "depend" /\ phase' = "order" /\ UNCHANGED <<prog, locals, block, order, todo, th, merged>>
      /\ count' = [m \in Roots |-> Cardinality(dependencies(m))]
      /\ queue' \in SetToSeqs({m \in Roots : dependencies(m) = {}})
  BY DEF StartOrder, passVars, heapVars
<1>2. prog \in Programs /\ LocalsRight /\ BlockRight /\ OrderRight /\ RunRight
  BY DEF ParallelizeInv
<1>3. LocalsRight' /\ BlockRight' /\ RunRight'
  BY <1>1, <1>2, SameLocals, SameBlock, CompileRun
<1>4. order = << >>
  BY <1>1, <1>2 DEF OrderRight
<1> DEFINE R == Roots
           D == Deps
           S == {m \in R : D[m] = {}}
           q == queue'
           c == count'
           e == order
<1>5. Dependent(R, D) /\ IsFiniteSet(R)
  BY <1>1, <1>2, DepsShape
<1>6. \A m \in R : D[m] = dependencies(m)
  BY DEF Deps
<1>7. c = [m \in R |-> Cardinality(D[m])]
  BY <1>1, <1>6
<1>8. S = {m \in R : dependencies(m) = {}}
  BY <1>6
<1>9. Listed(S, q)
  <2>1. IsFiniteSet(S)
    BY <1>5, FS_Subset
  <2> HIDE DEF S
  <2>2. q \in SetToSeqs(S)
    BY <1>1, <1>8
  <2> QED
    BY <2>1, <2>2, AnySeqLists
<1>10. S = {m \in R : D[m] = {}} /\ e = << >>
  BY <1>4
<1> HIDE DEF R, D, S, q, c, e
<1>11. Topological(R, D, e) /\ Worklist(R, D, e, q, c)
  BY <1>5, <1>7, <1>9, <1>10, WorklistStarts
<1>12. Roots' = Roots /\ Deps' = Deps
  BY <1>1, SameDeps
<1>13. Ordered' /\ Listing'
  BY <1>1, <1>11, <1>12 DEF Ordered, Listing, R, D, q, c, e
<1>14. OrderRight'
  BY <1>1, <1>13, OrderFrom
<1> QED
  BY <1>1, <1>2, <1>3, <1>14 DEF ParallelizeInv

LEMMA PopRootStep == ASSUME ParallelizeInv, PopRoot PROVE ParallelizeInv'
<1> DEFINE r == Head(queue)
           F == {m \in Roots : r \in dependencies(m) /\ count[m] = 1}
<1>1. /\ phase = "order" /\ phase' = "order" /\ UNCHANGED <<prog, locals, block, todo, th, merged>> /\ queue # << >>
      /\ count' = [m \in Roots |-> IF r \in dependencies(m) /\ count[m] > 0 THEN count[m] - 1 ELSE count[m]]
      /\ \E new \in SetToSeqs(F) : queue' = Tail(queue) \o new
      /\ order' = Append(order, r)
  BY DEF PopRoot, passVars, heapVars
<1>2. prog \in Programs /\ LocalsRight /\ BlockRight /\ OrderRight /\ RunRight
  BY DEF ParallelizeInv
<1>3. LocalsRight' /\ BlockRight' /\ RunRight'
  BY <1>1, <1>2, SameLocals, SameBlock, CompileRun
<1>4. Ordered /\ Listing
  BY <1>1, <1>2, OrderIs
<1> DEFINE R == Roots
           D == Deps
           q == queue
           c == count
           o == order
           u == queue'
           d == count'
           v == order'
<1>5. Dependent(R, D) /\ IsFiniteSet(R)
  BY <1>1, <1>2, DepsShape
<1>6. \A m \in R : D[m] = dependencies(m)
  BY DEF Deps
<1>7. d = [m \in R |-> IF r \in D[m] /\ c[m] > 0 THEN c[m] - 1 ELSE c[m]]
  BY <1>1, <1>6
<1>8. F = {m \in R : r \in D[m] /\ c[m] = 1} /\ r = Head(q) /\ v = Append(o, r) /\ q # << >>
  BY <1>1, <1>6
<1>9. IsFiniteSet(F)
  BY <1>5, FS_Subset
<1>10. Topological(R, D, o) /\ Worklist(R, D, o, q, c)
  BY <1>4 DEF Ordered, Listing
<1>11. PICK new \in SetToSeqs(F) : u = Tail(q) \o new
  BY <1>1
<1>12. Roots' = Roots /\ Deps' = Deps
  BY <1>1, SameDeps
<1> HIDE DEF R, D, q, c, o, u, d, v, F, r
<1>13. Listed(F, new)
  BY <1>9, AnySeqLists
<1>14. Topological(R, D, v) /\ Worklist(R, D, v, u, d)
  BY <1>5, <1>7, <1>8, <1>10, <1>11, <1>13, WorklistPops
<1>15. Ordered' /\ Listing'
  BY <1>12, <1>14 DEF Ordered, Listing, R, D, u, d, v
<1>16. OrderRight'
  BY <1>1, <1>15, OrderFrom
<1> QED
  BY <1>1, <1>2, <1>3, <1>16 DEF ParallelizeInv

LEMMA FinishOrderStep == ASSUME ParallelizeInv, FinishOrder PROVE ParallelizeInv'
<1>1. /\ phase = "order" /\ phase' = "run" /\ pos' = 1 /\ UNCHANGED <<prog, locals, block, todo, th, merged>> /\ queue = << >>
      /\ order' = order \o InBlockOrder({m \in Roots : count[m] # 0})
  BY DEF FinishOrder, passVars, heapVars
<1>2. prog \in Programs /\ LocalsRight /\ BlockRight /\ OrderRight /\ RunRight
  BY DEF ParallelizeInv
<1>3. LocalsRight' /\ BlockRight'
  BY <1>1, <1>2, SameLocals, SameBlock
<1>4. RunRight'
  <2>1. todo = None /\ (\A t \in Threads : th[t] = Idle) /\ merged = {}
    BY <1>1, <1>2 DEF RunRight, Running
  <2>2. ~(todo' # None \/ \E t \in Threads : th'[t] # Idle) /\ merged' = {}
    BY <1>1, <2>1
  <2> QED
    BY <1>1, <2>2 DEF RunRight, Idle
<1>5. Ordered /\ Listing
  BY <1>1, <1>2, OrderIs
<1> DEFINE R == Roots
           D == Deps
           q == queue
           c == count
           o == order
<1>6. Dependent(R, D)
  BY <1>1, <1>2, DepsShape
<1>7. Topological(R, D, o) /\ Worklist(R, D, o, q, c) /\ q = << >>
  BY <1>1, <1>5 DEF Ordered, Listing
<1> HIDE DEF R, D, q, c, o
<1>8. \A m \in R : c[m] = 0 /\ m \in ToSet(o)
  BY <1>6, <1>7, WorklistEnds
<1>9. {m \in Roots : count[m] # 0} = {}
  BY <1>8 DEF R, c
<1>10. InBlockOrder({}) = << >>
  BY FS_EmptySet DEF InBlockOrder
<1>11. order' = order
  <2>1. o \in Seq(R)
    BY <1>7 DEF Topological
  <2>2. order' = o \o << >>
    BY <1>1, <1>9, <1>10 DEF o
  <2> QED
    BY <2>1, <2>2, ConcatEmptySeq DEF o
<1>12. Roots' = Roots /\ Deps' = Deps
  BY <1>1, SameDeps
<1>13. Ordered' /\ \A m \in Roots' : m \in ToSet(order')
  BY <1>5, <1>8, <1>11, <1>12 DEF Ordered, R, o
<1>14. OrderRight'
  BY <1>1, <1>13, OrderFrom
<1> QED
  BY <1>1, <1>2, <1>3, <1>4, <1>14 DEF ParallelizeInv

-----------------------------------------------------------------------------
(* The run *)

Settled == UNCHANGED <<prog, locals, block, order, queue, count>>

LEMMA RunKeeps ==
    ASSUME ParallelizeInv, phase \in {"run", "done"}, phase' \in {"run", "done"}, Settled, RunRight'
    PROVE  ParallelizeInv'
<1>1. prog \in Programs /\ LocalsRight /\ BlockRight /\ OrderRight
  BY DEF ParallelizeInv
<1>2. UNCHANGED <<prog, locals, block, order>>
  BY DEF Settled
<1>3. LocalsRight' /\ BlockRight'
  BY <1>1, <1>2, SameLocals, SameBlock
<1>4. Roots' = Roots /\ Deps' = Deps
  BY <1>2, SameDeps
<1>5. Ordered /\ \A m \in Roots : m \in ToSet(order)
  BY <1>1, OrderIs DEF OrderRight
<1>6. Ordered' /\ \A m \in Roots' : m \in ToSet(order')
  BY <1>2, <1>4, <1>5 DEF Ordered
<1>7. OrderRight'
  BY <1>6, OrderFrom
<1> QED
  BY <1>1, <1>2, <1>3, <1>7 DEF ParallelizeInv

(* What a thread's step leaves alone *)
LEMMA StepKeeps ==
    ASSUME RunRight, NEW t \in Threads, Step(t)
    PROVE  /\ UNCHANGED <<phase, pos, merged>> /\ Settled
           /\ Running /\ Node.kind = "pipe"
<1>1. Busy(t) \/ TakeRow(t)
  BY DEF Step, Materialize, LookupOrInsert, Lookup, Gather, AtomicReduce, LockEntry, LoadValues, StoreValues
<1>2. Running /\ Node.kind = "pipe"
  BY <1>1 DEF Busy, TakeRow, RunRight
<1>3. UNCHANGED <<phase, pos, merged>> /\ Settled
  <2>1. CASE TakeRow(t)
    BY <2>1 DEF TakeRow, passVars, orderVars, heapVars, Settled
  <2>2. CASE RowUnchanged /\ UNCHANGED merged
    BY <2>2 DEF RowUnchanged, passVars, orderVars, Settled
  <2>3. Materialize(t) \/ LookupOrInsert(t) \/ Lookup(t) => RowUnchanged /\ UNCHANGED merged
    BY DEF Materialize, LookupOrInsert, Lookup, Assign
  <2>4. Gather(t) \/ LockEntry(t) \/ LoadValues(t) => RowUnchanged /\ UNCHANGED merged
    BY DEF Gather, LockEntry, LoadValues, heapVars
  <2>5. AtomicReduce(t) \/ StoreValues(t) => RowUnchanged /\ UNCHANGED merged
    BY DEF AtomicReduce, StoreValues, SetVals
  <2> QED
    BY <2>1, <2>2, <2>3, <2>4, <2>5 DEF Step
<1> QED
  BY <1>2, <1>3

LEMMA StepStep == ASSUME ParallelizeInv, NEW t \in Threads, Step(t) PROVE ParallelizeInv'
<1>1. RunRight
  BY DEF ParallelizeInv
<1>2. UNCHANGED <<phase, pos, merged>> /\ Settled /\ Running /\ Node.kind = "pipe"
  BY <1>1, StepKeeps
<1>3. phase \in {"run", "done"} /\ phase' \in {"run", "done"}
  BY <1>2 DEF Running
<1>4. Running' /\ Node'.kind = "pipe"
  BY <1>2 DEF Settled, Running, Node
<1>5. RunRight'
  BY <1>1, <1>2, <1>3, <1>4 DEF RunRight, Settled
<1> QED
  BY <1>2, <1>3, <1>5, RunKeeps

(* Merged once its merge is before pos, wherever pos goes from there *)
MergedBefore(S, p) == \A s \in S : \E i \in DOMAIN order : i < p /\ block[order[i]].kind = "merge" /\ block[order[i]].st = s

LEMMA NodeStep ==
    ASSUME ParallelizeInv, Running, Settled, phase' = "run", pos' = pos + 1, todo' = None, \A t \in Threads : th'[t] = Idle,
           merged' = merged \/ (Node.kind = "merge" /\ merged' = merged \cup {Node.st})
    PROVE  ParallelizeInv'
<1>1. phase = "run" /\ pos <= Len(order) /\ RunRight
  BY DEF Running, ParallelizeInv
<1>2. pos \in Nat \ {0} /\ MergedBefore(merged, pos)
  BY <1>1 DEF RunRight, MergedBefore
<1>3. order \in Seq(Roots)
  BY <1>1 DEF ParallelizeInv, OrderRight
<1>4. DOMAIN order \subseteq Nat /\ pos \in DOMAIN order
  BY <1>1, <1>2, <1>3
<1>5. \A i \in DOMAIN order : i < pos => i < pos + 1
  BY <1>2, <1>4
<1>6. MergedBefore(merged, pos + 1)
  BY <1>2, <1>5 DEF MergedBefore
<1>7. Node.kind = "merge" => MergedBefore({Node.st}, pos + 1)
  BY <1>2, <1>4 DEF MergedBefore, Node
<1>8. MergedBefore(merged', pos + 1)
  BY <1>6, <1>7 DEF MergedBefore
<1>9. ASSUME NEW s \in merged' PROVE \E i \in DOMAIN order' : i < pos' /\ block'[order'[i]].kind = "merge" /\ block'[order'[i]].st = s
  BY <1>8, <1>9 DEF MergedBefore, Settled
<1>10. RunRight'
  BY <1>2, <1>9 DEF RunRight, Idle
<1> QED
  BY <1>1, <1>10, RunKeeps

LEMMA DriveStep == ASSUME ParallelizeInv, Drive PROVE ParallelizeInv'
<1>1. RunRight
  BY DEF ParallelizeInv
<1>2. CASE RunMerge
  <2>0. Running /\ Node.kind = "merge" /\ UNCHANGED <<phase, todo, th>> /\ Settled /\ pos' = pos + 1
    <3>1. Running /\ Node.kind = "merge" /\ pos' = pos + 1 /\ UNCHANGED <<prog, phase, passVars, block, orderVars, todo, th, locked>>
      BY <1>2, Zenon DEF RunMerge
    <3> QED
      BY <3>1 DEF passVars, orderVars, Settled
  <2>1. Running /\ Node.kind = "merge" /\ UNCHANGED <<phase, todo, th>> /\ Settled /\ pos' = pos + 1 /\ merged' = merged \cup {Node.st}
    BY <1>2, <2>0, Zenon DEF RunMerge
  <2>2. todo = None /\ \A t \in Threads : th[t] = Idle
    BY <1>1, <2>1 DEF RunRight
  <2>3. phase' = "run" /\ todo' = None /\ \A t \in Threads : th'[t] = Idle
    BY <2>1, <2>2 DEF Running
  <2> QED
    BY <2>1, <2>3, NodeStep
<1>3. CASE RunView
  <2>1. Running /\ Node.kind = "view" /\ UNCHANGED <<phase, todo, th, merged>> /\ Settled /\ pos' = pos + 1
    BY <1>3 DEF RunView, passVars, orderVars, heapVars, Settled
  <2>2. todo = None /\ \A t \in Threads : th[t] = Idle
    BY <1>1, <2>1 DEF RunRight
  <2>3. phase' = "run" /\ todo' = None /\ \A t \in Threads : th'[t] = Idle
    BY <2>1, <2>2 DEF Running
  <2> QED
    BY <2>1, <2>3, NodeStep
<1>4. CASE FinishPipe
  <2>1. Running /\ UNCHANGED <<phase, th, merged>> /\ Settled /\ pos' = pos + 1 /\ todo' = None /\ \A t \in Threads : th[t] = Idle
    BY <1>4 DEF FinishPipe, passVars, orderVars, heapVars, Settled
  <2>2. phase' = "run" /\ \A t \in Threads : th'[t] = Idle
    BY <2>1 DEF Running
  <2> QED
    BY <2>1, <2>2, NodeStep
<1>5. CASE StartPipe
  <2>1. Running /\ Node.kind = "pipe" /\ UNCHANGED <<phase, pos, th, merged>> /\ Settled
    BY <1>5 DEF StartPipe, passVars, orderVars, heapVars, Settled
  <2>2. Running' /\ Node'.kind = "pipe" /\ phase' = "run" /\ phase = "run"
    BY <2>1 DEF Settled, Running, Node
  <2>3. RunRight'
    BY <1>1, <2>1, <2>2 DEF RunRight, Settled
  <2> QED
    BY <2>1, <2>2, <2>3, RunKeeps
<1>6. CASE Finish
  <2>1. phase = "run" /\ pos > Len(order) /\ phase' = "done" /\ UNCHANGED <<pos, todo, th, merged>> /\ Settled
    BY <1>6 DEF Finish, passVars, orderVars, heapVars, Settled
  <2>2. ~Running
    <3>1. order \in Seq(Roots) /\ pos \in Nat
      BY <1>1, <2>1 DEF ParallelizeInv, OrderRight, RunRight
    <3>2. Len(order) \in Nat
      BY <3>1
    <3> QED
      BY <2>1, <3>1, <3>2 DEF Running
  <2>3. todo' = None /\ \A t \in Threads : th'[t] = Idle
    BY <1>1, <2>1, <2>2 DEF RunRight
  <2>4. RunRight'
    BY <1>1, <2>1, <2>3 DEF RunRight, Settled, Idle
  <2> QED
    BY <2>1, <2>4, RunKeeps
<1> QED
  BY <1>2, <1>3, <1>4, <1>5, <1>6 DEF Drive

LEMMA ParallelizeInit == ASSUME Init PROVE ParallelizeInv
<1>1. prog \in Programs /\ phase = "analyze" /\ pos = 1 /\ locals = {} /\ order = << >> /\ merged = {} /\ todo = None
      /\ \A t \in Threads : th[t] = Idle
  BY DEF Init
<1>2. LocalsRight
  <2>1. Pipes \subseteq 1 .. Len(prog.block) /\ Len(prog.block) \in Nat
    BY <1>1, ProgramShape DEF Pipes
  <2>2. \A p \in Pipes : ~(p < pos)
    <3> DEFINE l == Len(prog.block)
    <3>1. l \in Nat /\ Pipes \subseteq 1 .. l /\ pos = 1
      BY <1>1, <2>1
    <3> HIDE DEF l
    <3> QED
      BY <3>1
  <2>3. {p \in Pipes : phase = "analyze" => p < pos} = {}
    BY <1>1, <2>2
  <2>4. LocalsOf({}) = {}
    BY DEF LocalsOf
  <2>5. IsFiniteSet({}) /\ pos \in Nat \ {0}
    BY <1>1, FS_EmptySet
  <2> QED
    BY <1>1, <2>3, <2>4, <2>5, Zenon DEF LocalsRight
<1>3. BlockRight /\ OrderRight
  BY <1>1 DEF BlockRight, OrderRight
<1>4. RunRight
  BY <1>1 DEF RunRight
<1> QED
  BY <1>1, <1>2, <1>3, <1>4 DEF ParallelizeInv

LEMMA SameAll == ASSUME ParallelizeInv, UNCHANGED vars PROVE ParallelizeInv'
<1>1. UNCHANGED <<phase, pos, todo, th, merged>> /\ Settled
  BY DEF vars, passVars, orderVars, heapVars, Settled
<1>2. prog \in Programs /\ LocalsRight /\ BlockRight /\ OrderRight /\ RunRight /\ phase \in {"analyze", "depend", "order", "run", "done"}
  BY DEF ParallelizeInv
<1>3. LocalsRight'
  <2> DEFINE P == {p \in Pipes : phase = "analyze" => p < pos}
  <2>1. PICK C : C = P
    OBVIOUS
  <2>2. P' = C
    BY <1>1, <2>1 DEF Settled, Pipes
  <2>3. LocalsOf(C)' = LocalsOf(C)
    BY <1>1, SameLocalsOf DEF Settled
  <2>4. LocalsOf(P)' = LocalsOf(C)'
    BY <2>2 DEF LocalsOf
  <2>5. locals' = LocalsOf(P)'
    BY <1>1, <1>2, <2>1, <2>3, <2>4 DEF LocalsRight, Settled
  <2> QED
    BY <1>1, <1>2, <2>5 DEF LocalsRight, Settled
<1>4. BlockRight'
  BY <1>1, <1>2, SameBlock DEF BlockRight, Settled
<1>5. Roots' = Roots /\ Deps' = Deps
  BY <1>1, SameDeps DEF Settled
<1>6. CASE phase \in {"analyze", "depend"}
  BY <1>1, <1>2, <1>3, <1>4, <1>6, CompileRun DEF ParallelizeInv, OrderRight, Settled
<1>7. CASE phase \notin {"analyze", "depend"}
  <2>1. OrderRight'
    BY <1>1, <1>2, <1>5, <1>7, OrderIs, OrderFrom DEF Ordered, Listing, OrderRight, Settled
  <2>2. RunRight'
    <3>1. CASE phase = "order"
      BY <1>1, <1>2, <3>1, CompileRun
    <3>2. CASE phase # "order"
      BY <1>1, <1>2, <3>2 DEF RunRight, Running, Node, Settled
    <3> QED
      BY <3>1, <3>2
  <2> QED
    BY <1>1, <1>2, <1>3, <1>4, <2>1, <2>2 DEF ParallelizeInv, Settled
<1> QED
  BY <1>6, <1>7

(* The passes and the run keep the decisions, the block and its order right. *)
THEOREM PassesInvariant == Spec => []ParallelizeInv
<1>1. Init => ParallelizeInv
  BY ParallelizeInit
<1>2. ParallelizeInv /\ [Next]_vars => ParallelizeInv'
  <2> SUFFICES ASSUME ParallelizeInv, [Next]_vars PROVE ParallelizeInv'
    OBVIOUS
  <2>1. CASE Compile
    BY <2>1, AnalyzeScanStep, InsertMergesStep, StartOrderStep, PopRootStep, FinishOrderStep DEF Compile
  <2>2. CASE Drive
    BY <2>2, DriveStep
  <2>3. CASE \E t \in Threads : Step(t)
    BY <2>3, StepStep
  <2>4. CASE UNCHANGED vars
    BY <2>4, SameAll
  <2> QED
    BY <2>1, <2>2, <2>3, <2>4 DEF Next
<1> QED
  BY <1>1, <1>2, PTL DEF Spec

-----------------------------------------------------------------------------
(* The nodes of the block and what they access *)

LEMMA BaseOf ==
    ASSUME prog \in Programs, NEW s \in DOMAIN prog.states
    PROVE  /\ Base(s) \in DOMAIN prog.states /\ Base(Base(s)) = Base(s)
           /\ Type(s) # "HashIndexedView" => Base(s) = s
<1>1. ProgramOK(prog)
  BY ProgramsAssumption
<1> QED
  BY <1>1 DEF ProgramOK, Base, Type

LEMMA OpStates ==
    ASSUME prog \in Programs, NEW p \in Pipes, NEW i \in DOMAIN OpsAt(p)
    PROVE  /\ OpsAt(p)[i].st \in DOMAIN prog.states
           /\ Fills(OpsAt(p)[i]) => Type(OpsAt(p)[i].st) \notin {"HashIndexedView", "SimpleState"}
<1>1. ProgramOK(prog)
  BY ProgramsAssumption
<1>2. p \in DOMAIN prog.block /\ prog.block[p].kind = "pipe" /\ OpsAt(p) = prog.block[p].ops
  BY DEF Pipes, OpsAt
<1>3. /\ OpsAt(p)[i].st \in DOMAIN prog.states
      /\ OpsAt(p)[i].op \in {"materialize", "insert", "lookupOrInsert"} =>
            prog.states[OpsAt(p)[i].st].type \notin {"HashIndexedView", "SimpleState"}
  BY <1>1, <1>2 DEF ProgramOK
<1> QED
  BY <1>3 DEF Fills, Type

(* The operators with a local instance fill it, or look up a simple state *)
LEMMA LocalOps ==
    ASSUME prog \in Programs, NEW p \in Pipes, NEW i \in DOMAIN OpsAt(p), LocalAt(p, i)
    PROVE  LET o == OpsAt(p)[i] IN
           /\ o.op \in {"materialize", "lookupOrInsert", "lookup"}
           /\ o.op = "lookup" => Type(Base(o.st)) = "SimpleState"
<1> DEFINE ops == OpsAt(p)
           o == ops[i]
<1>1. i \in LocalUsers(ops)
  BY DEF LocalAt
<1>2. CASE Verdict(ops, i) = "local"
  <2>1. o.op \in {"materialize", "lookupOrInsert"}
    BY <1>2 DEF Verdict, ReduceVerdict
  <2> QED
    BY <2>1
<1>3. ASSUME NEW j \in DOMAIN ops, Verdict(ops, j) = "localLookup", i \in Collisions(ops, j)
      PROVE  o.op = "lookup" /\ Type(Base(o.st)) = "SimpleState"
  <2>1. ops[j].op = "reduce" /\ ReduceVerdict(ops, j, Collisions(ops, j)) = "localLookup"
    BY <1>3 DEF Verdict
  <2>2. OnlyWith(ops, Collisions(ops, j), "lookup") /\ Type(ops[j].st) = "SimpleState"
    BY <2>1 DEF ReduceVerdict
  <2>3. o.op = "lookup"
    BY <1>3, <2>2 DEF OnlyWith
  <2>4. Mapped(ops[j]) \cap Members(o.st) # {}
    BY <1>3, <2>1, <2>3 DEF Collisions, ReadMembers, WrittenMembers
  <2>5. Base(o.st) = Base(ops[j].st)
    BY <2>4 DEF Mapped, Members
  <2>6. Base(ops[j].st) = ops[j].st
    BY <2>2, OpStates, BaseOf
  <2> QED
    BY <2>2, <2>3, <2>5, <2>6
<1>4. Verdict(ops, i) = "local" \/ \E j \in DOMAIN ops : Verdict(ops, j) = "localLookup" /\ i \in Collisions(ops, j)
  BY <1>1 DEF LocalUsers
<1> QED
  BY <1>2, <1>3, <1>4

LEMMA NodesOfBlock ==
    ASSUME prog \in Programs, BlockRight, phase # "analyze", NEW q \in DOMAIN block
    PROVE  /\ block[q].kind = "pipe" => \E p \in Pipes : block[q] = NodeOf(p) /\ block[q].at = p /\ block[q].ops = OpsAt(p)
                                              /\ block[q].source = prog.block[p].source
           /\ block[q].kind = "merge" => \E s \in ThreadLocalStates : block[q] = MergeOf(s)
<1>1. block[q] \in BlockNodes
  <2>1. block \in Seq(BlockNodes)
    BY DEF BlockRight
  <2> QED
    BY <2>1
<1>2. CASE \E p \in DOMAIN prog.block : block[q] = NodeOf(p)
  <2>1. PICK p \in DOMAIN prog.block : block[q] = NodeOf(p)
    BY <1>2
  <2>2. block[q].at = p /\ block[q].kind = prog.block[p].kind /\ block[q].kind # "merge"
    BY <2>1, NodeFields
  <2>3. p \in Pipes => block[q].ops = OpsAt(p) /\ block[q].source = prog.block[p].source
    BY <2>1, NodeFields
  <2>4. block[q].kind = "pipe" => p \in Pipes
    BY <2>2 DEF Pipes
  <2> QED
    BY <2>1, <2>2, <2>3, <2>4
<1>3. CASE \E s \in ThreadLocalStates : block[q] = MergeOf(s)
  BY <1>3, MergeFields
<1> QED
  BY <1>1, <1>2, <1>3 DEF BlockNodes

AccessAt(p, i) ==
    [val |-> IF HasStateOperand(OpsAt(p)[i]) THEN StateValue(p, i, OpsAt(p)[i]) ELSE None,
     reads |-> ReadMembers(OpsAt(p)[i]), writes |-> WrittenMembers(OpsAt(p)[i])]

LEMMA AccessesOf ==
    ASSUME prog \in Programs
    PROVE  /\ \A p \in Pipes : Accesses(NodeOf(p)) = {AccessAt(p, i) : i \in DOMAIN OpsAt(p)}
           /\ \A s : Accesses(MergeOf(s)) = {[val |-> None, reads |-> Members(s), writes |-> Members(s)]}
           /\ \A p \in DOMAIN prog.block : prog.block[p].kind = "view" =>
                 Accesses(NodeOf(p)) = {[val |-> <<"state", Base(prog.block[p].st)>>,
                                         reads |-> {<<Base(prog.block[p].st), "hash">>}, writes |-> {}]}
<1>1. ASSUME NEW p \in Pipes PROVE Accesses(NodeOf(p)) = {AccessAt(p, i) : i \in DOMAIN OpsAt(p)}
  <2>1. p \in DOMAIN prog.block
    BY DEF Pipes
  <2>2. NodeOf(p).kind = "pipe" /\ NodeOf(p).at = p /\ NodeOf(p).ops = OpsAt(p)
    BY <2>1, NodeFields DEF Pipes
  <2> QED
    BY <2>2 DEF Accesses, AccessAt
<1>2. \A s : Accesses(MergeOf(s)) = {[val |-> None, reads |-> Members(s), writes |-> Members(s)]}
  BY MergeFields DEF Accesses
<1>3. ASSUME NEW p \in DOMAIN prog.block, prog.block[p].kind = "view"
      PROVE  Accesses(NodeOf(p)) = {[val |-> <<"state", Base(prog.block[p].st)>>,
                                     reads |-> {<<Base(prog.block[p].st), "hash">>}, writes |-> {}]}
  <2>1. NodeOf(p).kind = "view" /\ NodeOf(p).st = prog.block[p].st
    BY <1>3, NodeFields DEF Pipes
  <2> QED
    BY <2>1 DEF Accesses
<1> QED
  BY <1>1, <1>2, <1>3

(* The merge of a state is put before its first user of the merged state *)
LEMMA MergeFirst ==
    ASSUME prog \in Programs, LocalsRight, phase # "analyze", FilledFirst,
           NEW p \in Pipes, NEW i \in DOMAIN OpsAt(p), LocalAt(p, i), NEW s, s = Base(OpsAt(p)[i].st)
    PROVE  /\ MergePoint(s) \in DOMAIN prog.block /\ p < MergePoint(s)
           /\ \A q \in DOMAIN prog.block : UsesMerged(q, s) => q \in OtherUsers(s) /\ MergePoint(s) <= q
<1>1. \A q, j : <<q, j>> \in locals <=> q \in Pipes /\ j \in DOMAIN OpsAt(q) /\ LocalAt(q, j)
  BY LocalsKnown, Zenon
<1>2. ASSUME NEW q \in DOMAIN prog.block PROVE q \in OtherUsers(s) <=> UsesMerged(q, s)
  BY <1>1 DEF OtherUsers, UsesMerged, Pipes, OpsAt, Base
<1>3. OtherUsers(s) \subseteq DOMAIN prog.block
  BY DEF OtherUsers
<1>4. /\ \E q \in DOMAIN prog.block : UsesMerged(q, s)
      /\ \A q \in DOMAIN prog.block : UsesMerged(q, s) => p < q
  <2>1. s \in DOMAIN prog.states
    BY OpStates, BaseOf
  <2> QED
    BY <2>1 DEF FilledFirst
<1>5. OtherUsers(s) \subseteq Nat /\ OtherUsers(s) # {}
  BY <1>2, <1>3, <1>4, ProgramShape
<1>6. \E q \in OtherUsers(s) : \A r \in OtherUsers(s) : q <= r
  BY <1>5, LeastNat
<1>7. MergePoint(s) \in OtherUsers(s) /\ \A r \in OtherUsers(s) : MergePoint(s) <= r
  BY <1>6 DEF MergePoint
<1> QED
  BY <1>2, <1>3, <1>4, <1>7

LEMMA LocalConflict ==
    ASSUME prog \in Programs, NEW p \in Pipes, NEW i \in DOMAIN OpsAt(p), LocalAt(p, i), NEW s, s = Base(OpsAt(p)[i].st),
           NEW q, block[q] = NodeOf(p), NEW m, block[m] = MergeOf(s)
    PROVE  MemberConflict(block[m], block[q])
<1> DEFINE o == OpsAt(p)[i]
           a == [val |-> None, reads |-> Members(s), writes |-> Members(s)]
           b == AccessAt(p, i)
<1>1. o.op \in {"materialize", "lookupOrInsert", "lookup"}
  BY LocalOps
<1>2. Base(s) = s
  BY OpStates, BaseOf
<1>3. <<s, "key">> \in Members(s) /\ <<s, "key">> \in Members(o.st)
  BY <1>2 DEF Members
<1>4. <<s, "key">> \in ReadMembers(o) \cup WrittenMembers(o)
  BY <1>1, <1>3 DEF ReadMembers, WrittenMembers
<1>5. b.reads = ReadMembers(o) /\ b.writes = WrittenMembers(o)
  BY DEF AccessAt
<1>6. a.writes \cap (b.writes \cup b.reads) # {}
  BY <1>3, <1>4, <1>5
<1>7. a \in Accesses(block[m]) /\ b \in Accesses(block[q])
  BY AccessesOf
<1>8. ~DifferentStates(a, b)
  BY DEF DifferentStates
<1> HIDE DEF a, b
<1> QED
  BY <1>6, <1>7, <1>8 DEF MemberConflict

(* A pipeline with a local instance of s comes before the merge of s *)
LEMMA LocalsBeforeMerge ==
    ASSUME ParallelizeInv, phase # "analyze", FilledFirst,
           NEW p \in Pipes, NEW i \in DOMAIN OpsAt(p), LocalAt(p, i), NEW s, s = Base(OpsAt(p)[i].st),
           NEW q \in DOMAIN block, block[q] = NodeOf(p), NEW m \in DOMAIN block, block[m] = MergeOf(s)
    PROVE  q \in dependencies(m)
<1>1. prog \in Programs /\ LocalsRight /\ BlockRight
  BY DEF ParallelizeInv
<1>2. p < MergePoint(s)
  BY <1>1, MergeFirst
<1>3. p \in DOMAIN prog.block /\ prog.block[p].kind = "pipe"
  BY DEF Pipes
<1>4. block[q].kind = "pipe" /\ block[q].at = p
  BY <1>1, <1>3, NodeFields
<1>5. block[m].kind = "merge" /\ block[m].at = MergePoint(s)
  BY MergeFields
<1>6. q < m
  BY <1>1, <1>2, <1>4, <1>5 DEF BlockRight
<1>7. MemberConflict(block[m], block[q])
  BY <1>1, LocalConflict
<1> QED
  BY <1>4, <1>6, <1>7 DEF dependencies, Roots

LEMMA ComesBefore ==
    ASSUME OrderRight, phase \in {"run", "done"}, NEW k \in DOMAIN order, NEW n \in dependencies(order[k])
    PROVE  \E j \in DOMAIN order : order[j] = n /\ j < k
<1>1. order \in Seq(Roots)
  BY DEF OrderRight
<1>2. order[k] \in Roots /\ DOMAIN order = 1 .. Len(order) /\ Len(order) \in Nat
  BY <1>1
<1> DEFINE m == order[k]
<1>3. m \in Roots /\ order[k] = m /\ n \in dependencies(m)
  BY <1>2
<1> HIDE DEF m
<1>4. \E j \in 1 .. k - 1 : order[j] = n
  BY <1>3 DEF OrderRight
<1>5. PICK j \in 1 .. k - 1 : order[j] = n
  BY <1>4
<1>6. j \in DOMAIN order /\ j < k
  BY <1>2
<1> QED
  BY <1>5, <1>6

LEMMA RunningNode ==
    ASSUME OrderRight, RunRight, Running
    PROVE  /\ pos \in DOMAIN order /\ order[pos] \in Roots /\ order[pos] \in DOMAIN block /\ Node = block[order[pos]]
           /\ DOMAIN order \subseteq Nat
<1>1. phase = "run" /\ pos <= Len(order)
  BY DEF Running
<1>2. order \in Seq(Roots) /\ pos \in Nat \ {0}
  BY <1>1 DEF OrderRight, RunRight
<1>3. pos \in DOMAIN order /\ DOMAIN order \subseteq Nat
  BY <1>1, <1>2
<1>4. order[pos] \in Roots
  BY <1>2, <1>3
<1> QED
  BY <1>3, <1>4 DEF Roots, Node

LEMMA FilledBefore == ASSUME ParallelizeInv, FilledFirst PROVE NoInsertAfterMerge
<1>1. prog \in Programs /\ LocalsRight /\ BlockRight /\ OrderRight /\ RunRight
  BY DEF ParallelizeInv
<1>2. SUFFICES ASSUME NEW t \in Threads, Busy(t), <<Node.at, th[t].pc>> \in locals, Base(Op(t).st) \in merged
               PROVE  FALSE
  BY DEF NoInsertAfterMerge
<1> DEFINE i == th[t].pc
           q == order[pos]
           s == Base(Op(t).st)
<1>3. Running /\ phase = "run" /\ block[q].kind = "pipe" /\ Node = block[q] /\ q \in DOMAIN block /\ pos \in DOMAIN order
      /\ DOMAIN order \subseteq Nat
  BY <1>1, <1>2, RunningNode DEF Busy, Running, RunRight
<1>4. PICK p \in Pipes : block[q] = NodeOf(p) /\ block[q].at = p /\ block[q].ops = OpsAt(p)
  BY <1>1, <1>3, NodesOfBlock
<1>5. i \in DOMAIN OpsAt(p) /\ LocalAt(p, i)
  <2>1. <<p, i>> \in locals
    BY <1>2, <1>3, <1>4
  <2> HIDE DEF i
  <2> QED
    BY <1>1, <1>3, <2>1, LocalsKnown
<1>6. s = Base(OpsAt(p)[i].st) /\ s \in merged
  BY <1>2, <1>3, <1>4 DEF Op
<1> HIDE DEF i, q, s
<1>7. PICK k \in DOMAIN order : k < pos /\ block[order[k]].kind = "merge" /\ block[order[k]].st = s
  BY <1>1, <1>6 DEF RunRight
<1> DEFINE m == order[k]
<1>8. m \in DOMAIN block
  BY <1>1, <1>3 DEF OrderRight, Roots
<1>9. block[m] = MergeOf(s)
  <2>1. PICK x \in ThreadLocalStates : block[m] = MergeOf(x)
    BY <1>1, <1>3, <1>7, <1>8, NodesOfBlock
  <2> QED
    BY <1>7, <2>1, MergeFields
<1>10. m = order[k]
  OBVIOUS
<1> HIDE DEF m
<1>11. q \in dependencies(m)
  BY <1>3, <1>4, <1>5, <1>6, <1>8, <1>9, LocalsBeforeMerge
<1>12. PICK j \in DOMAIN order : order[j] = q /\ j < k
  BY <1>1, <1>3, <1>10, <1>11, ComesBefore
<1>13. j = pos
  BY <1>1, <1>3, <1>12 DEF OrderRight, q
<1>14. j \in Nat /\ k \in Nat /\ pos \in Nat
  BY <1>3
<1> QED
  BY <1>7, <1>12, <1>13, <1>14

-----------------------------------------------------------------------------
(* Readers after writers *)

(* Two accesses to the same member that the analysis holds apart: a lookup and *)
(* an operator that fills the state of the lookup                              *)
LEMMA ApartAccesses ==
    ASSUME prog \in Programs, NEW p \in Pipes, NEW i \in DOMAIN OpsAt(p), NEW r \in Pipes, NEW j \in DOMAIN OpsAt(r),
           ReadMembers(OpsAt(r)[j]) \cap WrittenMembers(OpsAt(p)[i]) # {}, DifferentStates(AccessAt(r, j), AccessAt(p, i)),
           NEW v, v = OpsAt(r)[j].st, NEW s, s = OpsAt(p)[i].st
    PROVE  /\ HasStateOperand(OpsAt(r)[j]) /\ HasStateOperand(OpsAt(p)[i]) /\ Fills(OpsAt(p)[i])
           /\ Base(s) = s /\ Base(v) = s /\ ~LocalAt(r, j)
           /\ <<s, "hash">> \in WrittenMembers(OpsAt(p)[i])
<1> DEFINE a == OpsAt(r)[j]
           b == OpsAt(p)[i]
<1>1. HasStateOperand(a) /\ HasStateOperand(b)
  BY DEF DifferentStates, AccessAt
<1>2. ReadMembers(a) # {} /\ WrittenMembers(b) # {}
  OBVIOUS
<1>3. a.op = "lookup" /\ ReadMembers(a) = Members(v)
  BY <1>1, <1>2 DEF HasStateOperand, ReadMembers
<1>4. b.op \in {"materialize", "insert", "lookupOrInsert"}
  BY <1>1, <1>2 DEF HasStateOperand, WrittenMembers
<1>5. Type(s) \notin {"HashIndexedView", "SimpleState"} /\ s \in DOMAIN prog.states
  BY <1>4, OpStates DEF Fills
<1>6. Base(s) = s
  BY <1>5, BaseOf
<1>7. \A x \in WrittenMembers(b) : x[1] = s
  BY <1>4, <1>6 DEF WrittenMembers, Members, Mapped
<1>8. \A x \in ReadMembers(a) : x[1] = Base(v)
  BY <1>3 DEF Members
<1>9. Base(v) = s
  BY <1>7, <1>8
<1>10. ~LocalAt(r, j)
  BY <1>3, <1>5, <1>9, LocalOps
<1>11. <<s, "hash">> \in WrittenMembers(b)
  BY <1>4, <1>6 DEF WrittenMembers, Members
<1> QED
  BY <1>1, <1>4, <1>6, <1>9, <1>10, <1>11 DEF Fills

(* What the pipeline at r of the block waits for: q, or what q has to come before *)
Waits(q, r) ==
    \/ q \in dependencies(r)
    \/ \E m \in dependencies(r) : q \in dependencies(m)
    \/ \E w \in dependencies(r) : \E m \in dependencies(w) : q \in dependencies(m)

LEMMA WaitsBefore ==
    ASSUME OrderRight, phase \in {"run", "done"}, NEW k \in DOMAIN order, NEW q, Waits(q, order[k])
    PROVE  \E j \in 1 .. k - 1 : order[j] = q
<1>1. DOMAIN order \subseteq Nat \ {0}
  <2>1. order \in Seq(Roots)
    BY DEF OrderRight
  <2> QED
    BY <2>1
<1>2. \A x \in DOMAIN order : \A n \in dependencies(order[x]) : \E j \in DOMAIN order : order[j] = n /\ j < x
  BY ComesBefore
<1>3. \E j \in DOMAIN order : order[j] = q /\ j < k
  <2>1. CASE q \in dependencies(order[k])
    BY <1>2, <2>1
  <2>2. ASSUME NEW m \in dependencies(order[k]), q \in dependencies(m) PROVE \E j \in DOMAIN order : order[j] = q /\ j < k
    <3>1. PICK x \in DOMAIN order : order[x] = m /\ x < k
      BY <1>2, <2>2
    <3>2. PICK j \in DOMAIN order : order[j] = q /\ j < x
      BY <1>2, <2>2, <3>1
    <3>3. j < k
      BY <1>1, <3>1, <3>2
    <3> QED
      BY <3>2, <3>3
  <2>3. ASSUME NEW w \in dependencies(order[k]), NEW m \in dependencies(w), q \in dependencies(m)
        PROVE  \E j \in DOMAIN order : order[j] = q /\ j < k
    <3>1. PICK y \in DOMAIN order : order[y] = w /\ y < k
      BY <1>2, <2>3
    <3>2. PICK x \in DOMAIN order : order[x] = m /\ x < y
      BY <1>2, <2>3, <3>1
    <3>3. PICK j \in DOMAIN order : order[j] = q /\ j < x
      BY <1>2, <2>3, <3>2
    <3>4. j < k
      BY <1>1, <3>1, <3>2, <3>3
    <3> QED
      BY <3>3, <3>4
  <2> QED
    BY <2>1, <2>2, <2>3 DEF Waits
<1>4. \A j \in DOMAIN order : j < k => j \in 1 .. k - 1
  BY <1>1
<1> QED
  BY <1>3, <1>4

LEMMA ConflictWaits ==
    ASSUME NEW q \in Roots, NEW r \in Roots, q < r, MemberConflict(block[r], block[q])
    PROVE  Waits(q, r)
BY DEF Waits, dependencies

(* The merge of the state that the pipeline at p fills local instances of, before  *)
(* the user of the merged state at u                                               *)
LEMMA MergeBetween ==
    ASSUME ParallelizeInv, phase # "analyze", FilledFirst,
           NEW p \in Pipes, NEW i \in DOMAIN OpsAt(p), LocalAt(p, i), NEW s, s = OpsAt(p)[i].st, Base(s) = s,
           NEW q \in DOMAIN block, block[q] = NodeOf(p),
           NEW u \in DOMAIN prog.block, UsesMerged(u, s), NEW r \in DOMAIN block, block[r] = NodeOf(u)
    PROVE  \E m \in dependencies(r) : q \in dependencies(m)
<1>1. prog \in Programs /\ LocalsRight /\ BlockRight
  BY DEF ParallelizeInv
<1>2. /\ MergePoint(s) \in DOMAIN prog.block
      /\ u \in OtherUsers(s) /\ MergePoint(s) <= u
  BY <1>1, MergeFirst
<1>3. s \in ThreadLocalStates
  <2>1. <<p, i>> \in locals
    BY <1>1, LocalsKnown, Zenon
  <2> DEFINE lu == <<p, i>>
  <2>2. lu \in locals /\ lu[1] = p /\ lu[2] = i
    BY <2>1
  <2>3. s = prog.block[p].ops[i].st
    BY DEF OpsAt
  <2> HIDE DEF lu
  <2>4. s = prog.block[lu[1]].ops[lu[2]].st
    BY <2>2, <2>3
  <2> QED
    BY <2>2, <2>4, Zenon DEF ThreadLocalStates
<1>4. PICK m \in DOMAIN block : block[m] = MergeOf(s)
  BY <1>1, <1>2, <1>3 DEF BlockRight
<1>5. q \in dependencies(m)
  BY <1>4, LocalsBeforeMerge
<1>6. block[m].kind = "merge" /\ block[m].at = MergePoint(s) /\ block[m].st = s
  BY <1>4, MergeFields
<1>7. block[r].at = u /\ block[r].kind # "merge"
  BY <1>1, NodeFields
<1>8. m < r
  <2>1. u \in Nat /\ MergePoint(s) \in Nat
    BY <1>1, <1>2, ProgramShape
  <2>2. MergePoint(s) < u \/ MergePoint(s) = u
    BY <1>2, <2>1
  <2> QED
    BY <1>1, <1>6, <1>7, <2>2 DEF BlockRight
<1>9. UsesResultOf(block[r], block[m])
  BY <1>2, <1>6, <1>7 DEF UsesResultOf
<1>10. m \in dependencies(r)
  BY <1>6, <1>8, <1>9 DEF dependencies, Roots
<1> QED
  BY <1>5, <1>10

LEMMA PipeNodes ==
    ASSUME prog \in Programs, NEW p \in Pipes, NEW q \in DOMAIN block, block[q] = NodeOf(p)
    PROVE  /\ p \in DOMAIN prog.block /\ prog.block[p].kind = "pipe"
           /\ block[q].kind = "pipe" /\ block[q].at = p /\ block[q].ops = OpsAt(p) /\ q \in Roots
<1>1. p \in DOMAIN prog.block /\ prog.block[p].kind = "pipe"
  BY DEF Pipes
<1>2. block[q].kind = "pipe" /\ block[q].at = p /\ block[q].ops = OpsAt(p)
  BY <1>1, NodeFields
<1> QED
  BY <1>1, <1>2 DEF Roots

(* The view at n of the program, between the pipeline at p, which fills its buffer, *)
(* and the one at r, which uses it                                                  *)
LEMMA ViewBetween ==
    ASSUME ParallelizeInv, phase # "analyze", FilledFirst,
           NEW p \in Pipes, NEW i \in DOMAIN OpsAt(p), NEW s, s = OpsAt(p)[i].st, Base(s) = s, HasStateOperand(OpsAt(p)[i]),
           <<s, "hash">> \in WrittenMembers(OpsAt(p)[i]),
           NEW r \in Pipes, NEW j \in DOMAIN OpsAt(r), NEW v, v = OpsAt(r)[j].st, Base(v) = s,
           NEW n \in DOMAIN prog.block, p < n, n < r, prog.block[n].kind = "view", prog.block[n].st = v,
           NEW q \in DOMAIN block, block[q] = NodeOf(p), NEW x \in DOMAIN block, block[x] = NodeOf(r)
    PROVE  Waits(q, x)
<1>1. prog \in Programs /\ LocalsRight /\ BlockRight
  BY DEF ParallelizeInv
<1>2. PICK w \in DOMAIN block : block[w] = NodeOf(n)
  BY <1>1 DEF BlockRight
<1>3. block[w].kind = "view" /\ block[w].st = v /\ block[w].at = n
  BY <1>1, <1>2, NodeFields DEF Pipes
<1>4. block[x].kind = "pipe" /\ block[x].at = r /\ block[x].ops = OpsAt(r) /\ block[q].at = p /\ q \in Roots /\ x \in Roots
  BY <1>1, PipeNodes
<1>5. q < w /\ w < x
  BY <1>1, <1>3, <1>4 DEF BlockRight
<1>6. w \in Roots
  BY <1>3 DEF Roots
<1>7. w \in dependencies(x)
  <2>1. UsesResultOf(block[x], block[w])
    BY <1>3, <1>4 DEF UsesResultOf
  <2> QED
    BY <1>5, <1>6, <2>1 DEF dependencies
<1>8. CASE LocalAt(p, i)
  <2>1. UsesMerged(n, s)
    BY DEF UsesMerged
  <2>2. \E m \in dependencies(w) : q \in dependencies(m)
    BY <1>2, <1>8, <2>1, MergeBetween
  <2> QED
    BY <1>7, <2>2 DEF Waits
<1>9. CASE ~LocalAt(p, i)
  <2> DEFINE a == [val |-> <<"state", s>>, reads |-> {<<s, "hash">>}, writes |-> {}]
             b == AccessAt(p, i)
  <2>1. a \in Accesses(block[w])
    BY <1>1, <1>2, AccessesOf
  <2>2. b \in Accesses(block[q])
    BY <1>1, AccessesOf
  <2>3. <<p, i>> \notin locals
    BY <1>1, <1>9, LocalsKnown
  <2>4. b.val = <<"state", s>> /\ b.writes = WrittenMembers(OpsAt(p)[i])
    BY <2>3 DEF AccessAt, StateValue
  <2>5. ~DifferentStates(a, b) /\ a.reads \cap b.writes # {}
    BY <2>4 DEF DifferentStates
  <2> HIDE DEF a, b
  <2>6. MemberConflict(block[w], block[q])
    BY <2>1, <2>2, <2>5 DEF MemberConflict
  <2>7. q \in dependencies(w)
    BY <1>4, <1>5, <2>6 DEF dependencies
  <2> QED
    BY <1>7, <2>7 DEF Waits
<1> QED
  BY <1>8, <1>9

LEMMA AccessOrdered ==
    ASSUME ParallelizeInv, phase # "analyze", FilledFirst, ViewsBuiltBetween,
           NEW p \in Pipes, NEW i \in DOMAIN OpsAt(p), NEW r \in Pipes, NEW j \in DOMAIN OpsAt(r), p < r,
           ReadMembers(OpsAt(r)[j]) \cap WrittenMembers(OpsAt(p)[i]) # {},
           NEW q \in DOMAIN block, block[q] = NodeOf(p), NEW x \in DOMAIN block, block[x] = NodeOf(r), q < x
    PROVE  Waits(q, x)
<1> DEFINE a == AccessAt(r, j)
           b == AccessAt(p, i)
           v == OpsAt(r)[j].st
           s == OpsAt(p)[i].st
<1>1. prog \in Programs /\ LocalsRight /\ BlockRight
  BY DEF ParallelizeInv
<1>2. a \in Accesses(block[x]) /\ b \in Accesses(block[q])
  BY <1>1, AccessesOf
<1>3. q \in Roots /\ x \in Roots
  BY <1>1, PipeNodes
<1>4. CASE ~DifferentStates(a, b)
  <2>1. a.reads \cap b.writes # {}
    BY DEF AccessAt
  <2> HIDE DEF a, b
  <2>2. MemberConflict(block[x], block[q])
    BY <1>2, <1>4, <2>1 DEF MemberConflict
  <2> QED
    BY <1>3, <2>2, ConflictWaits
<1>5. CASE DifferentStates(a, b)
  <2>1. /\ HasStateOperand(OpsAt(r)[j]) /\ HasStateOperand(OpsAt(p)[i]) /\ Fills(OpsAt(p)[i])
        /\ Base(s) = s /\ Base(v) = s /\ ~LocalAt(r, j)
        /\ <<s, "hash">> \in WrittenMembers(OpsAt(p)[i])
    BY <1>1, <1>5, ApartAccesses
  <2>2. CASE v # s
    <3>1. PICK n \in DOMAIN prog.block : /\ n < r /\ prog.block[n].kind = "view" /\ prog.block[n].st = v
                                         /\ p < n
      BY <2>1, <2>2 DEF ViewsBuiltBetween
    <3> HIDE DEF a, b, v, s
    <3>2. s = OpsAt(p)[i].st /\ v = OpsAt(r)[j].st
      BY DEF s, v
    <3> QED
      BY <2>1, <3>1, <3>2, ViewBetween
  <2>3. CASE v = s
    <3>1. LocalAt(p, i)
      <4>1. SUFFICES ASSUME ~LocalAt(p, i) PROVE FALSE
        OBVIOUS
      <4>2. <<p, i>> \notin locals /\ <<r, j>> \notin locals
        BY <1>1, <2>1, <4>1, LocalsKnown
      <4>3. a.val = <<"state", v>> /\ b.val = <<"state", s>>
        BY <2>1, <4>2 DEF AccessAt, StateValue
      <4> QED
        BY <1>5, <2>3, <4>3 DEF DifferentStates
    <3>2. r \in DOMAIN prog.block /\ prog.block[r].kind = "pipe"
      BY DEF Pipes
    <3>3. UsesMerged(r, s)
      BY <2>1, <2>3, <3>2 DEF UsesMerged, OpsAt
    <3>4. \E m \in dependencies(x) : q \in dependencies(m)
      BY <2>1, <3>1, <3>2, <3>3, MergeBetween
    <3> QED
      BY <3>4 DEF Waits
  <2> QED
    BY <2>2, <2>3
<1> QED
  BY <1>4, <1>5

LEMMA ScanOrdered ==
    ASSUME ParallelizeInv, ScansReported,
           NEW p \in Pipes, NEW i \in DOMAIN OpsAt(p), NEW r \in Pipes, p < r,
           prog.block[r].source \in DOMAIN prog.states, WrittenMembers(OpsAt(p)[i]) \cap Members(prog.block[r].source) # {},
           NEW q \in DOMAIN block, block[q] = NodeOf(p), NEW x \in DOMAIN block, block[x] = NodeOf(r), q < x
    PROVE  Waits(q, x)
<1>1. prog \in Programs
  BY DEF ParallelizeInv
<1>2. PICK k \in DOMAIN OpsAt(p), j \in DOMAIN OpsAt(r) :
          ~HasStateOperand(OpsAt(r)[j]) /\ ReadMembers(OpsAt(r)[j]) \cap WrittenMembers(OpsAt(p)[k]) # {}
  BY DEF ScansReported
<1> DEFINE a == AccessAt(r, j)
           b == AccessAt(p, k)
<1>3. a \in Accesses(block[x]) /\ b \in Accesses(block[q])
  BY <1>1, AccessesOf
<1>4. ~DifferentStates(a, b) /\ a.reads \cap b.writes # {}
  BY <1>2 DEF AccessAt, DifferentStates
<1> HIDE DEF a, b
<1>5. MemberConflict(block[x], block[q])
  BY <1>3, <1>4 DEF MemberConflict
<1> QED
  BY <1>1, <1>5, PipeNodes, ConflictWaits

LEMMA ReadersWait ==
    ASSUME ParallelizeInv, FilledFirst, ScansReported, ViewsBuiltBetween
    PROVE  ReadersAfterWriters
<1>1. prog \in Programs /\ LocalsRight /\ BlockRight /\ OrderRight /\ RunRight
  BY DEF ParallelizeInv
<1>2. SUFFICES ASSUME Running, todo # None, NEW q \in Roots, q < order[pos], block[q].kind = "pipe",
                      ReallyRead(Node) \cap UNION {b.writes : b \in Accesses(block[q])} # {}
               PROVE  \E i \in 1 .. pos - 1 : order[i] = q
  BY DEF ReadersAfterWriters
<1> DEFINE x == order[pos]
<1>3. phase = "run" /\ block[x].kind = "pipe" /\ Node = block[x] /\ x \in DOMAIN block /\ x \in Roots /\ pos \in DOMAIN order /\ q < x
  BY <1>1, <1>2, RunningNode DEF Running, RunRight
<1>4. q \in DOMAIN block /\ x = order[pos]
  BY DEF Roots
<1> HIDE DEF x
<1>5. PICK p \in Pipes : block[q] = NodeOf(p) /\ block[q].at = p
  BY <1>1, <1>2, <1>3, <1>4, NodesOfBlock
<1>6. PICK r \in Pipes : block[x] = NodeOf(r) /\ block[x].at = r /\ block[x].source = prog.block[r].source
  BY <1>1, <1>3, NodesOfBlock
<1>7. p < r
  <2>1. p \in Nat /\ r \in Nat /\ q \in Nat /\ x \in Nat
    <3>1. block \in Seq(BlockNodes)
      BY <1>1, <1>3 DEF BlockRight
    <3>2. DOMAIN block \subseteq Nat
      BY <3>1
    <3> QED
      BY <1>1, <1>3, <1>4, <3>2, ProgramShape DEF Pipes
  <2>2. ~(r < p)
    <3>1. r < p => x < q
      BY <1>1, <1>3, <1>4, <1>5, <1>6 DEF BlockRight
    <3> QED
      BY <1>3, <2>1, <3>1
  <2>3. p # r
    <3>1. p = r => q = x
      BY <1>1, <1>2, <1>3, <1>4, <1>5, <1>6 DEF BlockRight
    <3> QED
      BY <1>3, <2>1, <3>1
  <2> QED
    BY <2>1, <2>2, <2>3
<1>8. PICK y : y \in ReallyRead(Node) /\ \E b \in Accesses(block[q]) : y \in b.writes
  BY <1>2
<1>9. PICK i \in DOMAIN OpsAt(p) : y \in WrittenMembers(OpsAt(p)[i])
  <2>1. PICK b \in Accesses(block[q]) : y \in b.writes
    BY <1>8
  <2>2. PICK i \in DOMAIN OpsAt(p) : b = AccessAt(p, i)
    BY <1>1, <1>5, <2>1, AccessesOf
  <2> QED
    BY <2>1, <2>2 DEF AccessAt
<1>10. Waits(q, x)
  <2>1. CASE \E a \in Accesses(block[x]) : y \in a.reads
    <3>1. PICK a \in Accesses(block[x]) : y \in a.reads
      BY <2>1
    <3>2. PICK j \in DOMAIN OpsAt(r) : a = AccessAt(r, j)
      BY <1>1, <1>6, <3>1, AccessesOf
    <3>3. ReadMembers(OpsAt(r)[j]) \cap WrittenMembers(OpsAt(p)[i]) # {}
      BY <1>9, <3>1, <3>2 DEF AccessAt
    <3> QED
      BY <1>3, <1>4, <1>5, <1>6, <1>7, <3>3, AccessOrdered
  <2>2. CASE prog.block[r].source \in DOMAIN prog.states /\ y \in Members(prog.block[r].source)
    <3>1. WrittenMembers(OpsAt(p)[i]) \cap Members(prog.block[r].source) # {}
      BY <1>9, <2>2
    <3> QED
      BY <1>3, <1>4, <1>5, <1>6, <1>7, <2>2, <3>1, ScanOrdered
  <2>3. (\E a \in Accesses(block[x]) : y \in a.reads) \/ (prog.block[r].source \in DOMAIN prog.states /\ y \in Members(prog.block[r].source))
    <3> DEFINE n == block[x]
    <3>1. y \in ReallyRead(n) /\ n.source = prog.block[r].source /\ n = block[x]
      BY <1>3, <1>6, <1>8
    <3> HIDE DEF n
    <3>2. (y \in UNION {a.reads : a \in Accesses(n)}) \/ y \in (IF n.source \in DOMAIN prog.states THEN Members(n.source) ELSE {})
      <4> DEFINE U == UNION {a.reads : a \in Accesses(n)}
                 I == IF n.source \in DOMAIN prog.states THEN Members(n.source) ELSE {}
      <4>1. ReallyRead(n) = U \cup I
        BY Zenon DEF ReallyRead
      <4> HIDE DEF U, I
      <4>2. y \in U \/ y \in I
        BY <3>1, <4>1
      <4> QED
        BY <4>2 DEF U, I
    <3>3. y \in UNION {a.reads : a \in Accesses(n)} => \E a \in Accesses(n) : y \in a.reads
      OBVIOUS
    <3>4. y \in (IF n.source \in DOMAIN prog.states THEN Members(n.source) ELSE {})
            => n.source \in DOMAIN prog.states /\ y \in Members(n.source)
      OBVIOUS
    <3> QED
      BY <3>1, <3>2, <3>3, <3>4
  <2> QED
    BY <2>1, <2>2, <2>3
<1> QED
  BY <1>1, <1>3, <1>4, <1>10, WaitsBefore

-----------------------------------------------------------------------------
(* The theorems *)

(* EnforceOrderPass keeps every root of the block, runs none twice, and none  *)
(* before a pipeline, merge or view that it depends on, whatever order the    *)
(* worklist of SubOpDependencyAnalysis takes the roots in: no root is on a    *)
(* cycle.                                                                     *)
OrderIsTopological ==
    phase \in {"run", "done"} =>
        /\ \A m \in Roots : \E i \in DOMAIN order : order[i] = m
        /\ \A i, j \in DOMAIN order : order[i] = order[j] => i = j
        /\ \A m \in Roots : \A n \in dependencies(m) :
              \A i \in DOMAIN order : order[i] = m => \E j \in 1 .. i - 1 : order[j] = n

THEOREM RootsInOrder == Spec => []OrderIsTopological
<1>1. ParallelizeInv => OrderIsTopological
  <2> SUFFICES ASSUME ParallelizeInv, phase \in {"run", "done"} PROVE OrderIsTopological
    BY DEF OrderIsTopological
  <2>1. OrderRight
    BY DEF ParallelizeInv
  <2>2. \A m \in Roots : \E i \in DOMAIN order : order[i] = m
    BY <2>1 DEF OrderRight, ToSet
  <2> QED
    BY <2>1, <2>2 DEF OrderRight, OrderIsTopological
<1> QED
  BY <1>1, PassesInvariant, PTL

(* The query stays the same *)
LEMMA ProgramFixed == ASSUME [Next]_vars PROVE prog' = prog
<1>1. CASE Compile
  BY <1>1 DEF Compile, AnalyzeScan, InsertMerges, StartOrder, PopRoot, FinishOrder
<1>2. CASE RunMerge
  <2>1. UNCHANGED <<prog, phase, passVars, block, orderVars, todo, th, locked>>
    BY <1>2, Zenon DEF RunMerge
  <2> QED
    BY <2>1
<1>3. CASE RunView \/ StartPipe \/ FinishPipe \/ Finish
  BY <1>3 DEF RunView, StartPipe, FinishPipe, Finish
<1>4. CASE \E t \in Threads : Step(t)
  <2>1. PICK t \in Threads : Step(t)
    BY <1>4
  <2>2. Materialize(t) \/ LookupOrInsert(t) \/ Lookup(t) => RowUnchanged
    BY DEF Materialize, LookupOrInsert, Lookup
  <2>3. Gather(t) \/ LockEntry(t) \/ LoadValues(t) => RowUnchanged
    BY DEF Gather, LockEntry, LoadValues
  <2>4. AtomicReduce(t) \/ StoreValues(t) => RowUnchanged
    BY DEF AtomicReduce, StoreValues
  <2>5. RowUnchanged => prog' = prog
    BY DEF RowUnchanged
  <2>6. TakeRow(t) => prog' = prog
    BY DEF TakeRow
  <2> QED
    BY <2>1, <2>2, <2>3, <2>4, <2>5, <2>6 DEF Step
<1>5. CASE UNCHANGED vars
  BY <1>5 DEF vars
<1> QED
  BY <1>1, <1>2, <1>3, <1>4, <1>5 DEF Next, Drive

(* In a program whose thread-local states are filled before the merged state is *)
(* used, no row is put into a thread's instance after the merge, in whatever    *)
(* order the block is run and however the threads interleave.                   *)
THEOREM NothingAfterMerge == Spec /\ FilledFirst => []NoInsertAfterMerge
<1>1. FilledFirst /\ [Next]_vars => FilledFirst'
  BY ProgramFixed, SameFilledFirst
<1>2. ParallelizeInv /\ FilledFirst => NoInsertAfterMerge
  BY FilledBefore
<1> QED
  BY <1>1, <1>2, PassesInvariant, PTL DEF Spec

(* If, besides, scans report what they read and views are created after their  *)
(* buffer was filled, every earlier writer of what a running pipeline reads has *)
(* finished.                                                                   *)
THEOREM ReadersFollowWriters ==
    Spec /\ FilledFirst /\ ScansReported /\ ViewsBuiltBetween => []ReadersAfterWriters
<1> DEFINE Right == FilledFirst /\ ScansReported /\ ViewsBuiltBetween
<1>1. Right /\ [Next]_vars => Right'
  <2> SUFFICES ASSUME Right, [Next]_vars PROVE Right'
    OBVIOUS
  <2>1. prog' = prog
    BY ProgramFixed
  <2>2. FilledFirst'
    BY <2>1, SameFilledFirst
  <2>3. ScansReported' /\ ViewsBuiltBetween'
    BY <2>1, SameScansReported, SameViewsBuilt
  <2> QED
    BY <2>2, <2>3
<1>2. ParallelizeInv /\ Right => ReadersAfterWriters
  BY ReadersWait
<1> QED
  BY <1>1, <1>2, PassesInvariant, PTL DEF Spec
=============================================================================
