------------------------ MODULE GrowingBufferProofs -------------------------
(***************************************************************************)
(* For any tuples, workers, capacities and chunk sizes: blocks do not      *)
(* overflow, and sort, copy and parallel iteration see every tuple once.   *)
(***************************************************************************)
EXTENDS GrowingBuffer, SequenceTheorems, FunctionTheorems, FiniteSetTheorems, WellFoundedInduction, TLAPS

(* Induction over the naturals, in the form of a least counterexample *)
LEMMA LeastNat == ASSUME NEW S, S \subseteq Nat, S # {} PROVE \E n \in S : \A m \in S : n <= m
<1> DEFINE R == {ss \in Nat \X Nat : ss[1] < ss[2]}
<1>0. OpToRel(<, Nat) = R
  BY DEF OpToRel
<1>1. IsWellFoundedOn(R, Nat)
  BY <1>0, NatLessThanWellFounded
<1>2. IsWellFoundedOn(R, S)
  BY <1>1, IsWellFoundedOnSubset
<1>3. \A a, b \in Nat : <<a, b>> \in R <=> a < b
  OBVIOUS
<1> HIDE DEF R
<1>4. PICK n \in S : \A m \in S : ~(<<m, n>> \in R)
  BY <1>2, WFMin
<1>5. \A m \in S : ~(m < n)
  BY <1>3, <1>4
<1> QED
  BY <1>5

-----------------------------------------------------------------------------
(* Sequences of blocks *)

LEMMA BlockSeq ==
    ASSUME NEW s \in Seq(Seq(Nat))
    PROVE  /\ Len(s) \in Nat /\ DOMAIN s = 1 .. Len(s)
           /\ \A i \in DOMAIN s : s[i] \in Seq(Nat) /\ Len(s[i]) \in Nat /\ DOMAIN s[i] = 1 .. Len(s[i])
           /\ \A i \in DOMAIN s : \A j \in DOMAIN s[i] : s[i][j] \in Nat
OBVIOUS

(* What a change of the blocks may do: x is added *)
Added(s, x, u) == Spread(u) /\ \A y : Has(u, y) <=> Has(s, y) \/ y = x

(* An empty block is added *)
LEMMA SpreadEmpty ==
    ASSUME NEW s, Spread(s), NEW u, u = Append(s, <<>>)
    PROVE  Spread(u) /\ \A y : Has(u, y) <=> Has(s, y)
<1> DEFINE n == Len(s)
<1>1. s \in Seq(Seq(Nat)) /\ n \in Nat /\ DOMAIN s = 1 .. n
  BY BlockSeq DEF Spread
<1>2. <<>> \in Seq(Nat) /\ DOMAIN <<>> = {}
  OBVIOUS
<1>3. u \in Seq(Seq(Nat)) /\ DOMAIN u = 1 .. n + 1 /\ u[n + 1] = <<>> /\ \A i \in 1 .. n : u[i] = s[i]
  BY <1>1, <1>2
<1> HIDE DEF n
<1>4. ASSUME NEW i \in DOMAIN u, NEW j \in DOMAIN u[i] PROVE i \in DOMAIN s /\ u[i] = s[i]
  BY <1>1, <1>2, <1>3
<1>5. Spread(u)
  BY <1>3, <1>4 DEF Spread
<1>6. \A y : Has(u, y) <=> Has(s, y)
  <2>1. \A y : Has(u, y) => Has(s, y)
    BY <1>4 DEF Has
  <2>2. \A i \in DOMAIN s : i \in DOMAIN u /\ u[i] = s[i]
    BY <1>1, <1>3
  <2> QED
    BY <2>1, <2>2 DEF Has
<1> QED
  BY <1>5, <1>6

(* An element is appended to a block *)
LEMMA SpreadGrow ==
    ASSUME NEW s, Spread(s), NEW n \in DOMAIN s, NEW x \in Nat, ~Has(s, x), NEW u, u = [s EXCEPT ![n] = Append(s[n], x)]
    PROVE  Added(s, x, u)
<1> DEFINE v == s[n]
           w == Append(v, x)
           m == Len(v)
<1>1. s \in Seq(Seq(Nat)) /\ DOMAIN s = 1 .. Len(s) /\ Len(s) \in Nat /\ v \in Seq(Nat)
  BY BlockSeq DEF Spread
<1>2. /\ m \in Nat /\ DOMAIN v = 1 .. m /\ w \in Seq(Nat) /\ DOMAIN w = 1 .. m + 1 /\ w[m + 1] = x
      /\ \A i \in 1 .. m : w[i] = v[i]
  BY <1>1
<1>3. u \in Seq(Seq(Nat)) /\ DOMAIN u = DOMAIN s /\ u[n] = w /\ \A i \in DOMAIN s : i # n => u[i] = s[i]
  BY <1>1, <1>2
<1> HIDE DEF v, w, m
<1>4. ASSUME NEW i \in DOMAIN u, NEW j \in DOMAIN u[i]
      PROVE  (i \in DOMAIN s /\ j \in DOMAIN s[i] /\ u[i][j] = s[i][j] /\ s[i][j] # x) \/ (i = n /\ j = m + 1 /\ u[i][j] = x)
  <2>1. CASE i = n
    <3>1. j \in 1 .. m + 1 /\ u[i][j] = w[j]
      BY <1>2, <1>3, <2>1
    <3>2. CASE j = m + 1
      BY <1>2, <2>1, <3>1, <3>2
    <3>3. CASE j # m + 1
      <4>1. j \in 1 .. m
        BY <1>2, <3>1, <3>3
      <4> QED
        BY <1>2, <2>1, <3>1, <4>1 DEF v, Has
    <3> QED
      BY <3>2, <3>3
  <2>2. CASE i # n
    BY <1>3, <2>2 DEF Has
  <2> QED
    BY <2>1, <2>2
<1>5. Spread(u)
  <2>1. ASSUME NEW i \in DOMAIN u, NEW k \in DOMAIN u, NEW j \in DOMAIN u[i], NEW l \in DOMAIN u[k], u[i][j] = u[k][l]
        PROVE  i = k /\ j = l
    <3>1. (i \in DOMAIN s /\ j \in DOMAIN s[i] /\ u[i][j] = s[i][j] /\ s[i][j] # x) \/ (i = n /\ j = m + 1 /\ u[i][j] = x)
      BY <1>4
    <3>2. (k \in DOMAIN s /\ l \in DOMAIN s[k] /\ u[k][l] = s[k][l] /\ s[k][l] # x) \/ (k = n /\ l = m + 1 /\ u[k][l] = x)
      BY <1>4
    <3>3. CASE u[i][j] = x
      BY <2>1, <3>1, <3>2, <3>3
    <3>4. CASE u[i][j] # x
      BY <2>1, <3>1, <3>2, <3>4, SMTT(40) DEF Spread
    <3> QED
      BY <3>3, <3>4
  <2> QED
    BY <1>3, <2>1 DEF Spread
<1>6. ASSUME NEW y PROVE Has(u, y) <=> Has(s, y) \/ y = x
  <2>1. ASSUME Has(u, y) PROVE Has(s, y) \/ y = x
    <3>1. PICK i \in DOMAIN u : \E j \in DOMAIN u[i] : u[i][j] = y
      BY <2>1 DEF Has
    <3>2. PICK j \in DOMAIN u[i] : u[i][j] = y
      BY <3>1
    <3> QED
      BY <1>4, <3>2 DEF Has
  <2>2. ASSUME Has(s, y) PROVE Has(u, y)
    <3>1. PICK i \in DOMAIN s : \E j \in DOMAIN s[i] : s[i][j] = y
      BY <2>2 DEF Has
    <3>2. PICK j \in DOMAIN s[i] : s[i][j] = y
      BY <3>1
    <3>3. i \in DOMAIN u /\ j \in DOMAIN u[i] /\ u[i][j] = y
      <4>1. CASE i = n
        BY <1>2, <1>3, <3>2, <4>1 DEF v
      <4>2. CASE i # n
        BY <1>3, <3>2, <4>2
      <4> QED
        BY <4>1, <4>2
    <3> QED
      BY <3>3 DEF Has
  <2>3. Has(u, x)
    <3>1. n \in DOMAIN u /\ m + 1 \in DOMAIN u[n] /\ u[n][m + 1] = x
      BY <1>2, <1>3
    <3> QED
      BY <3>1 DEF Has
  <2> QED
    BY <2>1, <2>2, <2>3
<1> QED
  BY <1>5, <1>6 DEF Added

(* The blocks of two buffers *)
LEMMA SpreadConcat ==
    ASSUME NEW s, Spread(s), NEW r, Spread(r), \A x : ~(Has(s, x) /\ Has(r, x)), NEW u, u = s \o r
    PROVE  Spread(u) /\ \A y : Has(u, y) <=> Has(s, y) \/ Has(r, y)
<1> DEFINE m == Len(s)
           n == Len(r)
<1>1. /\ s \in Seq(Seq(Nat)) /\ r \in Seq(Seq(Nat)) /\ m \in Nat /\ n \in Nat
      /\ DOMAIN s = 1 .. m /\ DOMAIN r = 1 .. n
  BY BlockSeq DEF Spread
<1>2. /\ u \in Seq(Seq(Nat)) /\ DOMAIN u = 1 .. m + n
      /\ \A i \in 1 .. m : u[i] = s[i]
      /\ \A i \in 1 .. n : u[m + i] = r[i]
  BY <1>1
<1> HIDE DEF m, n
<1>3. ASSUME NEW i \in DOMAIN u
      PROVE  (i \in DOMAIN s /\ u[i] = s[i]) \/ (i - m \in DOMAIN r /\ u[i] = r[i - m])
  <2>1. i \in Int /\ (i \in 1 .. m \/ i - m \in 1 .. n) /\ i = m + (i - m)
    BY <1>1, <1>2
  <2>2. i - m \in 1 .. n => u[m + (i - m)] = r[i - m]
    BY <1>2
  <2> QED
    BY <1>1, <1>2, <2>1, <2>2
<1>4. Spread(u)
  <2>1. ASSUME NEW i \in DOMAIN u, NEW k \in DOMAIN u, NEW j \in DOMAIN u[i], NEW l \in DOMAIN u[k], u[i][j] = u[k][l]
        PROVE  i = k /\ j = l
    <3> DEFINE x == u[i][j]
    <3>1. CASE i \in DOMAIN s /\ u[i] = s[i]
      <4>1. Has(s, x)
        BY <3>1 DEF Has
      <4>2. CASE k \in DOMAIN s /\ u[k] = s[k]
        BY <2>1, <3>1, <4>2 DEF Spread
      <4>3. CASE k - m \in DOMAIN r /\ u[k] = r[k - m]
        <5>1. Has(r, x)
          BY <2>1, <4>3 DEF Has
        <5> QED
          BY <4>1, <5>1
      <4> QED
        BY <1>3, <4>2, <4>3
    <3>2. CASE i - m \in DOMAIN r /\ u[i] = r[i - m]
      <4>1. Has(r, x)
        BY <3>2 DEF Has
      <4>2. CASE k \in DOMAIN s /\ u[k] = s[k]
        <5>1. Has(s, x)
          BY <2>1, <4>2 DEF Has
        <5> QED
          BY <4>1, <5>1
      <4>3. CASE k - m \in DOMAIN r /\ u[k] = r[k - m]
        <5>1. i - m = k - m /\ j = l
          BY <2>1, <3>2, <4>3 DEF Spread
        <5> QED
          BY <1>1, <1>2, <5>1
      <4> QED
        BY <1>3, <4>2, <4>3
    <3> QED
      BY <1>3, <3>1, <3>2
  <2> QED
    BY <1>2, <2>1 DEF Spread
<1>5. ASSUME NEW y PROVE Has(u, y) <=> Has(s, y) \/ Has(r, y)
  <2>1. ASSUME NEW i \in DOMAIN u, NEW j \in DOMAIN u[i], u[i][j] = y PROVE Has(s, y) \/ Has(r, y)
    BY <1>3, <2>1 DEF Has
  <2>2. ASSUME NEW i \in DOMAIN s, NEW j \in DOMAIN s[i], s[i][j] = y PROVE Has(u, y)
    <3>1. i \in DOMAIN u /\ u[i] = s[i]
      BY <1>1, <1>2
    <3> QED
      BY <2>2, <3>1 DEF Has
  <2>3. ASSUME NEW i \in DOMAIN r, NEW j \in DOMAIN r[i], r[i][j] = y PROVE Has(u, y)
    <3>1. m + i \in DOMAIN u /\ u[m + i] = r[i]
      BY <1>1, <1>2
    <3> QED
      BY <2>3, <3>1 DEF Has
  <2> QED
    BY <2>1, <2>2, <2>3 DEF Has
<1> QED
  BY <1>4, <1>5

(* Parts of sequences *)
PartOf(S, s, lo, n, u) == u \in Seq(S) /\ Len(u) = n /\ DOMAIN u = 1 .. n /\ \A i \in 1 .. n : u[i] = s[lo + i]

LEMMA SeqDomain == ASSUME NEW S, NEW u \in Seq(S), NEW n, Len(u) = n PROVE DOMAIN u = 1 .. n
OBVIOUS

LEMMA SubSeqPart ==
    ASSUME NEW S, NEW s \in Seq(S), NEW lo \in Nat, NEW n \in Nat, lo + n <= Len(s), NEW u, u = SubSeq(s, lo + 1, lo + n)
    PROVE  PartOf(S, s, lo, n, u)
<1>1. lo + 1 \in Int /\ lo + n \in Int /\ \A i \in lo + 1 .. lo + n : s[i] \in S
  OBVIOUS
<1>2. /\ u \in Seq(S)
      /\ Len(u) = IF lo + 1 <= lo + n THEN (lo + n) - (lo + 1) + 1 ELSE 0
      /\ \A i \in 1 .. (lo + n) - (lo + 1) + 1 : u[i] = s[(lo + 1) + i - 1]
  BY <1>1, SubSeqProperties
<1>3. Len(u) = n /\ (lo + n) - (lo + 1) + 1 = n /\ \A i \in 1 .. n : (lo + 1) + i - 1 = lo + i
  BY <1>2
<1>4. \A i \in 1 .. n : u[i] = s[lo + i]
  BY <1>2, <1>3
<1>5. DOMAIN u = 1 .. n
  BY <1>2, <1>3, SeqDomain
<1> QED
  BY <1>2, <1>3, <1>4, <1>5, Zenon DEF PartOf

JoinOf(S, a, p, b, q, u) ==
    u \in Seq(S) /\ Len(u) = p + q /\ \A i \in 1 .. p + q : u[i] = IF i <= p THEN a[i] ELSE b[i - p]

LEMMA ConcatJoin ==
    ASSUME NEW S, NEW a \in Seq(S), NEW b \in Seq(S), NEW p, p = Len(a), NEW q, q = Len(b), NEW u, u = a \o b
    PROVE  JoinOf(S, a, p, b, q, u)
<1>1. /\ a \o b \in Seq(S) /\ Len(a \o b) = Len(a) + Len(b)
      /\ \A i \in 1 .. Len(a) + Len(b) : (a \o b)[i] = IF i <= Len(a) THEN a[i] ELSE b[i - Len(a)]
  BY ConcatProperties
<1> QED
  BY <1>1 DEF JoinOf

(* A block is taken out *)
LEMMA SpreadRemove ==
    ASSUME NEW s, Spread(s), NEW n \in DOMAIN s, NEW u, u = RemoveAt(s, n)
    PROVE  Spread(u) /\ \A y : Has(u, y) <=> Has(s, y) /\ \A j \in DOMAIN s[n] : s[n][j] # y
<1> DEFINE m == Len(s)
<1>1. s \in Seq(Seq(Nat)) /\ m \in Nat /\ DOMAIN s = 1 .. m /\ n \in 1 .. m
  BY BlockSeq DEF Spread
<1> DEFINE at(i) == IF i < n THEN i ELSE i + 1
<1>2. u \in Seq(Seq(Nat)) /\ DOMAIN u = 1 .. m - 1 /\ \A i \in 1 .. m - 1 : u[i] = s[at(i)]
  <2> DEFINE a == SubSeq(s, 1, n - 1)
             b == SubSeq(s, n + 1, m)
             p == n - 1
             q == m - n
  <2>0. p \in Nat /\ q \in Nat /\ p + q = m - 1 /\ 0 + p <= m /\ n + q = m
    BY <1>1
  <2>1. PartOf(Seq(Nat), s, 0, p, a)
    <3>1. a = SubSeq(s, 0 + 1, 0 + p)
      BY <2>0
    <3> HIDE DEF a, p
    <3> QED
      BY <1>1, <2>0, <3>1, SubSeqPart
  <2>2. PartOf(Seq(Nat), s, n, q, b)
    <3>1. b = SubSeq(s, n + 1, n + q)
      BY <2>0
    <3>2. n \in Nat /\ n + q <= Len(s)
      BY <1>1, <2>0, SMTT(40)
    <3> HIDE DEF b, q
    <3> QED
      BY <1>1, <2>0, <3>1, <3>2, SubSeqPart
  <2>3. u = a \o b
    BY DEF RemoveAt
  <2> HIDE DEF a, b
  <2>4. /\ u \in Seq(Seq(Nat)) /\ DOMAIN u = 1 .. m - 1
        /\ \A i \in 1 .. m - 1 : u[i] = IF i <= n - 1 THEN a[i] ELSE b[i - (n - 1)]
    <3>1. a \in Seq(Seq(Nat)) /\ b \in Seq(Seq(Nat)) /\ Len(a) = p /\ Len(b) = q
      BY <2>1, <2>2 DEF PartOf
    <3> HIDE DEF p, q
    <3>2. u \in Seq(Seq(Nat)) /\ Len(u) = p + q /\ \A i \in 1 .. p + q : u[i] = IF i <= p THEN a[i] ELSE b[i - p]
      <4>1. JoinOf(Seq(Nat), a, p, b, q, u)
        BY <2>3, <3>1, ConcatJoin
      <4> QED
        BY <4>1 DEF JoinOf
    <3>3. DOMAIN u = 1 .. p + q
      BY <3>2
    <3> QED
      BY <2>0, <3>2, <3>3 DEF p
  <2>5. ASSUME NEW i \in 1 .. m - 1 PROVE u[i] = s[at(i)]
    <3>1. CASE i < n
      <4>1. i \in 1 .. p /\ i <= n - 1 /\ 0 + i = i
        BY <1>1, <3>1
      <4>2. a[i] = s[0 + i]
        BY <2>1, <4>1 DEF PartOf
      <4> QED
        BY <2>4, <3>1, <4>1, <4>2
    <3>2. CASE ~(i < n)
      <4>1. i - (n - 1) \in 1 .. m - n /\ n + (i - (n - 1)) = i + 1
        BY <1>1, <3>2
      <4>2. u[i] = b[i - (n - 1)]
        BY <1>1, <2>4, <3>2
      <4> QED
        BY <2>2, <3>2, <4>1, <4>2 DEF PartOf
    <3> QED
      BY <3>1, <3>2
  <2> QED
    BY <2>4, <2>5
<1>3. \A i \in 1 .. m - 1 : at(i) \in DOMAIN s /\ at(i) # n
  BY <1>1
<1>4. \A i, k \in 1 .. m - 1 : at(i) = at(k) => i = k
  BY <1>1
<1>5. \A k \in DOMAIN s : k # n => \E i \in 1 .. m - 1 : at(i) = k
  <2>1. ASSUME NEW k \in DOMAIN s, k # n PROVE \E i \in 1 .. m - 1 : at(i) = k
    <3>1. CASE k < n
      <4>1. k \in 1 .. m - 1 /\ at(k) = k
        BY <1>1, <3>1
      <4> QED
        BY <4>1
    <3>2. CASE ~(k < n)
      <4>1. k - 1 \in 1 .. m - 1 /\ at(k - 1) = k
        BY <1>1, <2>1, <3>2
      <4> QED
        BY <4>1
    <3> QED
      BY <3>1, <3>2
  <2> QED
    BY <2>1
<1> HIDE DEF at, m
<1>6. Spread(u)
  <2>1. ASSUME NEW i \in DOMAIN u, NEW k \in DOMAIN u, NEW j \in DOMAIN u[i], NEW l \in DOMAIN u[k], u[i][j] = u[k][l]
        PROVE  i = k /\ j = l
    <3>1. u[i] = s[at(i)] /\ u[k] = s[at(k)] /\ at(i) \in DOMAIN s /\ at(k) \in DOMAIN s
      BY <1>2, <1>3
    <3>2. at(i) = at(k) /\ j = l
      BY <2>1, <3>1 DEF Spread
    <3> QED
      BY <1>2, <1>4, <3>2
  <2> QED
    BY <1>2, <2>1 DEF Spread
<1>7. ASSUME NEW y PROVE Has(u, y) <=> Has(s, y) /\ \A j \in DOMAIN s[n] : s[n][j] # y
  <2>1. ASSUME NEW i \in DOMAIN u, NEW j \in DOMAIN u[i], u[i][j] = y
        PROVE  Has(s, y) /\ \A l \in DOMAIN s[n] : s[n][l] # y
    <3>1. u[i] = s[at(i)] /\ at(i) \in DOMAIN s /\ at(i) # n
      BY <1>2, <1>3
    <3> QED
      BY <2>1, <3>1 DEF Has, Spread
  <2>2. ASSUME NEW k \in DOMAIN s, NEW j \in DOMAIN s[k], s[k][j] = y, \A l \in DOMAIN s[n] : s[n][l] # y PROVE Has(u, y)
    <3>1. k # n
      BY <2>2
    <3>2. PICK i \in 1 .. m - 1 : at(i) = k
      BY <1>5, <3>1
    <3>3. i \in DOMAIN u /\ u[i] = s[k]
      BY <1>2, <3>2
    <3> QED
      BY <2>2, <3>3 DEF Has
  <2> QED
    BY <2>1, <2>2 DEF Has
<1> QED
  BY <1>6, <1>7

-----------------------------------------------------------------------------
(* Chunks of a block *)

LEMMA Quotient ==
    ASSUME NEW q \in Nat, NEW C \in Nat \ {0}
    PROVE  /\ q \div C \in Nat /\ q % C \in 0 .. C - 1
           /\ q = (q \div C) * C + (q % C)
<1>1. q \div C \in Int /\ q % C \in Int
  OBVIOUS
<1>2. q = C * (q \div C) + (q % C) /\ 0 <= q % C /\ q % C < C
  OBVIOUS
<1>3. C * (q \div C) = (q \div C) * C
  BY <1>1
<1>4. q \div C >= 0
  OBVIOUS
<1> QED
  BY <1>1, <1>2, <1>3, <1>4

LEMMA Multiples ==
    ASSUME NEW a \in Int, NEW b \in Int, NEW C \in Nat \ {0}, a < b
    PROVE  a * C + C <= b * C
<1>1. (b - a - 1) * C >= 0
  <2>1. b - a - 1 \in Nat
    OBVIOUS
  <2> QED
    BY <2>1
<1>2. (b - a - 1) * C = b * C - a * C - C
  OBVIOUS
<1> QED
  BY <1>1, <1>2

LEMMA SamePlace ==
    ASSUME NEW a \in Int, NEW b \in Int, NEW C \in Nat \ {0}, NEW j \in 1 .. C, NEW l \in 1 .. C,
           NEW x, x = a * C, NEW y, y = b * C, x + j = y + l
    PROVE  a = b /\ j = l
<1>1. a * C \in Int /\ b * C \in Int
  OBVIOUS
<1>2. ~(a < b)
  <2>1. SUFFICES ASSUME a < b PROVE FALSE
    OBVIOUS
  <2>2. a * C + C <= b * C
    BY <2>1, Multiples
  <2> QED
    BY <1>1, <2>2
<1>3. ~(b < a)
  <2>1. SUFFICES ASSUME b < a PROVE FALSE
    OBVIOUS
  <2>2. b * C + C <= a * C
    BY <2>1, Multiples
  <2> QED
    BY <1>1, <2>2
<1> QED
  BY <1>1, <1>2, <1>3

(* The chunks of a block have its elements *)
LEMMA ChunksSpread ==
    ASSUME NEW c, Distinct(c), NEW u, u = chunks(c)
    PROVE  Spread(u) /\ \A y : Has(u, y) <=> \E j \in DOMAIN c : c[j] = y
<1> DEFINE C == ChunkSize
           L == Len(c)
           n == (L + C - 1) \div C
           lo(i) == (i - 1) * C
           hi(i) == IF i * C < L THEN i * C ELSE L
<1>1. c \in Seq(Nat) /\ L \in Nat /\ DOMAIN c = 1 .. L /\ C \in Nat \ {0}
  BY GrowingBufferAssumption DEF Distinct
<1>2. u = [i \in 1 .. n |-> SubSeq(c, lo(i) + 1, hi(i))]
  BY DEF chunks
<1> HIDE DEF C, L
<1>3. n \in Nat /\ n * C <= L + C - 1 /\ L + C - 1 < n * C + C
  <2> DEFINE q == L + C - 1
  <2>1. q \in Nat
    BY <1>1
  <2> HIDE DEF q
  <2>2. q \div C \in Nat /\ q % C \in 0 .. C - 1 /\ q = (q \div C) * C + (q % C)
    BY <1>1, <2>1, Quotient
  <2> DEFINE d == q \div C
             m == q % C
  <2>3. d * C \in Int
    BY <1>1, <2>2
  <2> HIDE DEF d, m
  <2>4. d * C <= q /\ q < d * C + C
    BY <1>1, <2>1, <2>2, <2>3 DEF d, m
  <2> QED
    BY <2>2, <2>4 DEF d, q
<1> HIDE DEF n
<1>4. ASSUME NEW i \in 1 .. n
      PROVE  /\ lo(i) \in Nat /\ i * C \in Nat /\ i * C = lo(i) + C /\ lo(i) < L
             /\ hi(i) - lo(i) \in Nat /\ hi(i) - lo(i) <= C /\ hi(i) <= L /\ hi(i) = lo(i) + (hi(i) - lo(i))
  <2>1. i \in Nat /\ i - 1 \in Nat /\ i <= n
    BY <1>3
  <2>2. lo(i) \in Nat /\ i * C \in Nat /\ i * C = lo(i) + C
    BY <1>1, <2>1
  <2>3. i * C <= n * C /\ n * C \in Nat
    <3>1. CASE i = n
      BY <1>1, <2>2, <3>1
    <3>2. CASE i < n
      BY <1>1, <1>3, <2>1, <2>2, <3>2, Multiples
    <3> QED
      BY <1>3, <2>1, <3>1, <3>2
  <2> HIDE DEF lo
  <2>4. lo(i) < L
    BY <1>1, <1>3, <2>2, <2>3
  <2> QED
    BY <1>1, <2>2, <2>4
<1>5. ASSUME NEW i \in 1 .. n
      PROVE  PartOf(Nat, c, lo(i), hi(i) - lo(i), u[i])
  <2> DEFINE a == lo(i)
             k == hi(i) - lo(i)
             w == u[i]
  <2>1. a \in Nat /\ k \in Nat /\ a + k <= L /\ w = SubSeq(c, a + 1, a + k)
    <3>1. w = SubSeq(c, lo(i) + 1, hi(i))
      BY <1>2
    <3> HIDE DEF lo, hi, w
    <3>2. a \in Nat /\ k \in Nat /\ hi(i) = a + k /\ hi(i) <= L
      BY <1>4
    <3> QED
      BY <3>1, <3>2
  <2> HIDE DEF a, k, w
  <2>2. PartOf(Nat, c, a, k, w)
    BY <1>1, <2>1, SubSeqPart DEF L
  <2> QED
    BY <2>2 DEF a, k, w
<1>6. u \in Seq(Seq(Nat)) /\ DOMAIN u = 1 .. n
  <2>1. \A i \in 1 .. n : u[i] \in Seq(Nat)
    BY <1>5 DEF PartOf
  <2>2. DOMAIN u = 1 .. n /\ u = [i \in 1 .. n |-> u[i]]
    BY <1>2
  <2> QED
    BY <1>3, <2>1, <2>2
<1>7. ASSUME NEW i \in DOMAIN u, NEW j \in DOMAIN u[i]
      PROVE  /\ j \in 1 .. C /\ i \in 1 .. n /\ lo(i) + j \in 1 .. L /\ u[i][j] = c[lo(i) + j]
  <2>1. i \in 1 .. n /\ j \in 1 .. hi(i) - lo(i) /\ u[i][j] = c[lo(i) + j]
    BY <1>5, <1>6 DEF PartOf
  <2> HIDE DEF lo, hi
  <2> QED
    BY <1>1, <1>4, <2>1
<1>8. Spread(u)
  <2>1. ASSUME NEW i \in DOMAIN u, NEW k \in DOMAIN u, NEW j \in DOMAIN u[i], NEW l \in DOMAIN u[k], u[i][j] = u[k][l]
        PROVE  i = k /\ j = l
    <3>1. /\ j \in 1 .. C /\ i \in 1 .. n /\ lo(i) + j \in 1 .. L /\ u[i][j] = c[lo(i) + j]
          /\ l \in 1 .. C /\ k \in 1 .. n /\ lo(k) + l \in 1 .. L /\ u[k][l] = c[lo(k) + l]
      BY <1>7
    <3>2. lo(i) + j = lo(k) + l
      <4> HIDE DEF lo
      <4> QED
        BY <1>1, <2>1, <3>1 DEF Distinct
    <3> DEFINE a == i - 1
               b == k - 1
               x == lo(i)
               y == lo(k)
    <3>3. a \in Int /\ b \in Int /\ x = a * C /\ y = b * C /\ x + j = y + l
      BY <3>1, <3>2
    <3> HIDE DEF a, b, x, y, lo
    <3>4. a = b /\ j = l
      BY <1>1, <3>1, <3>3, SamePlace, SMTT(40)
    <3> QED
      BY <3>1, <3>4 DEF a, b
  <2> QED
    BY <1>6, <2>1 DEF Spread
<1>9. ASSUME NEW p \in DOMAIN c PROVE Has(u, c[p])
  <2> DEFINE q == p - 1
             d == q \div C
             m == q % C
  <2>1. q \in Nat /\ q <= L - 1
    BY <1>1
  <2>2. d \in Nat /\ m \in 0 .. C - 1 /\ q = d * C + m
    <3> HIDE DEF q
    <3> QED
      BY <1>1, <2>1, Quotient
  <2> HIDE DEF d, m
  <2>3. d * C \in Nat /\ n * C \in Nat
    BY <1>1, <1>3, <2>2
  <2>4. d < n
    <3>1. SUFFICES ASSUME ~(d < n) PROVE FALSE
      OBVIOUS
    <3>2. CASE d = n
      BY <1>1, <1>3, <2>1, <2>2, <2>3, <3>2
    <3>3. CASE n < d
      <4>1. n * C + C <= d * C
        BY <1>1, <1>3, <2>2, <3>3, Multiples
      <4> QED
        BY <1>1, <1>3, <2>1, <2>2, <2>3, <4>1
    <3> QED
      BY <1>3, <2>2, <3>1, <3>2, <3>3
  <2> DEFINE i == d + 1
             j == m + 1
  <2>5. i \in 1 .. n /\ lo(i) = d * C /\ i * C = d * C + C
    BY <1>1, <1>3, <2>2, <2>4
  <2>6. j \in 1 .. hi(i) - lo(i) /\ lo(i) + j = p
    <3> DEFINE D == d * C
               E == i * C
    <3>1. D \in Nat /\ lo(i) = D /\ E = D + C /\ q = D + m /\ hi(i) = IF E < L THEN E ELSE L
      BY <2>2, <2>3, <2>5
    <3> HIDE DEF i, lo, hi, D, E
    <3> QED
      BY <1>1, <2>1, <2>2, <3>1
  <2>7. i \in DOMAIN u /\ j \in DOMAIN u[i] /\ u[i][j] = c[p]
    <3> HIDE DEF i, j, lo, hi
    <3> QED
      BY <1>5, <1>6, <2>5, <2>6 DEF PartOf
  <2> HIDE DEF i, j
  <2> QED
    BY <2>7 DEF Has
<1>10. ASSUME NEW y PROVE Has(u, y) <=> \E j \in DOMAIN c : c[j] = y
  <2>1. ASSUME NEW i \in DOMAIN u, NEW j \in DOMAIN u[i], u[i][j] = y PROVE \E p \in DOMAIN c : c[p] = y
    <3>1. lo(i) + j \in 1 .. L /\ u[i][j] = c[lo(i) + j]
      BY <1>7
    <3> HIDE DEF lo
    <3> QED
      BY <1>1, <2>1, <3>1
  <2> QED
    BY <1>9, <2>1 DEF Has
<1> QED
  BY <1>8, <1>10

-----------------------------------------------------------------------------
(* All elements of the blocks, in one sequence *)

Flattened(s, f, n) == f = [i \in 1 .. n |-> IF i = 1 THEN s[i] ELSE f[i - 1] \o s[i]]

LEMMA FlattenExists == ASSUME NEW s, NEW n \in Nat PROVE \E f : Flattened(s, f, n)
<1> DEFINE Bad == {m \in Nat : ~\E f : Flattened(s, f, m)}
<1>1. SUFFICES Bad = {}
  OBVIOUS
<1>2. SUFFICES ASSUME Bad # {} PROVE FALSE
  OBVIOUS
<1>3. PICK b \in Bad : \A m \in Bad : b <= m
  BY <1>2, LeastNat
<1>4. CASE b = 0
  <2> DEFINE g == [i \in 1 .. 0 |-> 1]
  <2>1. Flattened(s, g, 0)
    BY DEF Flattened
  <2> QED
    BY <1>3, <1>4, <2>1
<1>5. CASE b # 0
  <2>0. b \in Nat /\ b - 1 \in Nat /\ b - 1 < b
    BY <1>5
  <2>1. b - 1 \notin Bad
    <3> HIDE DEF Bad
    <3> QED
      BY <1>3, <2>0
  <2>2. \E f : Flattened(s, f, b - 1)
    BY <2>0, <2>1
  <2>3. PICK f : Flattened(s, f, b - 1)
    BY <2>2
  <2>4. \A i \in 1 .. b - 1 : f[i] = IF i = 1 THEN s[i] ELSE f[i - 1] \o s[i]
    BY <2>3 DEF Flattened
  <2> DEFINE g == [i \in 1 .. b |-> IF i = b THEN (IF b = 1 THEN s[b] ELSE f[b - 1] \o s[b]) ELSE f[i]]
  <2>5. ASSUME NEW i \in 1 .. b PROVE g[i] = IF i = 1 THEN s[i] ELSE g[i - 1] \o s[i]
    <3>1. CASE i = b
      <4>1. b # 1 => b - 1 \in 1 .. b /\ g[b - 1] = f[b - 1]
        BY <2>0
      <4> QED
        BY <3>1, <4>1
    <3>2. CASE i # b
      <4>1. i \in 1 .. b - 1 /\ g[i] = f[i]
        BY <2>0, <3>2
      <4>2. i # 1 => i - 1 \in 1 .. b /\ i - 1 # b /\ g[i - 1] = f[i - 1]
        BY <2>0, <4>1
      <4> QED
        BY <2>4, <4>1, <4>2
    <3> QED
      BY <3>1, <3>2
  <2>6. g = [i \in 1 .. b |-> g[i]]
    OBVIOUS
  <2> HIDE DEF g
  <2>7. Flattened(s, g, b)
    BY <2>5, <2>6 DEF Flattened
  <2> QED
    BY <1>3, <2>7
<1> QED
  BY <1>4, <1>5

(* Those of the first i blocks *)
Gathered(s, i, v) ==
    /\ Distinct(v)
    /\ \A y : (\E j \in DOMAIN v : v[j] = y) <=> \E k \in 1 .. i : \E j \in DOMAIN s[k] : s[k][j] = y

LEMMA FlattenSpread ==
    ASSUME NEW s, Spread(s), NEW v, v = FlattenSeq(s)
    PROVE  Distinct(v) /\ \A y : (\E j \in DOMAIN v : v[j] = y) <=> Has(s, y)
<1> DEFINE n == Len(s)
           f == CHOOSE f : f = [i \in 1 .. n |-> IF i = 1 THEN s[i] ELSE f[i - 1] \o s[i]]
<1>1. s \in Seq(Seq(Nat)) /\ n \in Nat /\ DOMAIN s = 1 .. n /\ \A i \in 1 .. n : s[i] \in Seq(Nat)
  BY BlockSeq DEF Spread
<1>2. v = IF n = 0 THEN s ELSE f[n]
  BY DEF FlattenSeq
<1>3. f = [i \in 1 .. n |-> IF i = 1 THEN s[i] ELSE f[i - 1] \o s[i]]
  <2>1. \E g : g = [i \in 1 .. n |-> IF i = 1 THEN s[i] ELSE g[i - 1] \o s[i]]
    BY <1>1, FlattenExists DEF Flattened
  <2> QED
    BY <2>1
<1> HIDE DEF f, n
<1>4. \A i \in 1 .. n : f[i] = IF i = 1 THEN s[i] ELSE f[i - 1] \o s[i]
  BY <1>3
<1>5. \A i \in 1 .. n : Gathered(s, i, f[i])
  <2> DEFINE Bad == {i \in 1 .. n : ~Gathered(s, i, f[i])}
  <2>1. SUFFICES ASSUME Bad # {} PROVE FALSE
    OBVIOUS
  <2>2. Bad \subseteq Nat
    BY <1>1
  <2>3. PICK b \in Bad : \A m \in Bad : b <= m
    BY <2>1, <2>2, LeastNat
  <2>4. b \in 1 .. n /\ ~Gathered(s, b, f[b])
    OBVIOUS
  <2>5. CASE b = 1
    <3>1. f[b] = s[1] /\ s[1] \in Seq(Nat) /\ 1 \in DOMAIN s /\ 1 .. b = {1}
      BY <1>1, <1>4, <2>4, <2>5
    <3>2. Distinct(s[1])
      BY <3>1 DEF Distinct, Spread
    <3> QED
      BY <2>4, <3>1, <3>2 DEF Gathered
  <2>6. CASE b # 1
    <3> DEFINE a == f[b - 1]
               w == s[b]
               u == f[b]
    <3>1. b - 1 \in 1 .. n /\ ~(b <= b - 1) /\ u = a \o w /\ b \in DOMAIN s /\ w \in Seq(Nat)
      <4>1. b - 1 \in 1 .. n /\ ~(b <= b - 1) /\ b \in DOMAIN s /\ w \in Seq(Nat)
        BY <1>1, <2>4, <2>6
      <4>2. u = a \o w
        BY <1>4, <2>4, <2>6
      <4> QED
        BY <4>1, <4>2
    <3>2. b - 1 \notin Bad
      <4> HIDE DEF Bad
      <4> QED
        BY <2>3, <3>1
    <3>3. Gathered(s, b - 1, a)
      BY <3>1, <3>2
    <3>4. Distinct(a) /\ Distinct(w)
      BY <3>1, <3>3 DEF Gathered, Distinct, Spread
    <3>5. \A i \in DOMAIN a : \A j \in DOMAIN w : a[i] # w[j]
      <4>1. ASSUME NEW i \in DOMAIN a, NEW j \in DOMAIN w, a[i] = w[j] PROVE FALSE
        <5>1. PICK k \in 1 .. b - 1 : \E l \in DOMAIN s[k] : s[k][l] = a[i]
          BY <3>3 DEF Gathered
        <5>2. PICK l \in DOMAIN s[k] : s[k][l] = a[i]
          BY <5>1
        <5>3. k \in DOMAIN s /\ k # b
          BY <1>1, <2>4
        <5> QED
          BY <3>1, <4>1, <5>2, <5>3 DEF Spread
      <4> QED
        BY <4>1
    <3> HIDE DEF a, u, w
    <3> DEFINE p == Len(a)
               q == Len(w)
    <3>6. a \in Seq(Nat) /\ w \in Seq(Nat) /\ p \in Nat /\ q \in Nat /\ DOMAIN a = 1 .. p /\ DOMAIN w = 1 .. q
      BY <3>4 DEF Distinct
    <3>7. JoinOf(Nat, a, p, w, q, u)
      BY <3>1, <3>6, ConcatJoin
    <3> HIDE DEF p, q
    <3>8. u \in Seq(Nat) /\ DOMAIN u = 1 .. p + q /\ \A i \in 1 .. p + q : u[i] = IF i <= p THEN a[i] ELSE w[i - p]
      BY <3>7 DEF JoinOf
    <3>9. ASSUME NEW i \in DOMAIN u
          PROVE  (i \in DOMAIN a /\ u[i] = a[i]) \/ (i - p \in DOMAIN w /\ u[i] = w[i - p])
      BY <3>6, <3>8
    <3>10. Distinct(u)
      <4>1. ASSUME NEW i \in DOMAIN u, NEW j \in DOMAIN u, u[i] = u[j] PROVE i = j
        <5>1. CASE i \in DOMAIN a /\ u[i] = a[i]
          <6>1. CASE j \in DOMAIN a /\ u[j] = a[j]
            BY <3>4, <4>1, <5>1, <6>1 DEF Distinct
          <6>2. CASE j - p \in DOMAIN w /\ u[j] = w[j - p]
            BY <3>5, <4>1, <5>1, <6>2
          <6> QED
            BY <3>9, <6>1, <6>2
        <5>2. CASE i - p \in DOMAIN w /\ u[i] = w[i - p]
          <6>1. CASE j \in DOMAIN a /\ u[j] = a[j]
            BY <3>5, <4>1, <5>2, <6>1
          <6>2. CASE j - p \in DOMAIN w /\ u[j] = w[j - p]
            <7>1. i - p = j - p
              BY <3>4, <4>1, <5>2, <6>2 DEF Distinct
            <7> QED
              BY <3>6, <3>8, <7>1
          <6> QED
            BY <3>9, <6>1, <6>2
        <5> QED
          BY <3>9, <5>1, <5>2
      <4> QED
        BY <3>8, <4>1 DEF Distinct
    <3>11. ASSUME NEW y
           PROVE  (\E j \in DOMAIN u : u[j] = y) <=> (\E j \in DOMAIN a : a[j] = y) \/ (\E j \in DOMAIN w : w[j] = y)
      <4>1. ASSUME NEW j \in DOMAIN a PROVE j \in DOMAIN u /\ u[j] = a[j]
        BY <3>6, <3>8
      <4>2. ASSUME NEW j \in DOMAIN w PROVE p + j \in DOMAIN u /\ u[p + j] = w[j]
        <5>1. p + j \in 1 .. p + q /\ ~(p + j <= p) /\ (p + j) - p = j
          BY <3>6
        <5> QED
          BY <3>8, <5>1
      <4> QED
        BY <3>9, <4>1, <4>2
    <3>12. 1 .. b = (1 .. b - 1) \cup {b}
      BY <2>4
    <3>13. Gathered(s, b, u)
      <4>1. ASSUME NEW y PROVE (\E j \in DOMAIN a : a[j] = y) <=> \E k \in 1 .. b - 1 : \E j \in DOMAIN s[k] : s[k][j] = y
        BY <3>3 DEF Gathered
      <4>2. ASSUME NEW y PROVE (\E j \in DOMAIN u : u[j] = y) <=> \E k \in 1 .. b : \E j \in DOMAIN s[k] : s[k][j] = y
        BY <3>11, <3>12, <4>1 DEF w
      <4> QED
        BY <3>10, <4>2 DEF Gathered
    <3> QED
      BY <2>4, <3>13 DEF u
  <2> QED
    BY <2>5, <2>6
<1>6. CASE n = 0
  <2>1. DOMAIN v = {} /\ v \in Seq(Nat) /\ DOMAIN s = {}
    BY <1>1, <1>2, <1>6 DEF n
  <2> QED
    BY <2>1 DEF Distinct, Has
<1>7. CASE n # 0
  <2>1. Gathered(s, n, v)
    BY <1>1, <1>2, <1>5, <1>7
  <2>2. Distinct(v) /\ \A y : (\E j \in DOMAIN v : v[j] = y) <=> \E k \in 1 .. n : \E j \in DOMAIN s[k] : s[k][j] = y
    BY <2>1, Zenon DEF Gathered
  <2>3. DOMAIN s = 1 .. n
    BY <1>1
  <2>4. ASSUME NEW y PROVE Has(s, y) <=> \E k \in 1 .. n : \E j \in DOMAIN s[k] : s[k][j] = y
    BY <2>3, Zenon DEF Has
  <2> QED
    BY <2>2, <2>4, Zenon
<1> QED
  BY <1>6, <1>7

(* The number of elements of a sequence without repetitions *)
LEMMA DistinctSize ==
    ASSUME NEW v, Distinct(v), NEW S, \A y : y \in S <=> \E j \in DOMAIN v : v[j] = y
    PROVE  Cardinality(S) = Len(v) /\ IsFiniteSet(S)
<1>1. Len(v) \in Nat /\ DOMAIN v = 1 .. Len(v) /\ v = [i \in 1 .. Len(v) |-> v[i]]
  BY DEF Distinct
<1>2. v \in Bijection(1 .. Len(v), S)
  <2>1. v \in [1 .. Len(v) -> S]
    BY <1>1
  <2> QED
    BY <1>1, <2>1 DEF Bijection, Injection, Surjection, IsInjective, Distinct
<1>3. ExistsBijection(1 .. Len(v), S)
  BY <1>2 DEF ExistsBijection
<1> QED
  BY <1>1, <1>3, FS_CountingElements, FS_NatBijection

-----------------------------------------------------------------------------
(* Sorting *)

Ordered(r) == \A i \in 2 .. Len(r) : r[i - 1] < r[i]

(* A sorted sequence has the elements of the sequence *)
LEMMA SortedSorts ==
    ASSUME NEW s, Distinct(s), NEW r, r = sorted(s)
    PROVE  /\ Len(r) = Len(s) /\ Distinct(r) /\ Ordered(r)
           /\ \A y : (\E i \in DOMAIN r : r[i] = y) <=> \E i \in DOMAIN s : s[i] = y
<1> DEFINE N == Len(s)
           upTo(i) == {j \in 1 .. N : s[j] <= s[i]}
           rank(i) == Cardinality(upTo(i))
           at(k) == CHOOSE i \in 1 .. N : rank(i) = k
<1>1. N \in Nat /\ DOMAIN s = 1 .. N /\ s = [i \in 1 .. N |-> s[i]] /\ \A i \in 1 .. N : s[i] \in Nat
  BY DEF Distinct
<1>2. r = [k \in 1 .. N |-> s[at(k)]]
  BY <1>1 DEF sorted
<1>3. \A i, j \in 1 .. N : s[i] = s[j] => i = j
  BY <1>1 DEF Distinct
<1> HIDE DEF N
<1>4. IsFiniteSet(1 .. N) /\ Cardinality(1 .. N) = N
  BY <1>1, FS_Interval
<1>5. ASSUME NEW i \in 1 .. N
      PROVE  IsFiniteSet(upTo(i)) /\ rank(i) \in 1 .. N
  <2> DEFINE S == upTo(i)
  <2>1. S \in SUBSET (1 .. N) /\ i \in S
    BY <1>1
  <2> HIDE DEF S
  <2>2. IsFiniteSet(S) /\ Cardinality(S) <= N
    BY <1>4, <2>1, FS_Subset
  <2>3. Cardinality(S) \in Nat /\ Cardinality(S) # 0
    BY <2>1, <2>2, FS_CardinalityType, FS_EmptySet
  <2>4. Cardinality(S) \in 1 .. N
    BY <1>1, <2>2, <2>3
  <2> QED
    BY <2>2, <2>4 DEF S
<1>6. ASSUME NEW i \in 1 .. N, NEW j \in 1 .. N, s[i] < s[j] PROVE rank(i) < rank(j)
  <2> DEFINE S == upTo(i)
             T == upTo(j)
  <2>1. S \in SUBSET T /\ j \in T /\ j \notin S
    BY <1>1, <1>6
  <2>2. IsFiniteSet(T) /\ Cardinality(S) \in 1 .. N /\ Cardinality(T) \in 1 .. N
    BY <1>5
  <2> HIDE DEF S, T
  <2>3. Cardinality(S) <= Cardinality(T) /\ Cardinality(S) # Cardinality(T)
    BY <2>1, <2>2, FS_Subset
  <2>4. Cardinality(S) < Cardinality(T)
    BY <1>1, <2>2, <2>3
  <2> QED
    BY <2>4 DEF S, T
<1>7. \A i \in 1 .. N : rank(i) \in 1 .. N
  BY <1>5
<1> HIDE DEF rank
<1>8. \A i, j \in 1 .. N : rank(i) = rank(j) => i = j
  <2>1. ASSUME NEW i \in 1 .. N, NEW j \in 1 .. N, rank(i) = rank(j), i # j PROVE FALSE
    <3>1. s[i] # s[j] /\ s[i] \in Nat /\ s[j] \in Nat
      BY <1>1, <1>3, <2>1
    <3>2. CASE s[i] < s[j]
      BY <1>1, <1>6, <1>7, <2>1, <3>2
    <3>3. CASE s[j] < s[i]
      BY <1>1, <1>6, <1>7, <2>1, <3>3
    <3> QED
      BY <3>1, <3>2, <3>3
  <2> QED
    BY <2>1
<1>9. \A k \in 1 .. N : \E i \in 1 .. N : rank(i) = k
  <2> DEFINE f == [i \in 1 .. N |-> rank(i)]
  <2>1. f \in [1 .. N -> 1 .. N]
    BY <1>7
  <2>2. f \in Injection(1 .. N, 1 .. N)
    BY <1>8, <2>1 DEF Injection, IsInjective
  <2> HIDE DEF f
  <2>3. f \in Surjection(1 .. N, 1 .. N)
    BY <1>4, <2>2, FS_Injection
  <2>4. \A k \in 1 .. N : \E i \in 1 .. N : f[i] = k
    BY <2>3 DEF Surjection
  <2> QED
    BY <2>4 DEF f
<1>10. \A k \in 1 .. N : at(k) \in 1 .. N /\ rank(at(k)) = k
  BY <1>9
<1> HIDE DEF at
<1>11. /\ DOMAIN r = 1 .. N /\ Len(r) = N /\ r \in Seq(Nat)
       /\ \A k \in 1 .. N : r[k] = s[at(k)]
  <2>1. DOMAIN r = 1 .. N /\ \A k \in 1 .. N : r[k] = s[at(k)] /\ r[k] \in Nat
    BY <1>1, <1>2, <1>10
  <2>2. r \in Seq(Nat)
    BY <1>1, <1>2, <2>1
  <2> QED
    BY <1>1, <2>1, <2>2
<1>12. Distinct(r)
  <2>1. ASSUME NEW i \in 1 .. N, NEW j \in 1 .. N, r[i] = r[j] PROVE i = j
    <3>1. at(i) \in 1 .. N /\ at(j) \in 1 .. N /\ s[at(i)] = s[at(j)]
      BY <1>10, <1>11, <2>1
    <3>2. at(i) = at(j)
      BY <1>3, <3>1
    <3>3. rank(at(i)) = i /\ rank(at(j)) = j
      BY <1>10
    <3> QED
      BY <3>2, <3>3
  <2> QED
    BY <1>11, <2>1 DEF Distinct
<1>13. Ordered(r)
  <2>1. ASSUME NEW i \in 2 .. N PROVE r[i - 1] < r[i]
    <3> DEFINE a == at(i - 1)
               b == at(i)
    <3>1. i - 1 \in 1 .. N /\ i \in 1 .. N /\ ~(i < i - 1) /\ i # i - 1
      BY <1>1
    <3>2. a \in 1 .. N /\ b \in 1 .. N /\ rank(a) = i - 1 /\ rank(b) = i /\ r[i - 1] = s[a] /\ r[i] = s[b]
      BY <1>10, <1>11, <3>1
    <3> HIDE DEF a, b
    <3>3. ~(s[b] < s[a])
      BY <1>6, <3>1, <3>2
    <3>4. s[a] # s[b]
      BY <1>3, <3>1, <3>2
    <3> QED
      BY <1>1, <3>2, <3>3, <3>4
  <2> QED
    BY <1>11, <2>1 DEF Ordered
<1>14. ASSUME NEW y PROVE (\E i \in 1 .. N : r[i] = y) <=> \E i \in 1 .. N : s[i] = y
  <2>1. ASSUME NEW i \in 1 .. N PROVE r[rank(i)] = s[i] /\ rank(i) \in 1 .. N
    <3>1. rank(i) \in 1 .. N
      BY <1>7
    <3>2. at(rank(i)) = i
      BY <1>8, <1>10, <3>1
    <3> QED
      BY <1>11, <3>1, <3>2
  <2>2. ASSUME NEW i \in 1 .. N PROVE r[i] = s[at(i)] /\ at(i) \in 1 .. N
    BY <1>10, <1>11
  <2>3. ASSUME NEW i \in 1 .. N, r[i] = y PROVE \E j \in 1 .. N : s[j] = y
    BY <2>2, <2>3
  <2>4. ASSUME NEW i \in 1 .. N, s[i] = y PROVE \E j \in 1 .. N : r[j] = y
    BY <2>1, <2>4
  <2> QED
    BY <2>3, <2>4
<1> QED
  BY <1>1, <1>11, <1>12, <1>13, <1>14 DEF N

(* A copy of all elements *)
LEMMA CopiedAll == ASSUME NEW s, Distinct(s), NEW r, r = copied(s, Len(s)) PROVE r = s
<1>1. Len(s) \in Nat /\ DOMAIN s = 1 .. Len(s) /\ s = [i \in 1 .. Len(s) |-> s[i]]
  BY DEF Distinct
<1>2. copied(s, Len(s)) = [i \in 1 .. Len(s) |-> s[i]]
  BY <1>1 DEF copied
<1> QED
  BY <1>1, <1>2

-----------------------------------------------------------------------------
(* Buffers *)

LEMMA ElementsFinite ==
    /\ Distinct(Source) /\ IsFiniteSet(Elements) /\ Elements \subseteq Nat
    /\ \A x : x \in Elements <=> \E i \in DOMAIN Source : Source[i] = x
<1>1. Source \in Seq(Nat) /\ Cardinality(Elements) = Len(Source)
  BY GrowingBufferAssumption DEF Elements
<1>2. Len(Source) \in Nat /\ DOMAIN Source = 1 .. Len(Source) /\ Source = [i \in 1 .. Len(Source) |-> Source[i]]
  BY <1>1
<1>3. \A x : x \in Elements <=> \E i \in DOMAIN Source : Source[i] = x
  BY DEF Elements, ToSet
<1>4. Elements \subseteq Nat
  BY <1>1, <1>2, <1>3
<1>5. Source \in Surjection(1 .. Len(Source), Elements)
  <2>1. Source \in [1 .. Len(Source) -> Elements]
    BY <1>2, <1>3
  <2> QED
    BY <1>2, <1>3, <2>1 DEF Surjection
<1>6. IsFiniteSet(1 .. Len(Source)) /\ Cardinality(1 .. Len(Source)) = Len(Source)
  <2> DEFINE n == Len(Source)
  <2>1. n \in Nat
    BY <1>2
  <2> HIDE DEF n
  <2>2. IsFiniteSet(1 .. n) /\ Cardinality(1 .. n) = n
    BY <2>1, FS_Interval
  <2> QED
    BY <2>2 DEF n
<1>7. IsFiniteSet(Elements) /\ Source \in Injection(1 .. Len(Source), Elements)
  BY <1>1, <1>5, <1>6, FS_Surjection
<1>8. Distinct(Source)
  BY <1>1, <1>2, <1>7 DEF Distinct, Injection, IsInjective
<1> QED
  BY <1>3, <1>4, <1>7, <1>8

LEMMA BufferFields ==
    ASSUME NEW b \in BufferType
    PROVE  /\ b # Null /\ b = [totalLen |-> b.totalLen, currCapacity |-> b.currCapacity, blocks |-> b.blocks]
           /\ b.totalLen \in Nat /\ b.currCapacity \in Nat
           /\ Len(b.blocks) \in Nat /\ DOMAIN b.blocks = 1 .. Len(b.blocks)
           /\ \A i \in DOMAIN b.blocks : /\ b.blocks[i] = [elements |-> b.blocks[i].elements, room |-> b.blocks[i].room]
                                         /\ b.blocks[i].elements \in Seq(Nat) /\ b.blocks[i].room \in Nat
           /\ DOMAIN contents(b) = DOMAIN b.blocks
           /\ \A i \in DOMAIN b.blocks : contents(b)[i] = b.blocks[i].elements
<1> DEFINE B == [elements : Seq(Nat), room : Nat]
           v == b.blocks
<1>1. b # Null
  BY NullAssumption
<1>2. /\ b = [totalLen |-> b.totalLen, currCapacity |-> b.currCapacity, blocks |-> b.blocks]
      /\ b.totalLen \in Nat /\ b.currCapacity \in Nat /\ v \in Seq(B)
  BY DEF BufferType
<1> HIDE DEF B
<1>3. Len(v) \in Nat /\ DOMAIN v = 1 .. Len(v) /\ \A i \in DOMAIN v : v[i] \in B
  <2> HIDE DEF v
  <2> QED
    BY <1>2
<1>4. \A e \in B : e = [elements |-> e.elements, room |-> e.room] /\ e.elements \in Seq(Nat) /\ e.room \in Nat
  BY DEF B
<1>5. DOMAIN contents(b) = DOMAIN v /\ \A i \in DOMAIN v : contents(b)[i] = v[i].elements
  BY DEF contents
<1> QED
  BY <1>1, <1>2, <1>3, <1>4, <1>5

(* What the elements of a buffer are *)
Elems(b) == {x \in Elements : Has(contents(b), x)}

LEMMA OnlyHas == ASSUME NEW s, NEW S PROVE HasOnly(s, S) <=> \A x : Has(s, x) => x \in S
BY DEF HasOnly, Has

LEMMA NewBufferOK == BufferOK(newBuffer) /\ LastOpen(newBuffer) /\ \A x : ~Has(contents(newBuffer), x)
<1> DEFINE b == newBuffer
<1>1. InitialCapacity \in Nat \ {0}
  BY GrowingBufferAssumption
<1>2. b \in BufferType
  BY <1>1 DEF newBuffer, BufferType
<1>3. /\ b.totalLen = 0 /\ b.currCapacity = InitialCapacity
      /\ b.blocks = <<[elements |-> <<>>, room |-> InitialCapacity]>>
  BY DEF newBuffer
<1>4. DOMAIN b.blocks = {1} /\ b.blocks[1].elements = <<>> /\ b.blocks[1].room = InitialCapacity /\ Len(b.blocks) = 1
  BY <1>3
<1> HIDE DEF b
<1>5. contents(b) = <<(<<>>)>>
  BY <1>2, <1>4, BufferFields DEF contents
<1>6. Spread(contents(b)) /\ \A x : ~Has(contents(b), x)
  BY <1>5 DEF Spread, Has
<1>7. LastOpen(b) /\ \A i \in DOMAIN b.blocks : Len(b.blocks[i].elements) <= b.blocks[i].room
  BY <1>1, <1>3, <1>4 DEF LastOpen
<1>8. Elems(b) = {}
  BY <1>6 DEF Elems
<1>9. Cardinality({x \in Elements : Has(contents(b), x)}) = 0
  BY <1>8, FS_EmptySet DEF Elems
<1> QED
  BY <1>2, <1>3, <1>6, <1>7, <1>9, OnlyHas DEF BufferOK, b

(* A buffer with room for an element, the same elements as b, and b's length *)
Opened(b, c) ==
    /\ c \in BufferType /\ LastOpen(c) /\ c.totalLen = b.totalLen
    /\ \A i \in DOMAIN c.blocks : Len(c.blocks[i].elements) <= c.blocks[i].room
    /\ Len(c.blocks[Len(c.blocks)].elements) < c.currCapacity
    /\ Spread(contents(c)) /\ \A y : Has(contents(c), y) <=> Has(contents(b), y)

LEMMA NextBufferOpens ==
    ASSUME NEW b, BufferOK(b), LastOpen(b), NEW c,
           c = IF Len(Last(b.blocks).elements) = b.currCapacity THEN nextBuffer(b) ELSE b
    PROVE  Opened(b, c)
<1> DEFINE n == Len(b.blocks)
           last == b.blocks[n]
           k == b.currCapacity
<1>1. b \in BufferType /\ Spread(contents(b)) /\ \A i \in DOMAIN b.blocks : Len(b.blocks[i].elements) <= b.blocks[i].room
  BY DEF BufferOK
<1>2. n \in Nat \ {0} /\ DOMAIN b.blocks = 1 .. n /\ n \in DOMAIN b.blocks
  <2>1. n \in Nat /\ DOMAIN b.blocks = 1 .. n
    BY <1>1, BufferFields
  <2>2. b.blocks \in Seq([elements : Seq(Nat), room : Nat]) /\ b.blocks # <<>>
    BY <1>1 DEF BufferType, LastOpen
  <2>3. n # 0
    BY <2>2
  <2> QED
    BY <2>1, <2>3
<1>3. k \in Nat \ {0} /\ last.room = k /\ Len(last.elements) <= k /\ Len(last.elements) \in Nat
  <2>1. k \in Nat /\ last.elements \in Seq(Nat)
    BY <1>1, <1>2, BufferFields
  <2>2. last.room = k /\ k # 0 /\ Len(last.elements) <= last.room
    BY <1>1, <1>2 DEF LastOpen
  <2> QED
    BY <2>1, <2>2
<1>4. Last(b.blocks) = last
  BY DEF Last
<1>5. CASE Len(last.elements) # k
  <2>1. c = b
    BY <1>4, <1>5
  <2>2. Len(last.elements) < k
    BY <1>3, <1>5
  <2> QED
    BY <1>1, <2>1, <2>2 DEF Opened
<1>6. CASE Len(last.elements) = k
  <2> DEFINE e == [elements |-> <<>>, room |-> 2 * k]
             v == Append(b.blocks, e)
  <2>1. c = [b EXCEPT !.blocks = v, !.currCapacity = 2 * k]
    BY <1>4, <1>6 DEF nextBuffer
  <2>2. /\ e \in [elements : Seq(Nat), room : Nat] /\ e.elements = <<>> /\ e.room = 2 * k
        /\ 2 * k \in Nat \ {0}
    BY <1>3
  <2> HIDE DEF e
  <2>3. /\ v \in Seq([elements : Seq(Nat), room : Nat]) /\ Len(v) = n + 1 /\ DOMAIN v = 1 .. n + 1 /\ v[n + 1] = e
        /\ \A i \in 1 .. n : v[i] = b.blocks[i]
    <3>1. b.blocks \in Seq([elements : Seq(Nat), room : Nat])
      BY <1>1 DEF BufferType
    <3> DEFINE B == [elements : Seq(Nat), room : Nat]
    <3> HIDE DEF B
    <3> QED
      BY <1>2, <2>2, <3>1 DEF B
  <2> HIDE DEF v
  <2>4. v # <<>>
    <3>1. Len(v) # 0
      BY <1>2, <2>3
    <3> QED
      BY <3>1
  <2>5. c = [totalLen |-> b.totalLen, currCapacity |-> 2 * k, blocks |-> v]
    BY <1>1, <2>1, BufferFields
  <2>6. c.totalLen = b.totalLen /\ c.currCapacity = 2 * k /\ c.blocks = v
    BY <2>5
  <2>7. c \in BufferType
    BY <1>1, <2>2, <2>3, <2>5, BufferFields DEF BufferType
  <2>8. LastOpen(c)
    BY <2>2, <2>3, <2>4, <2>6 DEF LastOpen
  <2>9. Len(v[n + 1].elements) = 0 /\ 0 < 2 * k
    BY <2>2, <2>3
  <2>10. \A i \in DOMAIN v : Len(v[i].elements) <= v[i].room
    <3>1. Len(v[n + 1].elements) <= v[n + 1].room
      BY <2>2, <2>3, <2>9
    <3>2. \A i \in 1 .. n + 1 : i \in 1 .. n \/ i = n + 1
      BY <1>2
    <3> QED
      BY <1>1, <1>2, <2>3, <3>1, <3>2
  <2>11. contents(c) = Append(contents(b), <<>>)
    <3> DEFINE s == contents(b)
               u == contents(c)
    <3>1. s \in Seq(Seq(Nat)) /\ DOMAIN s = 1 .. n /\ \A i \in 1 .. n : s[i] = b.blocks[i].elements
      BY <1>1, <1>2, BufferFields DEF Spread
    <3>2. DOMAIN u = 1 .. n + 1 /\ u = [i \in DOMAIN c.blocks |-> u[i]] /\ \A i \in 1 .. n + 1 : u[i] = v[i].elements
      BY <2>3, <2>6, <2>7, BufferFields DEF contents
    <3> HIDE DEF s, u
    <3> DEFINE w == Append(s, <<>>)
    <3>0. Len(s) = n /\ <<>> \in Seq(Nat)
      BY <1>2, <3>1
    <3>a. w \in Seq(Seq(Nat)) /\ Len(w) = n + 1 /\ w[n + 1] = <<>> /\ \A i \in 1 .. n : w[i] = s[i]
      BY <1>2, <3>0, <3>1, AppendProperties
    <3> HIDE DEF w
    <3>3. w = [i \in 1 .. n + 1 |-> w[i]]
      BY <3>a
    <3>4. u = [i \in 1 .. n + 1 |-> u[i]]
      BY <3>2
    <3>5. ASSUME NEW i \in 1 .. n + 1 PROVE u[i] = w[i]
      <4>1. i \in 1 .. n \/ i = n + 1
        BY <1>2
      <4>2. u[i] = v[i].elements
        BY <3>2
      <4>3. CASE i \in 1 .. n
        <5>1. v[i] = b.blocks[i] /\ s[i] = b.blocks[i].elements /\ w[i] = s[i]
          BY <2>3, <3>1, <3>a, <4>3
        <5> QED
          BY <4>2, <5>1, Zenon
      <4>4. CASE i = n + 1
        <5>1. v[i] = e /\ w[i] = <<>>
          BY <2>3, <3>a, <4>4
        <5> QED
          BY <2>2, <4>2, <5>1, Zenon
      <4> QED
        BY <4>1, <4>3, <4>4, Zenon
    <3>6. u = w
      BY <3>3, <3>4, <3>5
    <3> QED
      BY <3>6 DEF s, u, w
  <2>12. Spread(contents(c)) /\ \A y : Has(contents(c), y) <=> Has(contents(b), y)
    <3> DEFINE s == contents(b)
               u == contents(c)
    <3>1. u = Append(s, <<>>) /\ Spread(s)
      BY <1>1, <2>11
    <3> HIDE DEF s, u
    <3>2. Spread(u) /\ \A y : Has(u, y) <=> Has(s, y)
      BY <3>1, SpreadEmpty
    <3> QED
      BY <3>2 DEF s, u
  <2> QED
    BY <2>3, <2>6, <2>7, <2>8, <2>9, <2>10, <2>12 DEF Opened
<1> QED
  BY <1>5, <1>6

Grows(b, x, d) == BufferOK(d) /\ LastOpen(d) /\ \A y : Has(contents(d), y) <=> Has(contents(b), y) \/ y = x

LEMMA InsertGrows ==
    ASSUME NEW b, BufferOK(b), LastOpen(b), NEW x \in Elements, ~Has(contents(b), x), NEW d, d = insert(b, x)
    PROVE  Grows(b, x, d)
<1> DEFINE c == IF Len(Last(b.blocks).elements) = b.currCapacity THEN nextBuffer(b) ELSE b
<1>1. Opened(b, c)
  BY NextBufferOpens
<1>2. d = [c EXCEPT !.totalLen = @ + 1, !.blocks[Len(c.blocks)].elements = Append(@, x)]
  BY DEF insert
<1> HIDE DEF c
<1> DEFINE n == Len(c.blocks)
           last == c.blocks[n]
           k == c.currCapacity
           e == [last EXCEPT !.elements = Append(last.elements, x)]
           v == [c.blocks EXCEPT ![n] = e]
           B == [elements : Seq(Nat), room : Nat]
<1>3. /\ c \in BufferType /\ LastOpen(c) /\ c.totalLen = b.totalLen
      /\ \A i \in DOMAIN c.blocks : Len(c.blocks[i].elements) <= c.blocks[i].room
      /\ Len(last.elements) < k
      /\ Spread(contents(c)) /\ \A y : Has(contents(c), y) <=> Has(contents(b), y)
  BY <1>1 DEF Opened
<1>4. n \in Nat \ {0} /\ DOMAIN c.blocks = 1 .. n /\ n \in DOMAIN c.blocks /\ c.blocks \in Seq(B) /\ last \in B
  <2>1. c.blocks \in Seq(B) /\ c.blocks # <<>>
    BY <1>3 DEF BufferType, LastOpen
  <2> DEFINE w == c.blocks
  <2> HIDE DEF B, w
  <2>2. Len(w) \in Nat /\ DOMAIN w = 1 .. Len(w) /\ Len(w) # 0
    BY <2>1 DEF w
  <2>3. Len(w) \in DOMAIN w /\ w[Len(w)] \in B
    BY <2>1, <2>2 DEF w
  <2> QED
    BY <2>1, <2>2, <2>3 DEF w
<1>5. x \in Nat
  BY ElementsFinite
<1>6. last = [elements |-> last.elements, room |-> last.room] /\ last.elements \in Seq(Nat) /\ last.room \in Nat /\ last.room = k
  BY <1>3, <1>4 DEF LastOpen
<1>7. e \in B /\ e.elements = Append(last.elements, x) /\ e.room = k /\ Len(e.elements) = Len(last.elements) + 1
  <2> DEFINE w == last.elements
             z == Append(w, x)
  <2>1. w \in Seq(Nat)
    BY <1>6
  <2>2. e = [elements |-> z, room |-> k]
    <3>1. last = [elements |-> w, room |-> k] /\ e = [last EXCEPT !.elements = z]
      BY <1>6
    <3> HIDE DEF e, w, z, last, k
    <3> QED
      BY <3>1
  <2> HIDE DEF w
  <2>3. z \in Seq(Nat) /\ Len(z) = Len(w) + 1
    BY <1>5, <2>1, AppendProperties
  <2>4. k \in Nat
    BY <1>6
  <2> HIDE DEF z, e, k
  <2>5. e \in B /\ e.elements = z /\ e.room = k
    BY <2>2, <2>3, <2>4
  <2> QED
    BY <2>3, <2>5 DEF w, z
<1>8. d = [c EXCEPT !.totalLen = c.totalLen + 1, !.blocks = v]
  <2>1. c = [totalLen |-> c.totalLen, currCapacity |-> c.currCapacity, blocks |-> c.blocks]
    BY <1>3, BufferFields
  <2> QED
    BY <1>2, <2>1
<1> HIDE DEF e, B
<1>9. v \in Seq(B) /\ Len(v) = n /\ DOMAIN v = 1 .. n /\ v[n] = e /\ \A i \in 1 .. n : i # n => v[i] = c.blocks[i]
  BY <1>4, <1>7
<1> HIDE DEF v
<1>10. d = [totalLen |-> c.totalLen + 1, currCapacity |-> k, blocks |-> v]
  BY <1>3, <1>8, BufferFields
<1>11. d.totalLen = c.totalLen + 1 /\ d.currCapacity = k /\ d.blocks = v
  BY <1>10
<1>12. c.totalLen \in Nat /\ k \in Nat
  BY <1>3, BufferFields
<1>13. d \in BufferType
  BY <1>9, <1>10, <1>12 DEF BufferType, B
<1>14. LastOpen(d)
  <2>1. v # <<>>
    <3>1. Len(v) # 0
      BY <1>4, <1>9
    <3> QED
      BY <3>1
  <2> QED
    BY <1>3, <1>7, <1>9, <1>11, <2>1 DEF LastOpen
<1>15. \A i \in DOMAIN v : Len(v[i].elements) <= v[i].room
  <2>1. Len(last.elements) \in Nat
    BY <1>6
  <2>2. Len(e.elements) <= e.room
    BY <1>3, <1>7, <1>12, <2>1
  <2> QED
    BY <1>3, <1>4, <1>9, <2>2
<1>16. contents(d) = [contents(c) EXCEPT ![n] = Append(contents(c)[n], x)]
  <2> DEFINE s == contents(c)
             u == contents(d)
  <2>1. s = [i \in 1 .. n |-> s[i]] /\ \A i \in 1 .. n : s[i] = c.blocks[i].elements
    BY <1>3, <1>4, BufferFields DEF contents
  <2>2. u = [i \in 1 .. n |-> u[i]] /\ \A i \in 1 .. n : u[i] = v[i].elements
    BY <1>9, <1>11, <1>13, BufferFields DEF contents
  <2>3. n \in 1 .. n
    BY <1>4
  <2> HIDE DEF s, u
  <2>4. u = [s EXCEPT ![n] = Append(s[n], x)]
    <3> DEFINE z == Append(s[n], x)
               y == [s EXCEPT ![n] = z]
    <3>1. u[n] = z
      BY <1>7, <1>9, <2>1, <2>2, <2>3
    <3>2. ASSUME NEW i \in 1 .. n, i # n PROVE u[i] = s[i]
      BY <1>9, <2>1, <2>2, <3>2
    <3> HIDE DEF z, n
    <3>3. y = [i \in 1 .. n |-> IF i = n THEN z ELSE s[i]]
      BY <2>1
    <3>4. \A i \in 1 .. n : u[i] = IF i = n THEN z ELSE s[i]
      BY <3>1, <3>2
    <3>5. u = y
      BY <2>2, <3>3, <3>4
    <3> QED
      BY <3>5 DEF z
  <2> QED
    BY <2>4 DEF s, u
<1>17. Added(contents(c), x, contents(d))
  <2> DEFINE s == contents(c)
             u == contents(d)
  <2>1. Spread(s) /\ n \in DOMAIN s /\ ~Has(s, x) /\ u = [s EXCEPT ![n] = Append(s[n], x)]
    BY <1>3, <1>4, <1>16, BufferFields
  <2> HIDE DEF s, u, n
  <2>2. Added(s, x, u)
    BY <1>5, <2>1, SpreadGrow
  <2> QED
    BY <2>2 DEF s, u
<1>18. Spread(contents(d)) /\ \A y : Has(contents(d), y) <=> Has(contents(b), y) \/ y = x
  BY <1>3, <1>17 DEF Added
<1>19. d.totalLen = Cardinality({y \in Elements : Has(contents(d), y)})
  <2>1. b.totalLen = Cardinality(Elems(b))
    BY DEF BufferOK, Elems
  <2>2. Elems(d) = Elems(b) \cup {x} /\ x \notin Elems(b)
    BY <1>18 DEF Elems
  <2>3. IsFiniteSet(Elems(b))
    BY ElementsFinite, FS_Subset DEF Elems
  <2>4. Cardinality(Elems(d)) = Cardinality(Elems(b)) + 1
    BY <2>2, <2>3, FS_AddElement
  <2> QED
    BY <1>3, <1>11, <2>1, <2>4 DEF Elems
<1>20. HasOnly(contents(d), Elements)
  <2>1. \A y : Has(contents(b), y) => y \in Elements
    BY OnlyHas DEF BufferOK
  <2> QED
    BY <1>18, <2>1, OnlyHas
<1> QED
  BY <1>11, <1>13, <1>14, <1>15, <1>18, <1>19, <1>20 DEF Grows, BufferOK

Unites(a, b, d) == BufferOK(d) /\ LastOpen(d) /\ \A y : Has(contents(d), y) <=> Has(contents(a), y) \/ Has(contents(b), y)

LEMMA MergeUnites ==
    ASSUME NEW a, BufferOK(a), LastOpen(a), NEW b, BufferOK(b), \A x : ~(Has(contents(a), x) /\ Has(contents(b), x)),
           NEW d, d = merge(a, b)
    PROVE  Unites(a, b, d)
<1> DEFINE B == [elements : Seq(Nat), room : Nat]
           v == b.blocks \o a.blocks
           m == Len(a.blocks)
           n == Len(b.blocks)
<1>1. /\ a \in BufferType /\ b \in BufferType /\ Spread(contents(a)) /\ Spread(contents(b))
      /\ \A i \in DOMAIN a.blocks : Len(a.blocks[i].elements) <= a.blocks[i].room
      /\ \A i \in DOMAIN b.blocks : Len(b.blocks[i].elements) <= b.blocks[i].room
  BY DEF BufferOK
<1>2. /\ a.blocks \in Seq(B) /\ b.blocks \in Seq(B) /\ m \in Nat /\ n \in Nat
      /\ DOMAIN a.blocks = 1 .. m /\ DOMAIN b.blocks = 1 .. n
  BY <1>1, BufferFields DEF BufferType
<1>3. m # 0
  <2>1. a.blocks # <<>>
    BY DEF LastOpen
  <2> DEFINE w == a.blocks
  <2> HIDE DEF w, B
  <2>2. Len(w) # 0
    BY <1>2, <2>1 DEF w
  <2> QED
    BY <2>2 DEF w
<1>4. d = [a EXCEPT !.blocks = v, !.totalLen = a.totalLen + b.totalLen]
  BY DEF merge
<1> DEFINE p == b.blocks
           q == a.blocks
<1>5. JoinOf(B, p, n, q, m, v)
  <2>1. v = p \o q /\ p \in Seq(B) /\ q \in Seq(B) /\ n = Len(p) /\ m = Len(q)
    BY <1>2
  <2> HIDE DEF B, v, p, q, m, n
  <2> QED
    BY <2>1, ConcatJoin
<1> HIDE DEF v, B, m, n
<1>6. v \in Seq(B) /\ Len(v) = n + m /\ DOMAIN v = 1 .. n + m /\ \A i \in 1 .. n + m : v[i] = IF i <= n THEN p[i] ELSE q[i - n]
  <2> HIDE DEF p, q
  <2> QED
    BY <1>5 DEF JoinOf
<1>7. d = [totalLen |-> a.totalLen + b.totalLen, currCapacity |-> a.currCapacity, blocks |-> v]
  <2>1. a = [totalLen |-> a.totalLen, currCapacity |-> a.currCapacity, blocks |-> a.blocks]
    BY <1>1, BufferFields
  <2> QED
    BY <1>4, <2>1
<1>8. d.totalLen = a.totalLen + b.totalLen /\ d.currCapacity = a.currCapacity /\ d.blocks = v
  BY <1>7
<1>9. d \in BufferType
  <2>1. a.totalLen + b.totalLen \in Nat /\ a.currCapacity \in Nat
    BY <1>1, BufferFields
  <2> QED
    BY <1>6, <1>7, <2>1 DEF BufferType, B
<1>10. LastOpen(d)
  <2>1. v # <<>>
    <3>1. Len(v) # 0
      BY <1>2, <1>3, <1>6
    <3> QED
      BY <3>1
  <2>2. n + m \in 1 .. n + m /\ ~(n + m <= n) /\ (n + m) - n = m
    BY <1>2, <1>3
  <2>3. v[n + m] = q[m]
    <3> HIDE DEF p, q
    <3> QED
      BY <1>6, <2>2
  <2> QED
    BY <1>6, <1>8, <2>1, <2>3 DEF LastOpen, m
<1>11. ASSUME NEW i \in 1 .. n + m
       PROVE  (i \in 1 .. n /\ v[i] = p[i]) \/ (i - n \in 1 .. m /\ v[i] = q[i - n] /\ ~(i <= n))
  <2> HIDE DEF p, q
  <2> QED
    BY <1>2, <1>6
<1>12. \A i \in DOMAIN v : Len(v[i].elements) <= v[i].room
  BY <1>1, <1>2, <1>6, <1>11
<1>13. contents(d) = contents(b) \o contents(a)
  <2> DEFINE s == contents(b)
             r == contents(a)
             u == contents(d)
             w == s \o r
  <2>1. /\ s \in Seq(Seq(Nat)) /\ DOMAIN s = 1 .. n /\ \A i \in 1 .. n : s[i] = p[i].elements
        /\ r \in Seq(Seq(Nat)) /\ DOMAIN r = 1 .. m /\ \A i \in 1 .. m : r[i] = q[i].elements
    BY <1>1, <1>2, BufferFields DEF Spread
  <2>2. u = [i \in 1 .. n + m |-> u[i]] /\ \A i \in 1 .. n + m : u[i] = v[i].elements
    BY <1>6, <1>8, <1>9, BufferFields DEF contents
  <2> HIDE DEF s, r, u, p, q
  <2>3. n = Len(s) /\ m = Len(r)
    BY <1>2, <2>1
  <2>4. JoinOf(Seq(Nat), s, n, r, m, w)
    <3>1. w = s \o r
      OBVIOUS
    <3> HIDE DEF w
    <3> QED
      BY <2>1, <2>3, <3>1, ConcatJoin
  <2> HIDE DEF w
  <2>5. w \in Seq(Seq(Nat)) /\ Len(w) = n + m /\ \A i \in 1 .. n + m : w[i] = IF i <= n THEN s[i] ELSE r[i - n]
    BY <2>4 DEF JoinOf
  <2>6. w = [i \in 1 .. n + m |-> w[i]]
    BY <2>5
  <2>7. ASSUME NEW i \in 1 .. n + m PROVE u[i] = w[i]
    <3>1. CASE i \in 1 .. n /\ v[i] = p[i]
      <4>1. i <= n
        BY <1>2, <3>1
      <4>2. u[i] = p[i].elements /\ w[i] = s[i]
        BY <2>2, <2>5, <3>1, <4>1
      <4> QED
        BY <2>1, <3>1, <4>2
    <3>2. CASE i - n \in 1 .. m /\ v[i] = q[i - n] /\ ~(i <= n)
      <4>1. u[i] = q[i - n].elements /\ w[i] = r[i - n]
        BY <2>2, <2>5, <3>2
      <4> QED
        BY <2>1, <3>2, <4>1
    <3> QED
      BY <1>11, <3>1, <3>2
  <2>8. u = w
    BY <2>2, <2>6, <2>7
  <2> QED
    BY <2>8 DEF s, r, u, w
<1>14. Spread(contents(d)) /\ \A y : Has(contents(d), y) <=> Has(contents(a), y) \/ Has(contents(b), y)
  <2> DEFINE s == contents(b)
             r == contents(a)
             u == contents(d)
  <2>1. Spread(s) /\ Spread(r) /\ u = s \o r /\ \A x : ~(Has(s, x) /\ Has(r, x))
    BY <1>1, <1>13
  <2> HIDE DEF s, r, u
  <2>2. Spread(u) /\ \A y : Has(u, y) <=> Has(s, y) \/ Has(r, y)
    BY <2>1, SpreadConcat
  <2> QED
    BY <2>2 DEF s, r, u
<1>15. d.totalLen = Cardinality({y \in Elements : Has(contents(d), y)})
  <2>1. a.totalLen = Cardinality(Elems(a)) /\ b.totalLen = Cardinality(Elems(b))
    BY DEF BufferOK, Elems
  <2>2. Elems(d) = Elems(a) \cup Elems(b) /\ Elems(a) \cap Elems(b) = {}
    BY <1>14 DEF Elems
  <2>3. IsFiniteSet(Elems(a)) /\ IsFiniteSet(Elems(b))
    BY ElementsFinite, FS_Subset DEF Elems
  <2>4. Cardinality(Elems(d)) = Cardinality(Elems(a)) + Cardinality(Elems(b)) - 0
    BY <2>2, <2>3, FS_Union, FS_EmptySet
  <2>5. Cardinality(Elems(a)) \in Nat /\ Cardinality(Elems(b)) \in Nat
    BY <2>3, FS_CardinalityType
  <2> QED
    BY <1>8, <2>1, <2>4, <2>5 DEF Elems
<1>16. HasOnly(contents(d), Elements)
  <2>1. \A y : Has(contents(b), y) \/ Has(contents(a), y) => y \in Elements
    BY OnlyHas DEF BufferOK
  <2> QED
    BY <1>14, <2>1, OnlyHas
<1> QED
  BY <1>8, <1>9, <1>10, <1>12, <1>14, <1>15, <1>16 DEF Unites, BufferOK

LEMMA MovedOK == BufferOK(moved) /\ \A x : ~Has(contents(moved), x)
<1> DEFINE b == moved
<1>1. b \in BufferType /\ b.totalLen = 0 /\ DOMAIN b.blocks = {}
  BY DEF moved, BufferType
<1> HIDE DEF b
<1>2. contents(b) = <<>> /\ \A i \in DOMAIN b.blocks : Len(b.blocks[i].elements) <= b.blocks[i].room
  BY <1>1 DEF contents
<1>3. Spread(contents(b)) /\ \A x : ~Has(contents(b), x)
  BY <1>2 DEF Spread, Has
<1>4. {x \in Elements : Has(contents(b), x)} = {}
  BY <1>3
<1> QED
  BY <1>1, <1>2, <1>3, <1>4, OnlyHas, FS_EmptySet DEF BufferOK, b

-----------------------------------------------------------------------------
(* The steps preserve the invariant *)

LEMMA TailRest ==
    ASSUME NEW s, Distinct(s), s # <<>>, NEW r, r = Tail(s), NEW x, x = Head(s)
    PROVE  Distinct(r) /\ x \notin ToSet(r) /\ \A y : y \in ToSet(s) <=> y \in ToSet(r) \/ y = x
<1> DEFINE n == Len(s)
<1>1. s \in Seq(Nat) /\ n \in Nat \ {0} /\ DOMAIN s = 1 .. n /\ \A i, j \in DOMAIN s : s[i] = s[j] => i = j
  BY DEF Distinct
<1>2. /\ r \in Seq(Nat) /\ Len(r) = n - 1 /\ x = s[1] /\ \A i \in 1 .. n - 1 : r[i] = s[i + 1]
  BY <1>1
<1>3. DOMAIN r = 1 .. n - 1
  BY <1>2
<1> HIDE DEF n
<1>4. Distinct(r)
  <2>1. ASSUME NEW i \in 1 .. n - 1, NEW j \in 1 .. n - 1, r[i] = r[j] PROVE i = j
    <3>1. i + 1 \in DOMAIN s /\ j + 1 \in DOMAIN s /\ s[i + 1] = s[j + 1]
      BY <1>1, <1>2, <2>1
    <3>2. i + 1 = j + 1
      BY <1>1, <3>1
    <3> QED
      BY <3>2
  <2> QED
    BY <1>2, <1>3, <2>1 DEF Distinct
<1>5. ASSUME NEW i \in 1 .. n - 1 PROVE r[i] # x
  <2>1. i + 1 \in DOMAIN s /\ 1 \in DOMAIN s /\ i + 1 # 1
    BY <1>1
  <2> QED
    BY <1>1, <1>2, <2>1
<1>6. x \notin ToSet(r)
  BY <1>3, <1>5 DEF ToSet
<1>7. ASSUME NEW y PROVE y \in ToSet(s) <=> y \in ToSet(r) \/ y = x
  <2>1. ASSUME NEW i \in 1 .. n, s[i] = y, y # x PROVE \E j \in 1 .. n - 1 : r[j] = y
    <3>1. i - 1 \in 1 .. n - 1 /\ (i - 1) + 1 = i
      BY <1>1, <1>2, <2>1
    <3> QED
      BY <1>2, <2>1, <3>1
  <2>2. ASSUME NEW j \in 1 .. n - 1 PROVE \E i \in 1 .. n : s[i] = r[j]
    <3>1. j + 1 \in 1 .. n
      BY <1>1
    <3> QED
      BY <1>2, <3>1
  <2>3. 1 \in 1 .. n
    BY <1>1
  <2>4. y \in ToSet(s) <=> \E i \in 1 .. n : s[i] = y
    BY <1>1 DEF ToSet
  <2>5. y \in ToSet(r) <=> \E i \in 1 .. n - 1 : r[i] = y
    BY <1>3 DEF ToSet
  <2>6. y \in ToSet(s) => y \in ToSet(r) \/ y = x
    BY <2>1, <2>4, <2>5
  <2>7. y \in ToSet(r) \/ y = x => y \in ToSet(s)
    BY <1>2, <2>2, <2>3, <2>4, <2>5
  <2> QED
    BY <2>6, <2>7
<1> QED
  BY <1>4, <1>6, <1>7

LEMMA NoTasks == Spread(<<>>) /\ \A S : HasOnly(<<>>, S)
BY DEF Spread, HasOnly

(* A thread's buffer after a tuple has been materialised into it *)
LEMMA TakeInv ==
    ASSUME BufferInv, NEW t \in Threads, NEW b, BufferOK(b), LastOpen(b),
           \A y : Has(contents(b), y) <=> Holds(local[t], y),
           todo # <<>>, todo' = Tail(todo), local' = [local EXCEPT ![t] = insert(b, Head(todo))],
           UNCHANGED <<phase, first, tasks, visits, result>>,
           result = Null, phase = "fill" \/ (phase = "merged" /\ t = first)
    PROVE  BufferInv'
<1> DEFINE x == Head(todo)
           d == insert(b, x)
<1>1. TypeOK /\ MergeInOrder /\ HeldOnce /\ TaskedOnce
  BY DEF BufferInv
<1>2. /\ Distinct(todo') /\ x \notin ToSet(todo')
      /\ \A y : y \in ToSet(todo) <=> y \in ToSet(todo') \/ y = x
  BY <1>1, TailRest DEF TypeOK
<1>3. x \in Elements
  BY <1>1, <1>2 DEF TypeOK
<1>4. ~Has(contents(b), x)
  BY <1>1, <1>2, <1>3 DEF HeldOnce
<1>5. Grows(b, x, d)
  BY <1>3, <1>4, InsertGrows
<1>6. local' = [u \in Threads |-> IF u = t THEN d ELSE local[u]]
  BY <1>1 DEF TypeOK
<1> HIDE DEF d, x
<1>7. local'[t] = d /\ \A u \in Threads : u # t => local'[u] = local[u]
  BY <1>6
<1>8. BufferOK(d) /\ LastOpen(d) /\ d # Null
  <2>1. BufferOK(d) /\ LastOpen(d)
    BY <1>5 DEF Grows
  <2> QED
    BY <2>1, NullAssumption DEF BufferOK
<1>9. \A y : Holds(local'[t], y) <=> Holds(local[t], y) \/ y = x
  BY <1>5, <1>7, <1>8 DEF Grows, Holds
<1>10. TypeOK'
  BY <1>1, <1>2, <1>6, <1>7, <1>8 DEF TypeOK
<1>11. MergeInOrder'
  <2>1. CASE phase = "fill"
    <3>1. \A u \in Threads : local'[u] # Null => LastOpen(local'[u])
      BY <1>1, <1>7, <1>8, <2>1 DEF MergeInOrder
    <3> QED
      BY <2>1, <3>1 DEF MergeInOrder
  <2>2. CASE phase = "merged" /\ t = first
    <3>1. \A u \in Threads \ {first} : local[u] \in {Null, moved}
      BY <1>1, <2>2 DEF MergeInOrder
    <3>2. \A u \in Threads \ {first} : local'[u] \in {Null, moved}
      BY <1>7, <2>2, <3>1
    <3>3. first' \in Threads /\ local'[first'] # Null /\ LastOpen(local'[first'])
      BY <1>7, <1>8, <2>2
    <3> QED
      BY <2>2, <3>2, <3>3 DEF MergeInOrder
  <2> QED
    BY <2>1, <2>2
<1>12. HeldOnce'
  <2>1. ASSUME NEW y \in Elements, NEW u \in Threads
        PROVE  Holds(local'[u], y) <=> Holds(local[u], y) \/ (u = t /\ y = x)
    BY <1>7, <1>9
  <2>2. \A u \in Threads : ~Holds(local[u], x)
    BY <1>1, <1>2, <1>3 DEF HeldOnce
  <2>3. ASSUME NEW y \in Elements PROVE y \notin ToSet(todo') <=> \E u \in Threads : Holds(local'[u], y)
    BY <1>1, <1>2, <2>1 DEF HeldOnce
  <2>4. ASSUME NEW y \in Elements, NEW u \in Threads, NEW w \in Threads, Holds(local'[u], y), Holds(local'[w], y)
        PROVE  u = w
    <3>1. \A y1 \in Elements : \A t1, u1 \in Threads : Holds(local[t1], y1) /\ Holds(local[u1], y1) => t1 = u1
      BY <1>1 DEF HeldOnce
    <3> QED
      BY <2>1, <2>2, <2>4, <3>1
  <2> QED
    BY <2>3, <2>4 DEF HeldOnce
<1>13. TaskedOnce'
  <2>1. tasks' = <<>> /\ \A y \in Elements : visits'[y] = 0
    BY <1>1 DEF TaskedOnce
  <2>2. phase' \notin {"iterate", "done"}
    OBVIOUS
  <2> QED
    BY <2>1, <2>2, NoTasks DEF TaskedOnce
<1>14. ResultComplete'
  BY DEF ResultComplete
<1> QED
  BY <1>10, <1>11, <1>12, <1>13, <1>14 DEF BufferInv

LEMMA MaterializeInv == ASSUME BufferInv, NEW t \in Threads, Materialize(t) PROVE BufferInv'
<1> DEFINE b == IF local[t] = Null THEN newBuffer ELSE local[t]
<1>1. /\ todo # <<>> /\ todo' = Tail(todo) /\ phase = "fill"
      /\ UNCHANGED <<phase, first, tasks, visits, result>>
  BY DEF Materialize
<1>2. TypeOK /\ MergeInOrder
  BY DEF BufferInv
<1>3. local' = [local EXCEPT ![t] = insert(b, Head(todo))]
  BY <1>2 DEF Materialize, TypeOK
<1>4. result = Null
  BY <1>1, <1>2 DEF MergeInOrder
<1>5. BufferOK(b) /\ LastOpen(b) /\ \A y : Has(contents(b), y) <=> Holds(local[t], y)
  <2>1. CASE local[t] = Null
    BY <2>1, NewBufferOK DEF Holds
  <2>2. CASE local[t] # Null
    BY <1>1, <1>2, <2>2 DEF Holds, TypeOK, MergeInOrder
  <2> QED
    BY <2>1, <2>2
<1> HIDE DEF b
<1> QED
  BY <1>1, <1>3, <1>4, <1>5, TakeInv

LEMMA MaterializeMergedInv == ASSUME BufferInv, MaterializeMerged PROVE BufferInv'
<1> DEFINE b == local[first]
<1>1. /\ todo # <<>> /\ todo' = Tail(todo) /\ phase = "merged" /\ result = Null
      /\ UNCHANGED <<phase, first, tasks, visits, result>>
  BY DEF MaterializeMerged
<1>2. TypeOK /\ MergeInOrder
  BY DEF BufferInv
<1>3. first \in Threads /\ b # Null /\ LastOpen(b)
  BY <1>1, <1>2 DEF MergeInOrder
<1>4. local' = [local EXCEPT ![first] = insert(b, Head(todo))]
  BY <1>2, <1>3 DEF MaterializeMerged, TypeOK
<1>5. BufferOK(b) /\ \A y : Has(contents(b), y) <=> Holds(local[first], y)
  BY <1>2, <1>3 DEF TypeOK, Holds
<1>6. \A y : Has(contents(b), y) <=> Holds(local[first], y)
  BY <1>5
<1> QED
  BY <1>1, <1>3, <1>4, <1>5, <1>6, TakeInv

LEMMA StartMergeInv == ASSUME BufferInv, StartMerge PROVE BufferInv'
<1>1. TypeOK /\ MergeInOrder /\ HeldOnce /\ TaskedOnce
  BY DEF BufferInv
<1>2. PICK t \in Threads :
          /\ local[t] # Null \/ \A u \in Threads : local[u] = Null
          /\ first' = t
          /\ local' = [local EXCEPT ![t] = IF @ = Null THEN newBuffer ELSE @]
  BY DEF StartMerge
<1>3. phase = "fill" /\ phase' = "merge" /\ UNCHANGED <<todo, tasks, visits, result>>
  BY DEF StartMerge
<1> DEFINE d == IF local[t] = Null THEN newBuffer ELSE local[t]
<1>4. BufferOK(d) /\ LastOpen(d) /\ d # Null
  <2>1. BufferOK(d) /\ LastOpen(d)
    BY <1>1, <1>3, NewBufferOK DEF TypeOK, MergeInOrder
  <2> HIDE DEF d
  <2> QED
    BY <2>1, NullAssumption DEF BufferOK
<1>5. \A y : Holds(d, y) <=> Holds(local[t], y)
  <2>1. CASE local[t] = Null
    BY <2>1, NewBufferOK DEF Holds
  <2>2. CASE local[t] # Null
    BY <2>2
  <2> QED
    BY <2>1, <2>2
<1>6. local' = [u \in Threads |-> IF u = t THEN d ELSE local[u]]
  BY <1>1, <1>2 DEF TypeOK
<1> HIDE DEF d
<1>7. local'[t] = d /\ \A u \in Threads : u # t => local'[u] = local[u]
  BY <1>6
<1>8. \A u \in Threads : \A y : Holds(local'[u], y) <=> Holds(local[u], y)
  BY <1>5, <1>7
<1>9. TypeOK'
  BY <1>1, <1>3, <1>4, <1>6, <1>7 DEF TypeOK
<1>10. result = Null
  BY <1>1, <1>3 DEF MergeInOrder
<1>11. MergeInOrder'
  BY <1>2, <1>3, <1>4, <1>7, <1>10 DEF MergeInOrder
<1>12. HeldOnce'
  BY <1>1, <1>3, <1>8 DEF HeldOnce
<1>13. TaskedOnce'
  BY <1>1, <1>3 DEF TaskedOnce
<1>14. ResultComplete'
  BY <1>3, <1>10 DEF ResultComplete
<1> QED
  BY <1>9, <1>11, <1>12, <1>13, <1>14 DEF BufferInv

LEMMA MergeNextInv == ASSUME BufferInv, MergeNext PROVE BufferInv'
<1>1. TypeOK /\ MergeInOrder /\ HeldOnce /\ TaskedOnce
  BY DEF BufferInv
<1>2. phase = "merge" /\ UNCHANGED <<todo, phase, first, tasks, visits, result>>
  BY DEF MergeNext
<1>3. PICK t \in Threads \ {first} :
          /\ local[t] # Null /\ local[t] # moved
          /\ local' = [local EXCEPT ![first] = merge(@, local[t]), ![t] = moved]
  BY DEF MergeNext
<1> DEFINE a == local[first]
           b == local[t]
           d == merge(a, b)
<1>4. first \in Threads /\ a # Null /\ LastOpen(a) /\ t \in Threads /\ t # first
  BY <1>1, <1>2, <1>3 DEF MergeInOrder
<1>5. BufferOK(a) /\ BufferOK(b)
  BY <1>1, <1>3, <1>4 DEF TypeOK
<1>6. \A x : ~(Has(contents(a), x) /\ Has(contents(b), x))
  <2>1. \A x : Has(contents(a), x) => x \in Elements
    BY <1>5, OnlyHas DEF BufferOK
  <2>2. \A x \in Elements : ~(Holds(a, x) /\ Holds(b, x))
    BY <1>1, <1>4 DEF HeldOnce
  <2> QED
    BY <1>3, <1>4, <2>1, <2>2 DEF Holds
<1>7. Unites(a, b, d)
  <2>1. d = merge(a, b)
    OBVIOUS
  <2> HIDE DEF a, b, d
  <2> QED
    BY <1>4, <1>5, <1>6, <2>1, MergeUnites
<1>8. local' = [u \in Threads |-> IF u = t THEN moved ELSE IF u = first THEN d ELSE local[u]]
  BY <1>1, <1>3, <1>4 DEF TypeOK
<1> HIDE DEF d
<1>9. local'[first] = d /\ local'[t] = moved /\ \A u \in Threads : u # t /\ u # first => local'[u] = local[u]
  BY <1>4, <1>8
<1>10. BufferOK(d) /\ LastOpen(d) /\ d # Null /\ moved # Null
  <2>1. BufferOK(d) /\ LastOpen(d)
    BY <1>7 DEF Unites
  <2> QED
    BY <2>1, MovedOK, NullAssumption DEF BufferOK
<1>11. \A y : Holds(d, y) <=> Holds(a, y) \/ Holds(b, y)
  BY <1>3, <1>4, <1>7, <1>10 DEF Unites, Holds
<1>12. \A y : ~Holds(moved, y)
  BY MovedOK DEF Holds
<1>13. TypeOK'
  BY <1>1, <1>2, <1>8, <1>9, <1>10, MovedOK DEF TypeOK
<1>14. result = Null
  BY <1>1, <1>2 DEF MergeInOrder
<1>15. MergeInOrder'
  BY <1>2, <1>4, <1>9, <1>10, <1>14 DEF MergeInOrder
<1>16. HeldOnce'
  <2>1. ASSUME NEW y, NEW u \in Threads
        PROVE  Holds(local'[u], y) <=> (u # t /\ Holds(local[u], y)) \/ (u = first /\ Holds(local[t], y))
    BY <1>4, <1>9, <1>11, <1>12
  <2>2. ASSUME NEW y \in Elements PROVE y \notin ToSet(todo') <=> \E u \in Threads : Holds(local'[u], y)
    <3>1. y \notin ToSet(todo) <=> \E u \in Threads : Holds(local[u], y)
      BY <1>1 DEF HeldOnce
    <3>2. (\E u \in Threads : Holds(local[u], y)) <=> \E u \in Threads : Holds(local'[u], y)
      BY <1>4, <2>1
    <3> QED
      BY <1>2, <3>1, <3>2
  <2>3. ASSUME NEW y \in Elements, NEW u \in Threads, NEW w \in Threads, Holds(local'[u], y), Holds(local'[w], y)
        PROVE  u = w
    <3>1. \A t1, u1 \in Threads : Holds(local[t1], y) /\ Holds(local[u1], y) => t1 = u1
      BY <1>1 DEF HeldOnce
    <3> QED
      BY <1>4, <2>1, <2>3, <3>1
  <2> QED
    BY <2>2, <2>3 DEF HeldOnce
<1>17. TaskedOnce'
  BY <1>1, <1>2 DEF TaskedOnce
<1>18. ResultComplete'
  BY <1>2, <1>14 DEF ResultComplete
<1> QED
  BY <1>13, <1>15, <1>16, <1>17, <1>18 DEF BufferInv

LEMMA EndMergeInv == ASSUME BufferInv, EndMerge PROVE BufferInv'
<1>1. TypeOK /\ MergeInOrder /\ HeldOnce /\ TaskedOnce /\ ResultComplete
  BY DEF BufferInv
<1>2. /\ phase = "merge" /\ phase' = "merged" /\ UNCHANGED <<todo, local, first, tasks, visits, result>>
      /\ \A t \in Threads \ {first} : local[t] \in {Null, moved}
  BY DEF EndMerge
<1>3. TypeOK'
  BY <1>1, <1>2 DEF TypeOK
<1>4. MergeInOrder'
  BY <1>1, <1>2 DEF MergeInOrder
<1>5. HeldOnce'
  BY <1>1, <1>2 DEF HeldOnce
<1>6. TaskedOnce'
  BY <1>1, <1>2 DEF TaskedOnce
<1>7. ResultComplete'
  BY <1>1, <1>2 DEF ResultComplete
<1> QED
  BY <1>3, <1>4, <1>5, <1>6, <1>7 DEF BufferInv

(* Once the buffers have been merged, the first one has all that was taken *)
LEMMA InFirst ==
    ASSUME BufferInv, phase \notin {"fill", "merge"}
    PROVE  /\ first \in Threads /\ BufferOK(local[first])
           /\ \A x : Has(contents(local[first]), x) <=> x \in Elements \ ToSet(todo)
<1>1. TypeOK /\ MergeInOrder /\ HeldOnce
  BY DEF BufferInv
<1>2. first \in Threads /\ local[first] # Null /\ \A t \in Threads \ {first} : local[t] \in {Null, moved}
  <2>1. phase # "fill"
    OBVIOUS
  <2> QED
    BY <1>1, <2>1 DEF MergeInOrder
<1>3. BufferOK(local[first])
  BY <1>1, <1>2 DEF TypeOK
<1>4. \A t \in Threads \ {first} : \A x : ~Holds(local[t], x)
  BY <1>2, MovedOK DEF Holds
<1>5. \A x : Has(contents(local[first]), x) => x \in Elements
  BY <1>3, OnlyHas DEF BufferOK
<1>6. \A x \in Elements : x \notin ToSet(todo) <=> Holds(local[first], x)
  BY <1>1, <1>2, <1>4 DEF HeldOnce
<1> QED
  BY <1>2, <1>3, <1>5, <1>6 DEF Holds

(* What sort and asContinuous iterate over *)
LEMMA IteratedAll ==
    ASSUME BufferInv, phase \notin {"fill", "merge"}, NEW v, v = iterate(local[first]), NEW n, n = local[first].totalLen
    PROVE  /\ Distinct(v) /\ \A x : (\E j \in DOMAIN v : v[j] = x) <=> x \in Elements \ ToSet(todo)
           /\ Len(v) = n /\ n = Cardinality(Elements \ ToSet(todo))
<1> DEFINE b == local[first]
           s == contents(b)
           S == Elements \ ToSet(todo)
<1>1. BufferOK(b) /\ \A x : Has(s, x) <=> x \in S
  BY InFirst
<1>2. Spread(s) /\ v = FlattenSeq(s)
  BY <1>1 DEF BufferOK, iterate, contents
<1>3. n = Cardinality({x \in Elements : Has(s, x)})
  BY <1>1 DEF BufferOK
<1> HIDE DEF s
<1>4. Distinct(v) /\ \A y : (\E j \in DOMAIN v : v[j] = y) <=> Has(s, y)
  BY <1>2, FlattenSpread
<1>5. \A y : y \in S <=> \E j \in DOMAIN v : v[j] = y
  BY <1>1, <1>4
<1>6. {x \in Elements : Has(s, x)} = S
  BY <1>1
<1> HIDE DEF S
<1>7. Cardinality(S) = Len(v)
  BY <1>4, <1>5, DistinctSize
<1> QED
  BY <1>3, <1>4, <1>5, <1>6, <1>7 DEF S

(* A result with the elements that were taken *)
LEMMA ResultInv ==
    ASSUME BufferInv, phase \notin {"fill", "merge"}, UNCHANGED <<todo, local, phase, first, tasks, visits>>,
           NEW r, Distinct(r), \A x : (\E j \in DOMAIN r : r[j] = x) <=> x \in Elements \ ToSet(todo),
           Len(r) = Cardinality(Elements \ ToSet(todo)),
           NEW k, k = "sorted" => Ordered(r), result' = [kind |-> k, values |-> r]
    PROVE  BufferInv'
<1>1. TypeOK /\ MergeInOrder /\ HeldOnce /\ TaskedOnce
  BY DEF BufferInv
<1>2. TypeOK'
  BY <1>1 DEF TypeOK
<1>3. MergeInOrder'
  BY <1>1 DEF MergeInOrder
<1>4. HeldOnce'
  BY <1>1 DEF HeldOnce
<1>5. TaskedOnce'
  BY <1>1 DEF TaskedOnce
<1>6. result'.kind = k /\ result'.values = r
  OBVIOUS
<1>7. ToSet(r) = Elements \ ToSet(todo)
  <2>1. \A x : x \in ToSet(r) <=> \E j \in DOMAIN r : r[j] = x
    BY DEF ToSet
  <2> QED
    BY <2>1
<1>8. ResultComplete'
  <2>1. ToSet(result'.values) = Elements \ ToSet(todo')
    BY <1>6, <1>7
  <2>2. Len(result'.values) = Cardinality(Elements \ ToSet(todo'))
    BY <1>6
  <2>3. result'.kind = "sorted" => \A i \in 2 .. Len(result'.values) : result'.values[i - 1] < result'.values[i]
    BY <1>6 DEF Ordered
  <2> QED
    BY <2>1, <2>2, <2>3 DEF ResultComplete
<1> QED
  BY <1>2, <1>3, <1>4, <1>5, <1>8 DEF BufferInv

LEMMA SortInv == ASSUME BufferInv, Sort PROVE BufferInv'
<1> DEFINE v == iterate(local[first])
           n == local[first].totalLen
           s == sorted(v)
           r == copied(s, n)
<1>1. /\ phase = "merged" /\ UNCHANGED <<todo, local, phase, first, tasks, visits>>
      /\ result' = [kind |-> "sorted", values |-> r]
  BY DEF Sort
<1>2. /\ Distinct(v) /\ \A x : (\E j \in DOMAIN v : v[j] = x) <=> x \in Elements \ ToSet(todo)
      /\ Len(v) = n /\ n = Cardinality(Elements \ ToSet(todo))
  <2>1. phase \notin {"fill", "merge"} /\ v = iterate(local[first]) /\ n = local[first].totalLen
    BY <1>1
  <2> HIDE DEF v, n
  <2> QED
    BY <2>1, IteratedAll
<1> HIDE DEF v, n
<1>3. /\ Len(s) = Len(v) /\ Distinct(s) /\ Ordered(s)
      /\ \A y : (\E i \in DOMAIN s : s[i] = y) <=> \E i \in DOMAIN v : v[i] = y
  BY <1>2, SortedSorts
<1> HIDE DEF s
<1>4. r = s
  BY <1>2, <1>3, CopiedAll
<1> HIDE DEF r
<1>5. /\ Distinct(r) /\ Ordered(r) /\ Len(r) = Cardinality(Elements \ ToSet(todo))
      /\ \A x : (\E j \in DOMAIN r : r[j] = x) <=> x \in Elements \ ToSet(todo)
  BY <1>2, <1>3, <1>4
<1> QED
  BY <1>1, <1>5, ResultInv

LEMMA AsContinuousInv == ASSUME BufferInv, AsContinuous PROVE BufferInv'
<1> DEFINE v == iterate(local[first])
           n == local[first].totalLen
           r == copied(v, n)
<1>1. /\ phase = "merged" /\ UNCHANGED <<todo, local, phase, first, tasks, visits>>
      /\ result' = [kind |-> "continuous", values |-> r]
  BY DEF AsContinuous
<1>2. /\ Distinct(v) /\ \A x : (\E j \in DOMAIN v : v[j] = x) <=> x \in Elements \ ToSet(todo)
      /\ Len(v) = n /\ n = Cardinality(Elements \ ToSet(todo))
  <2>1. phase \notin {"fill", "merge"} /\ v = iterate(local[first]) /\ n = local[first].totalLen
    BY <1>1
  <2> HIDE DEF v, n
  <2> QED
    BY <2>1, IteratedAll
<1> HIDE DEF v, n
<1>3. r = v
  BY <1>2, CopiedAll
<1> HIDE DEF r
<1>4. /\ Distinct(r) /\ Len(r) = Cardinality(Elements \ ToSet(todo))
      /\ \A x : (\E j \in DOMAIN r : r[j] = x) <=> x \in Elements \ ToSet(todo)
  BY <1>2, <1>3
<1>5. "continuous" = "sorted" => Ordered(r)
  OBVIOUS
<1> QED
  BY <1>1, <1>4, <1>5, ResultInv

(* Steps of the iteration only touch the tasks and the visits *)
LEMMA IterateInv ==
    ASSUME BufferInv, phase \notin {"fill", "merge"}, phase' \in {"iterate", "done"}, UNCHANGED <<todo, local, first, result>>,
           visits' \in [Elements -> Nat], Spread(tasks'), \A x : Has(tasks', x) => x \in Elements \ ToSet(todo),
           \A x \in Elements : visits'[x] = IF x \in ToSet(todo) \/ Has(tasks', x) THEN 0 ELSE 1,
           phase' # "iterate" => tasks' = <<>>
    PROVE  BufferInv'
<1>1. TypeOK /\ MergeInOrder /\ HeldOnce /\ ResultComplete
  BY DEF BufferInv
<1>2. phase # "fill" /\ phase' # "fill" /\ phase' \notin {"fill", "merge", "merged"}
  OBVIOUS
<1>3. TypeOK'
  BY <1>1 DEF TypeOK
<1>4. MergeInOrder'
  BY <1>1, <1>2 DEF MergeInOrder
<1>5. HeldOnce'
  BY <1>1 DEF HeldOnce
<1>6. HasOnly(tasks', Elements \ ToSet(todo'))
  BY OnlyHas
<1>7. TaskedOnce'
  BY <1>2, <1>6 DEF TaskedOnce
<1>8. ResultComplete'
  BY <1>1 DEF ResultComplete
<1> QED
  BY <1>3, <1>4, <1>5, <1>7, <1>8 DEF BufferInv

LEMMA StartIterateInv == ASSUME BufferInv, StartIterate PROVE BufferInv'
<1>1. /\ phase = "merged" /\ phase' = "iterate" /\ UNCHANGED <<todo, local, first, visits, result>>
      /\ tasks' = contents(local[first])
  BY DEF StartIterate, contents
<1>2. BufferOK(local[first]) /\ \A x : Has(contents(local[first]), x) <=> x \in Elements \ ToSet(todo)
  BY <1>1, InFirst
<1>3. Spread(tasks') /\ \A x : Has(tasks', x) <=> x \in Elements \ ToSet(todo)
  BY <1>1, <1>2 DEF BufferOK
<1>4. visits' \in [Elements -> Nat] /\ \A x \in Elements : visits'[x] = 0
  BY <1>1 DEF BufferInv, TypeOK, TaskedOnce
<1>5. \A x \in Elements : visits'[x] = IF x \in ToSet(todo) \/ Has(tasks', x) THEN 0 ELSE 1
  BY <1>3, <1>4
<1> QED
  BY <1>1, <1>3, <1>4, <1>5, IterateInv

(* How often an element is in a task *)
LEMMA TaskCounts ==
    ASSUME NEW v, Distinct(v), NEW x
    PROVE  Cardinality({j \in DOMAIN v : v[j] = x}) = IF \E j \in DOMAIN v : v[j] = x THEN 1 ELSE 0
<1>1. CASE \E j \in DOMAIN v : v[j] = x
  <2>1. PICK j \in DOMAIN v : v[j] = x
    BY <1>1
  <2>2. {i \in DOMAIN v : v[i] = x} = {j}
    BY <2>1 DEF Distinct
  <2>3. Cardinality({j}) = 1
    BY FS_Singleton
  <2> QED
    BY <1>1, <2>2, <2>3
<1>2. CASE ~\E j \in DOMAIN v : v[j] = x
  <2>1. {i \in DOMAIN v : v[i] = x} = {}
    BY <1>2
  <2> QED
    BY <1>2, <2>1, FS_EmptySet
<1> QED
  BY <1>1, <1>2

LEMMA TaskDistinct ==
    ASSUME NEW s, Spread(s), NEW i \in DOMAIN s
    PROVE  Distinct(s[i]) /\ \A y : (\E j \in DOMAIN s[i] : s[i][j] = y) => Has(s, y)
<1>1. s[i] \in Seq(Nat)
  BY BlockSeq DEF Spread
<1>2. \A j, l \in DOMAIN s[i] : s[i][j] = s[i][l] => j = l
  BY DEF Spread
<1> QED
  BY <1>1, <1>2 DEF Distinct, Has

LEMMA RunChunkInv == ASSUME BufferInv, RunChunk PROVE BufferInv'
<1>1. phase = "iterate" /\ UNCHANGED <<todo, local, phase, first, result>>
  BY DEF RunChunk
<1>2. PICK i \in DOMAIN tasks :
          /\ visits' = [x \in Elements |-> visits[x] + Cardinality({j \in DOMAIN tasks[i] : tasks[i][j] = x})]
          /\ tasks' = RemoveAt(tasks, i)
  BY DEF RunChunk
<1>3. /\ Spread(tasks) /\ visits \in [Elements -> Nat] /\ \A x : Has(tasks, x) => x \in Elements \ ToSet(todo)
      /\ \A x \in Elements : visits[x] = IF x \in ToSet(todo) \/ Has(tasks, x) THEN 0 ELSE 1
  BY <1>1, OnlyHas DEF BufferInv, TypeOK, TaskedOnce
<1> DEFINE v == tasks[i]
           In(x) == \E j \in DOMAIN v : v[j] = x
<1>4. Distinct(v) /\ \A y : In(y) => Has(tasks, y)
  BY <1>3, TaskDistinct
<1>5. Spread(tasks') /\ \A y : Has(tasks', y) <=> Has(tasks, y) /\ ~In(y)
  BY <1>2, <1>3, SpreadRemove
<1>6. \A x \in Elements : visits'[x] = visits[x] + (IF In(x) THEN 1 ELSE 0)
  <2>1. \A x \in Elements : visits'[x] = visits[x] + Cardinality({j \in DOMAIN v : v[j] = x})
    BY <1>2
  <2> HIDE DEF v
  <2>2. \A x : Cardinality({j \in DOMAIN v : v[j] = x}) = IF In(x) THEN 1 ELSE 0
    BY <1>4, TaskCounts
  <2> QED
    BY <2>1, <2>2
<1> HIDE DEF v, In
<1>7. \A x \in Elements : visits'[x] = IF x \in ToSet(todo) \/ Has(tasks', x) THEN 0 ELSE 1
  <2> SUFFICES ASSUME NEW x \in Elements PROVE visits'[x] = IF x \in ToSet(todo) \/ Has(tasks', x) THEN 0 ELSE 1
    OBVIOUS
  <2>1. CASE In(x)
    <3>1. Has(tasks, x) /\ x \notin ToSet(todo) /\ ~Has(tasks', x)
      BY <1>3, <1>4, <1>5, <2>1
    <3>2. visits[x] = 0 /\ visits'[x] = visits[x] + 1
      BY <1>3, <1>6, <2>1, <3>1
    <3> QED
      BY <3>1, <3>2
  <2>2. CASE ~In(x)
    <3>1. Has(tasks', x) <=> Has(tasks, x)
      BY <1>5, <2>2
    <3>2. visits'[x] = visits[x] + 0 /\ visits[x] \in Nat
      BY <1>3, <1>6, <2>2
    <3>3. visits'[x] = visits[x]
      BY <3>2
    <3> QED
      BY <1>3, <3>1, <3>3
  <2> QED
    BY <2>1, <2>2
<1>8. visits' \in [Elements -> Nat]
  <2>1. visits' = [x \in Elements |-> visits'[x]]
    BY <1>2
  <2>2. \A x \in Elements : visits'[x] \in Nat
    BY <1>7
  <2> QED
    BY <2>1, <2>2
<1>9. \A x : Has(tasks', x) => x \in Elements \ ToSet(todo)
  BY <1>3, <1>5
<1> QED
  BY <1>1, <1>5, <1>7, <1>8, <1>9, IterateInv

LEMMA SplitChunkInv == ASSUME BufferInv, SplitChunk PROVE BufferInv'
<1>1. phase = "iterate" /\ UNCHANGED <<todo, local, phase, first, visits, result>>
  BY DEF SplitChunk
<1>2. PICK i \in DOMAIN tasks : tasks' = RemoveAt(tasks, i) \o chunks(tasks[i])
  BY DEF SplitChunk
<1>3. /\ Spread(tasks) /\ visits \in [Elements -> Nat] /\ \A x : Has(tasks, x) => x \in Elements \ ToSet(todo)
      /\ \A x \in Elements : visits[x] = IF x \in ToSet(todo) \/ Has(tasks, x) THEN 0 ELSE 1
  BY <1>1, OnlyHas DEF BufferInv, TypeOK, TaskedOnce
<1> DEFINE v == tasks[i]
           s == RemoveAt(tasks, i)
           c == chunks(v)
<1>4. Distinct(v) /\ \A y : (\E j \in DOMAIN v : v[j] = y) => Has(tasks, y)
  BY <1>3, TaskDistinct
<1>5. Spread(s) /\ \A y : Has(s, y) <=> Has(tasks, y) /\ \A j \in DOMAIN v : v[j] # y
  BY <1>3, SpreadRemove
<1> HIDE DEF v, s
<1>6. Spread(c) /\ \A y : Has(c, y) <=> \E j \in DOMAIN v : v[j] = y
  BY <1>4, ChunksSpread
<1>7. tasks' = s \o c
  BY <1>2 DEF s, v
<1> HIDE DEF c
<1>8. \A y : ~(Has(s, y) /\ Has(c, y))
  BY <1>5, <1>6
<1>9. Spread(tasks') /\ \A y : Has(tasks', y) <=> Has(s, y) \/ Has(c, y)
  BY <1>5, <1>6, <1>7, <1>8, SpreadConcat
<1>10. \A y : Has(tasks', y) <=> Has(tasks, y)
  BY <1>4, <1>5, <1>6, <1>9
<1>11. visits' \in [Elements -> Nat] /\ \A x : Has(tasks', x) => x \in Elements \ ToSet(todo)
  BY <1>1, <1>3, <1>10
<1>12. \A x \in Elements : visits'[x] = IF x \in ToSet(todo) \/ Has(tasks', x) THEN 0 ELSE 1
  BY <1>1, <1>3, <1>10
<1> QED
  BY <1>1, <1>9, <1>11, <1>12, IterateInv

LEMMA EndIterateInv == ASSUME BufferInv, EndIterate PROVE BufferInv'
<1>1. phase = "iterate" /\ phase' = "done" /\ tasks = <<>> /\ UNCHANGED <<todo, local, first, tasks, visits, result>>
  BY DEF EndIterate
<1>2. /\ Spread(tasks') /\ visits' \in [Elements -> Nat] /\ \A x : Has(tasks', x) => x \in Elements \ ToSet(todo)
      /\ \A x \in Elements : visits'[x] = IF x \in ToSet(todo) \/ Has(tasks', x) THEN 0 ELSE 1
  BY <1>1, OnlyHas DEF BufferInv, TypeOK, TaskedOnce
<1> QED
  BY <1>1, <1>2, IterateInv

LEMMA InitInv == ASSUME Init PROVE BufferInv
<1>1. /\ todo = Source /\ local = [t \in Threads |-> Null] /\ phase = "fill" /\ tasks = <<>>
      /\ visits = [x \in Elements |-> 0] /\ result = Null
  BY DEF Init
<1>2. TypeOK
  BY <1>1, ElementsFinite DEF TypeOK, Elements
<1>3. MergeInOrder
  BY <1>1 DEF MergeInOrder
<1>4. HeldOnce
  BY <1>1 DEF HeldOnce, Holds, Elements
<1>5. TaskedOnce
  BY <1>1, NoTasks DEF TaskedOnce
<1>6. ResultComplete
  BY <1>1 DEF ResultComplete
<1> QED
  BY <1>2, <1>3, <1>4, <1>5, <1>6 DEF BufferInv

LEMMA StutterInv == ASSUME BufferInv, UNCHANGED vars PROVE BufferInv'
<1>1. TypeOK'
  BY DEF BufferInv, TypeOK, vars
<1>2. MergeInOrder'
  BY DEF BufferInv, MergeInOrder, vars
<1>3. HeldOnce'
  BY DEF BufferInv, HeldOnce, vars
<1>4. TaskedOnce'
  BY DEF BufferInv, TaskedOnce, vars
<1>5. ResultComplete'
  BY DEF BufferInv, ResultComplete, vars
<1> QED
  BY <1>1, <1>2, <1>3, <1>4, <1>5 DEF BufferInv

(* Every reachable state of the buffers satisfies the invariant: each tuple   *)
(* taken from the source is in one place of one buffer, the last block of a   *)
(* buffer that insert may be called on has the room that currCapacity says,   *)
(* and a tuple is in one outstanding chunk or has been visited once.          *)
THEOREM BufferInvariant == FairSpec => []BufferInv
<1>1. Init => BufferInv
  BY InitInv
<1>2. BufferInv /\ [Next]_vars => BufferInv'
  <2> SUFFICES ASSUME BufferInv, [Next]_vars PROVE BufferInv'
    OBVIOUS
  <2>1. ASSUME NEW t \in Threads, Materialize(t) PROVE BufferInv'
    BY <2>1, MaterializeInv
  <2>2. CASE StartMerge
    BY <2>2, StartMergeInv
  <2>3. CASE MergeNext
    BY <2>3, MergeNextInv
  <2>4. CASE EndMerge
    BY <2>4, EndMergeInv
  <2>5. CASE MaterializeMerged
    BY <2>5, MaterializeMergedInv
  <2>6. CASE Sort
    BY <2>6, SortInv
  <2>7. CASE AsContinuous
    BY <2>7, AsContinuousInv
  <2>8. CASE StartIterate
    BY <2>8, StartIterateInv
  <2>9. CASE RunChunk
    BY <2>9, RunChunkInv
  <2>10. CASE SplitChunk
    BY <2>10, SplitChunkInv
  <2>11. CASE EndIterate
    BY <2>11, EndIterateInv
  <2>12. CASE UNCHANGED vars
    BY <2>12, StutterInv
  <2> QED
    BY <2>1, <2>2, <2>3, <2>4, <2>5, <2>6, <2>7, <2>8, <2>9, <2>10, <2>11, <2>12 DEF Next
<1> QED
  BY <1>1, <1>2, PTL DEF FairSpec

(* No insert ever writes beyond the end of a block's malloc, for any number   *)
(* of threads, tuples and any initial capacity: merge puts the other buffers' *)
(* blocks in front, so that currCapacity stays the room of the last block.    *)
THEOREM InsertsStayInRoom == FairSpec => []InsertInRoom
<1>1. BufferInv => InsertInRoom
  BY DEF BufferInv, TypeOK, BufferOK, InsertInRoom, Buffers
<1> QED
  BY <1>1, BufferInvariant, PTL

(* What sort and asContinuous return has every tuple that was materialised    *)
(* exactly once and nothing else (totalLen agrees with what the iteration     *)
(* over the blocks yields), in order after sort.                              *)
THEOREM ResultsAreComplete == FairSpec => []ResultComplete
<1>1. BufferInv => ResultComplete
  BY DEF BufferInv
<1> QED
  BY <1>1, BufferInvariant, PTL

(* The parallel iteration has shown its function every tuple exactly once     *)
(* when it ends, whatever ChunkSize blocks are split into.                    *)
THEOREM ElementsVisitedOnce == FairSpec => []VisitedOnce
<1>1. BufferInv => VisitedOnce
  <2> SUFFICES ASSUME BufferInv, phase = "done", NEW x \in Elements
               PROVE  visits[x] = IF x \in ToSet(todo) THEN 0 ELSE 1
    BY DEF VisitedOnce
  <2>1. visits[x] = (IF x \in ToSet(todo) \/ Has(tasks, x) THEN 0 ELSE 1) /\ tasks = <<>>
    BY DEF BufferInv, TaskedOnce
  <2>2. ~Has(tasks, x)
    BY <2>1 DEF Has
  <2> QED
    BY <2>1, <2>2
<1> QED
  BY <1>1, BufferInvariant, PTL
=============================================================================
