----------------------- MODULE HashAggregationProofs ------------------------
(***************************************************************************)
(* For any rows, keys, hash values, tags, workers and partitions: both     *)
(* hash tables of aggregations implement the group-by of their rows, and   *)
(* find every group again.                                                 *)
(***************************************************************************)
EXTENDS HashAggregation, SequenceTheorems, FiniteSetTheorems, WellFoundedInduction, TLAPS

(* Induction over the naturals, in the form of a least counterexample *)
LEMMA LeastNat == ASSUME NEW S, S \subseteq Nat, S # {} PROVE \E n \in S : \A m \in S : n <= m
<1> DEFINE R == {ss \in Nat \X Nat : ss[1] < ss[2]}
<1>0. OpToRel(<, Nat) = R
  BY DEF OpToRel
<1>1. IsWellFoundedOn(R, Nat)
  BY <1>0, NatLessThanWellFounded
<1>2. IsWellFoundedOn(R, S)
  BY <1>1, IsWellFoundedOnSubset
<1>3. \A a, b \in Nat : <<a, b>> \in R <=> a < b
  OBVIOUS
<1> HIDE DEF R
<1>4. PICK n \in S : \A m \in S : ~(<<m, n>> \in R)
  BY <1>2, WFMin
<1>5. \A m \in S : ~(m < n)
  BY <1>3, <1>4
<1> QED
  BY <1>5

-----------------------------------------------------------------------------
(* The chain walk, with the comparison of keys that decides it *)
Walk(next, k) ==
    CHOOSE h : h = [e \in Rows \cup {Null} |-> IF e = Null \/ KeyOf[e] = k THEN e ELSE h[next[e]]]

LEMMA FindWalks ==
    ASSUME NEW next, NEW p, NEW k \in Keys
    PROVE  /\ find(next, p, k) = Walk(next, k)[p]
           /\ P!find(next, p, k) = Walk(next, k)[p]
<1>1. \A e \in Rows : matches(e, k) <=> KeyOf[e] = k
  BY DEF matches, hashValue
<1>2. \A e \in Rows : P!matches(e, k) <=> KeyOf[e] = k
  BY DEF P!matches, P!hashValue
<1>3. find(next, p, k) = Walk(next, k)[p]
  <2>1. ASSUME NEW h
        PROVE  [e \in Rows \cup {Null} |-> IF e = Null \/ matches(e, k) THEN e ELSE h[next[e]]]
                 = [e \in Rows \cup {Null} |-> IF e = Null \/ KeyOf[e] = k THEN e ELSE h[next[e]]]
    BY <1>1
  <2> QED
    BY <2>1 DEF find, Walk
<1>4. P!find(next, p, k) = Walk(next, k)[p]
  <2>1. ASSUME NEW h
        PROVE  [e \in Rows \cup {Null} |-> IF e = Null \/ P!matches(e, k) THEN e ELSE h[next[e]]]
                 = [e \in Rows \cup {Null} |-> IF e = Null \/ KeyOf[e] = k THEN e ELSE h[next[e]]]
    BY <1>2
  <2> QED
    BY <2>1 DEF P!find, Walk
<1> QED
  BY <1>3, <1>4

(* The chains of a table, and where a walk over them ends *)
Chains(next, v, at) ==
    /\ next \in [Rows -> Rows \cup {Null}] /\ v \in Seq(Rows) /\ OneEach(v)
    /\ \A i \in DOMAIN v : Latest(next[v[i]], v, i - 1, at, at[v[i]])
    /\ \A e \in Rows : (\A i \in DOMAIN v : v[i] # e) => next[e] = Null

Hits(v, at, k, e) ==
    {x \in Rows : /\ KeyOf[x] = k
                  /\ x = e \/ \E i \in DOMAIN v : \E j \in 1 .. i : v[i] = e /\ v[j] = x /\ at[x] = at[e]}
Hit(v, at, k, e) == IF Hits(v, at, k, e) = {} THEN Null ELSE CHOOSE x \in Hits(v, at, k, e) : TRUE

LEMMA HitOnce ==
    ASSUME NEW next, NEW v, NEW at, Chains(next, v, at), NEW k, NEW e,
           NEW x \in Hits(v, at, k, e)
    PROVE  Hit(v, at, k, e) = x
<1>1. v \in Seq(Rows) /\ OneEach(v) /\ \A i \in DOMAIN v : \A j \in 1 .. i : j \in DOMAIN v
  BY DEF Chains
<1>2. ASSUME NEW y \in Hits(v, at, k, e) PROVE y = x
  <2>1. CASE \E i \in DOMAIN v : v[i] = e
    <3>1. PICK i \in DOMAIN v : v[i] = e
      BY <2>1
    <3>2. PICK a \in DOMAIN v : v[a] = x
      BY <1>1, <3>1 DEF Hits
    <3>3. PICK b \in DOMAIN v : v[b] = y
      BY <1>1, <1>2, <3>1 DEF Hits
    <3> QED
      BY <1>1, <1>2, <3>2, <3>3 DEF Hits, OneEach
  <2>2. CASE ~\E i \in DOMAIN v : v[i] = e
    BY <1>2, <2>2 DEF Hits
  <2> QED
    BY <2>1, <2>2
<1> QED
  BY <1>2 DEF Hit

LEMMA HitStep ==
    ASSUME NEW next, NEW v, NEW at, Chains(next, v, at), NEW k, NEW e \in Rows
    PROVE  Hit(v, at, k, e) = IF KeyOf[e] = k THEN e
                              ELSE IF next[e] = Null THEN Null ELSE Hit(v, at, k, next[e])
<1>0. Null \notin Rows
  BY ChainedTableAssumption
<1>1. CASE KeyOf[e] = k
  <2>1. e \in Hits(v, at, k, e)
    BY <1>1 DEF Hits
  <2> QED
    BY <1>1, <2>1, HitOnce
<1>2. CASE KeyOf[e] # k
  <2>1. CASE \A i \in DOMAIN v : v[i] # e
    <3>1. next[e] = Null
      BY <2>1 DEF Chains
    <3>2. Hits(v, at, k, e) = {}
      BY <1>2, <2>1 DEF Hits
    <3> QED
      BY <1>2, <3>1, <3>2 DEF Hit
  <2>2. ASSUME NEW i \in DOMAIN v, v[i] = e
        PROVE  Hit(v, at, k, e) = IF next[e] = Null THEN Null ELSE Hit(v, at, k, next[e])
    <3>0. /\ v \in Seq(Rows) /\ DOMAIN v = 1 .. Len(v) /\ i \in 1 .. Len(v) /\ Len(v) \in Nat
          /\ \A a, b \in DOMAIN v : v[a] = v[b] => a = b
      BY LenProperties DEF Chains, OneEach
    <3>1. Latest(next[e], v, i - 1, at, at[e])
      BY <2>2 DEF Chains
    <3>2. \A x : x \in Hits(v, at, k, e) <=>
             KeyOf[x] = k /\ \E j \in 1 .. i - 1 : v[j] = x /\ at[x] = at[e]
      BY <1>2, <2>2, <3>0 DEF Hits
    <3>3. CASE next[e] = Null
      <4>1. \A j \in 1 .. i - 1 : at[v[j]] # at[e]
        BY <1>0, <3>0, <3>1, <3>3 DEF Latest
      <4>2. Hits(v, at, k, e) = {}
        BY <3>2, <4>1
      <4> QED
        BY <3>3, <4>2 DEF Hit
    <3>4. CASE next[e] # Null
      <4>1. PICK l \in 1 .. i - 1 : next[e] = v[l] /\ at[v[l]] = at[e] /\ \A j \in l + 1 .. i - 1 : at[v[j]] # at[e]
        BY <3>1, <3>4 DEF Latest
      <4>2. l \in DOMAIN v /\ v[l] \in Rows
        BY <3>0, <4>1
      <4>3. \A x : x \in Hits(v, at, k, v[l]) <=>
               KeyOf[x] = k /\ \E j \in 1 .. l : v[j] = x /\ at[x] = at[e]
        BY <3>0, <4>1, <4>2 DEF Hits
      <4>4. \A x : x \in Hits(v, at, k, e) <=> x \in Hits(v, at, k, v[l])
        BY <3>0, <3>2, <4>1, <4>2, <4>3
      <4>5. Hits(v, at, k, e) = Hits(v, at, k, v[l])
        BY <4>4
      <4> QED
        BY <3>4, <4>1, <4>5 DEF Hit
    <3> QED
      BY <3>3, <3>4
  <2> QED
    BY <1>2, <2>1, <2>2
<1> QED
  BY <1>1, <1>2

LEMMA WalkHits ==
    ASSUME NEW next, NEW v, NEW at, Chains(next, v, at), NEW k
    PROVE  /\ Walk(next, k)[Null] = Null
           /\ \A i \in DOMAIN v : Walk(next, k)[v[i]] = Hit(v, at, k, v[i])
<1>0. Null \notin Rows /\ next \in [Rows -> Rows \cup {Null}] /\ v \in Seq(Rows)
  BY ChainedTableAssumption DEF Chains
<1> DEFINE g == [e \in Rows \cup {Null} |-> IF e = Null THEN Null ELSE Hit(v, at, k, e)]
           Body(h) == [e \in Rows \cup {Null} |-> IF e = Null \/ KeyOf[e] = k THEN e ELSE h[next[e]]]
<1>1. g = Body(g)
  <2>1. ASSUME NEW e \in Rows \cup {Null} PROVE g[e] = Body(g)[e]
    <3>1. CASE e = Null
      BY <3>1
    <3>2. CASE e \in Rows
      <4>1. g[e] = Hit(v, at, k, e)
        BY <1>0, <3>2
      <4>2. next[e] \in Rows \cup {Null}
        BY <1>0, <3>2
      <4>3. g[next[e]] = IF next[e] = Null THEN Null ELSE Hit(v, at, k, next[e])
        BY <4>2
      <4> QED
        BY <1>0, <3>2, <4>1, <4>2, <4>3, HitStep
    <3> QED
      BY <3>1, <3>2
  <2> HIDE DEF g
  <2>2. g = [e \in Rows \cup {Null} |-> g[e]]
    BY DEF g
  <2> QED
    BY <2>1, <2>2
<1> DEFINE w == Walk(next, k)
<1>2. w = Body(w)
  <2>1. Walk(next, k) = CHOOSE h : h = Body(h)
    BY DEF Walk
  <2> HIDE DEF g, Body
  <2>2. (CHOOSE h : h = Body(h)) = Body(CHOOSE h : h = Body(h))
    BY <1>1
  <2> QED
    BY <2>1, <2>2
<1> HIDE DEF w
<1>3. w[Null] = Null
  BY <1>2
<1>4. \A e \in Rows : w[e] = IF KeyOf[e] = k THEN e ELSE w[next[e]]
  BY <1>0, <1>2
<1> DEFINE Bad == {i \in DOMAIN v : w[v[i]] # Hit(v, at, k, v[i])}
<1>5. Bad = {}
  <2>1. SUFFICES ASSUME Bad # {} PROVE FALSE
    OBVIOUS
  <2>2. Bad \subseteq Nat /\ DOMAIN v = 1 .. Len(v) /\ Len(v) \in Nat
    BY <1>0
  <2>3. PICK i \in Bad : \A m \in Bad : i <= m
    BY <2>1, <2>2, LeastNat
  <2>4. i \in DOMAIN v /\ v[i] \in Rows /\ w[v[i]] # Hit(v, at, k, v[i])
    BY <1>0
  <2>5. CASE next[v[i]] = Null
    BY <1>3, <1>4, <2>4, <2>5, HitStep
  <2>6. CASE next[v[i]] # Null
    <3>1. Latest(next[v[i]], v, i - 1, at, at[v[i]])
      BY <2>4 DEF Chains
    <3>2. PICK l \in 1 .. i - 1 : next[v[i]] = v[l]
      BY <2>6, <3>1 DEF Latest
    <3>3. l \in DOMAIN v /\ l < i /\ l \in Nat /\ i \in Nat
      BY <2>2, <2>4, <3>2
    <3>4. w[v[l]] = Hit(v, at, k, v[l])
      BY <2>3, <3>3
    <3> QED
      BY <1>4, <2>4, <2>6, <3>2, <3>4, HitStep
  <2> QED
    BY <2>5, <2>6
<1> QED
  BY <1>3, <1>5 DEF w

(* The result of looking k up among the entries v *)
FoundIn(v, k, x) ==
    \/ x = Null /\ \A i \in DOMAIN v : KeyOf[v[i]] # k
    \/ \E i \in DOMAIN v : x = v[i] /\ KeyOf[v[i]] = k

(* A walk from a slot finds the entry of a key whose entries have that slot *)
LEMMA WalkFinds ==
    ASSUME NEW next, NEW v, NEW at, Chains(next, v, at), NEW k, NEW s, NEW p, Latest(p, v, Len(v), at, s),
           \A i \in DOMAIN v : KeyOf[v[i]] = k => at[v[i]] = s
    PROVE  FoundIn(v, k, Walk(next, k)[p])
<1>0. Null \notin Rows /\ v \in Seq(Rows) /\ DOMAIN v = 1 .. Len(v) /\ Len(v) \in Nat
  BY ChainedTableAssumption DEF Chains
<1>1. CASE p = Null
  <2>1. \A j \in 1 .. Len(v) : at[v[j]] # s
    BY <1>0, <1>1 DEF Latest
  <2> QED
    BY <1>0, <1>1, <2>1, WalkHits DEF FoundIn
<1>2. CASE p # Null
  <2>1. PICK l \in 1 .. Len(v) : p = v[l] /\ at[v[l]] = s /\ \A j \in l + 1 .. Len(v) : at[v[j]] # s
    BY <1>2 DEF Latest
  <2>2. Walk(next, k)[p] = Hit(v, at, k, p) /\ l \in DOMAIN v /\ p \in Rows
    BY <1>0, <2>1, WalkHits
  <2>3. CASE \E j \in DOMAIN v : KeyOf[v[j]] = k
    <3>1. PICK j \in DOMAIN v : KeyOf[v[j]] = k
      BY <2>3
    <3>2. j \in 1 .. l /\ at[v[j]] = at[p]
      BY <1>0, <2>1, <3>1
    <3>3. v[j] \in Hits(v, at, k, p)
      BY <1>0, <2>1, <2>2, <3>1, <3>2 DEF Hits
    <3> QED
      BY <2>2, <3>1, <3>3, HitOnce DEF FoundIn
  <2>4. CASE ~\E j \in DOMAIN v : KeyOf[v[j]] = k
    <3>1. Hits(v, at, k, p) = {}
      BY <1>0, <2>1, <2>2, <2>4 DEF Hits
    <3> QED
      BY <2>2, <2>4, <3>1 DEF Hit, FoundIn
  <2> QED
    BY <2>3, <2>4
<1> QED
  BY <1>1, <1>2

-----------------------------------------------------------------------------
(* Tables: the shape that ChainedTable states, with the tags given as tg *)
LinkedWith(slots, next, v, n, at, tg) ==
    /\ \A s \in DOMAIN slots : Latest(slots[s].ptr, v, n, at, s)
    /\ \A i \in 1 .. n : Latest(next[v[i]], v, i - 1, at, at[v[i]])
    /\ \A i \in 1 .. n : tg[v[i]] \subseteq slots[at[v[i]]].tag

LEMMA LatestNext ==
    ASSUME NEW p, NEW v, NEW n \in Nat, NEW at, NEW s, Latest(p, v, n, at, s), at[v[n + 1]] # s
    PROVE  Latest(p, v, n + 1, at, s)
<1>1. CASE p = Null /\ \A j \in 1 .. n : at[v[j]] # s
  <2>1. \A j \in 1 .. n + 1 : at[v[j]] # s
    BY <1>1
  <2> QED
    BY <1>1, <2>1 DEF Latest
<1>2. CASE \E i \in 1 .. n : p = v[i] /\ at[v[i]] = s /\ \A j \in i + 1 .. n : at[v[j]] # s
  <2>1. PICK i \in 1 .. n : p = v[i] /\ at[v[i]] = s /\ \A j \in i + 1 .. n : at[v[j]] # s
    BY <1>2
  <2>2. i \in 1 .. n + 1 /\ \A j \in i + 1 .. n + 1 : at[v[j]] # s
    BY <2>1
  <2> QED
    BY <2>1, <2>2 DEF Latest
<1> QED
  BY <1>1, <1>2 DEF Latest

(* Latest looks at v[1] to v[n] only *)
LEMMA LatestSame ==
    ASSUME NEW p, NEW v, NEW w, NEW n \in Nat, \A i \in 1 .. n : v[i] = w[i], NEW at, NEW s,
           Latest(p, v, n, at, s)
    PROVE  Latest(p, w, n, at, s)
BY DEF Latest

LEMMA PushLinks ==
    ASSUME NEW slots, NEW next \in [Rows -> Rows \cup {Null}], NEW v, NEW n \in Nat, NEW at, NEW tg,
           \A i \in 1 .. n + 1 : v[i] \in Rows,
           \A i \in 1 .. n : v[i] # v[n + 1],
           LinkedWith(slots, next, v, n, at, tg),
           slots = [s \in DOMAIN slots |-> slots[s]],
           \A i \in 1 .. n + 1 : at[v[i]] \in DOMAIN slots,
           NEW slots2, slots2 = [slots EXCEPT ![at[v[n + 1]]] =
                                    [ptr |-> v[n + 1], tag |-> slots[at[v[n + 1]]].tag \cup tg[v[n + 1]]]],
           NEW next2, next2 = [next EXCEPT ![v[n + 1]] = slots[at[v[n + 1]]].ptr]
    PROVE  LinkedWith(slots2, next2, v, n + 1, at, tg)
<1> DEFINE e == v[n + 1]
           z == at[e]
<1>0. DOMAIN slots2 = DOMAIN slots /\ slots2[z].ptr = e /\ slots2[z].tag = slots[z].tag \cup tg[e]
      /\ (\A s \in DOMAIN slots : s # z => slots2[s] = slots[s])
      /\ next2[e] = slots[z].ptr /\ (\A i \in 1 .. n : next2[v[i]] = next[v[i]])
  OBVIOUS
<1>1. ASSUME NEW s \in DOMAIN slots2 PROVE Latest(slots2[s].ptr, v, n + 1, at, s)
  <2>1. CASE s = z
    <3>1. n + 1 \in 1 .. n + 1 /\ (n + 1) + 1 .. n + 1 = {}
      OBVIOUS
    <3> QED
      BY <1>0, <2>1, <3>1 DEF Latest
  <2>2. CASE s # z
    <3>1. Latest(slots2[s].ptr, v, n, at, s)
      BY <1>0, <1>1, <2>2 DEF LinkedWith
    <3> QED
      BY <2>2, <3>1, LatestNext
  <2> QED
    BY <2>1, <2>2
<1>2. ASSUME NEW i \in 1 .. n + 1 PROVE Latest(next2[v[i]], v, i - 1, at, at[v[i]])
  <2>1. CASE i = n + 1
    <3>1. Latest(slots[z].ptr, v, n, at, z)
      BY DEF LinkedWith
    <3>2. i - 1 = n
      BY <2>1
    <3> QED
      BY <1>0, <2>1, <3>1, <3>2
  <2>2. CASE i \in 1 .. n
    BY <1>0, <2>2 DEF LinkedWith
  <2> QED
    BY <2>1, <2>2
<1>3. ASSUME NEW i \in 1 .. n + 1 PROVE tg[v[i]] \subseteq slots2[at[v[i]]].tag
  <2>1. CASE i = n + 1
    BY <1>0, <2>1
  <2>2. CASE i \in 1 .. n
    <3>1. tg[v[i]] \subseteq slots[at[v[i]]].tag
      BY <2>2 DEF LinkedWith
    <3>2. CASE at[v[i]] = z
      BY <1>0, <3>1, <3>2
    <3>3. CASE at[v[i]] # z
      <4>1. at[v[i]] \in DOMAIN slots
        BY <2>2
      <4> QED
        BY <1>0, <3>1, <3>3, <4>1
    <3> QED
      BY <3>2, <3>3
  <2> QED
    BY <2>1, <2>2
<1> QED
  BY <1>1, <1>2, <1>3 DEF LinkedWith

LEMMA IntervalSize == ASSUME NEW n \in Nat PROVE Cardinality(0 .. n - 1) = n
BY FS_Interval

LEMMA Remainder == ASSUME NEW h \in Nat, NEW m \in Nat \ {0} PROVE h % m \in 0 .. m - 1
OBVIOUS

(* A table of m slots in which v[1], ..., v[n] have been pushed *)
Shape(slots, next, v, n, m, at, tg) ==
    /\ slots = [s \in 0 .. m - 1 |-> slots[s]]
    /\ next \in [Rows -> Rows \cup {Null}]
    /\ LinkedWith(slots, next, v, n, at, tg)

LEMMA PushShape ==
    ASSUME NEW slots, NEW next, NEW v, NEW n \in Nat, NEW m \in Nat, NEW at \in [Rows -> 0 .. m - 1], NEW tg,
           Shape(slots, next, v, n, m, at, tg),
           \A i \in 1 .. n + 1 : v[i] \in Rows,
           \A i \in 1 .. n : v[i] # v[n + 1],
           NEW slots2, slots2 = [slots EXCEPT ![at[v[n + 1]]] =
                                    [ptr |-> v[n + 1], tag |-> slots[at[v[n + 1]]].tag \cup tg[v[n + 1]]]],
           NEW next2, next2 = [next EXCEPT ![v[n + 1]] = slots[at[v[n + 1]]].ptr]
    PROVE  Shape(slots2, next2, v, n + 1, m, at, tg)
<1> DEFINE e == v[n + 1]
           z == at[e]
<1>0. /\ slots = [s \in 0 .. m - 1 |-> slots[s]] /\ DOMAIN slots = 0 .. m - 1
      /\ next \in [Rows -> Rows \cup {Null}]
      /\ LinkedWith(slots, next, v, n, at, tg)
  BY DEF Shape
<1>1. \A i \in 1 .. n + 1 : at[v[i]] \in DOMAIN slots
  BY <1>0
<1>2. LinkedWith(slots2, next2, v, n + 1, at, tg)
  BY <1>0, <1>1, PushLinks
<1>3. slots2 = [s \in 0 .. m - 1 |-> slots2[s]]
  BY <1>0
<1>4. e \in Rows /\ z \in DOMAIN slots
  BY <1>1
<1>5. slots[z].ptr \in Rows \cup {Null}
  <2>1. Latest(slots[z].ptr, v, n, at, z)
    BY <1>0, <1>4 DEF LinkedWith
  <2> QED
    BY <2>1 DEF Latest
<1>6. next2 \in [Rows -> Rows \cup {Null}]
  BY <1>0, <1>4, <1>5
<1> QED
  BY <1>2, <1>3, <1>6 DEF Shape

LEMMA EmptyShape ==
    ASSUME NEW slots, NEW m \in Nat, slots = [s \in 0 .. m - 1 |-> NullPtr],
           NEW next \in [Rows -> Rows \cup {Null}], NEW v, NEW at, NEW tg
    PROVE  Shape(slots, next, v, 0, m, at, tg)
BY DEF Shape, LinkedWith, Latest, NullPtr

-----------------------------------------------------------------------------
(* Hashtable *)

IsTable(T) == T = [slots |-> T.slots, next |-> T.next, values |-> T.values, agg |-> T.agg]

tags == [e \in Rows |-> TagOf[hashValue(e)]]

Pushed(T, q, e, U) ==
    /\ IsTable(U) /\ U.values = T.values /\ U.agg = T.agg
    /\ U.slots = [T.slots EXCEPT ![q] = [ptr |-> e, tag |-> T.slots[q].tag \cup tags[e]]]
    /\ U.next = [T.next EXCEPT ![e] = T.slots[q].ptr]

LEMMA PushFields ==
    ASSUME NEW T, IsTable(T), NEW m \in Nat, T.slots = [s \in 0 .. m - 1 |-> T.slots[s]],
           T.next \in [Rows -> Rows \cup {Null}], NEW e \in Rows, NEW q \in 0 .. m - 1,
           NEW U, U = push(T, q, e)
    PROVE  Pushed(T, q, e, U)
<1> DEFINE ss == [T.slots EXCEPT ![q] = [ptr |-> e, tag |-> T.slots[q].tag \cup TagOf[hashValue(e)]]]
           nn == [T.next EXCEPT ![e] = T.slots[q].ptr]
<1>1. U = [T EXCEPT !.slots = ss, !.next = nn]
  BY DEF push, tag, untag
<1> HIDE DEF ss, nn
<1>2. U = [slots |-> ss, next |-> nn, values |-> T.values, agg |-> T.agg]
  BY <1>1 DEF IsTable
<1>3. IsTable(U) /\ U.values = T.values /\ U.agg = T.agg /\ U.slots = ss /\ U.next = nn
  BY <1>2 DEF IsTable
<1> QED
  BY <1>3 DEF ss, nn, tags, Pushed

LEMMA SizeIs ==
    ASSUME NEW T, NEW m \in Nat, T.slots = [s \in 0 .. m - 1 |-> T.slots[s]]
    PROVE  size(T) = m /\ \A h : pos(T, h) = h % m
BY IntervalSize DEF size, pos

LEMMA Hashes ==
    /\ \A e \in Rows : KeyOf[e] \in Keys /\ hashValue(e) \in Nat
    /\ \A m \in Nat \ {0} : slotOf(m) \in [Rows -> 0 .. m - 1]
<1>1. \A e \in Rows : KeyOf[e] \in Keys /\ hashValue(e) \in Nat
  BY ChainedTableAssumption DEF hashValue
<1>2. ASSUME NEW m \in Nat \ {0} PROVE slotOf(m) \in [Rows -> 0 .. m - 1]
  BY <1>1, Remainder DEF slotOf
<1> QED
  BY <1>1, <1>2

(* What resize and insert keep of a table whose entries are v *)
Rest(T, v) == \A e \in Rows : (\A i \in DOMAIN v : v[i] # e) => T.next[e] = Null

(* Hashtable::resize keeps the entries and chains them in the new slots *)
LEMMA ResizeChains ==
    ASSUME NEW T, TableOK(T), NEW R, R = resize(T)
    PROVE  /\ IsTable(R) /\ R.values = T.values /\ R.agg = T.agg /\ Rest(R, T.values)
           /\ Shape(R.slots, R.next, T.values, Len(T.values), 2 * size(T), slotOf(2 * size(T)), tags)
<1> DEFINE v == T.values
           N == Len(v)
           m == 2 * size(T)
           at == slotOf(m)
           base == [T EXCEPT !.slots = zeroed(m)]
           Step(U, n) == push(U, pos(U, hashValue(v[n])), v[n])
           Body(f, n) == [i \in 0 .. n |-> IF i = 0 THEN base ELSE Step(f[i - 1], i)]
<1>0. /\ v \in Seq(Rows) /\ N \in Nat /\ m \in Nat \ {0} /\ DOMAIN v = 1 .. N
      /\ IsTable(T) /\ Rest(T, v) /\ T.next \in [Rows -> Rows \cup {Null}]
      /\ at \in [Rows -> 0 .. m - 1] /\ \A e \in Rows : at[e] = hashValue(e) % m
      /\ \A i, j \in 1 .. N : v[i] = v[j] => i = j
  <2>1. T.values \in Seq(Rows) /\ size(T) \in Nat \ {0} /\ OneEach(T.values)
        /\ T.next \in [Rows -> Rows \cup {Null}] /\ IsTable(T) /\ Rest(T, T.values)
    BY DEF TableOK, Chained, IsTable, Rest
  <2>2. N \in Nat /\ m \in Nat \ {0} /\ DOMAIN v = 1 .. N
    BY <2>1
  <2>3. \A i, j \in 1 .. N : v[i] = v[j] => i = j
    BY <2>1, <2>2 DEF OneEach
  <2>4. at \in [Rows -> 0 .. m - 1] /\ \A e \in Rows : at[e] = hashValue(e) % m
    BY <2>2, Hashes DEF slotOf
  <2> QED
    BY <2>1, <2>2, <2>3, <2>4
<1>1. R = (CHOOSE f : f = Body(f, N))[N]
  BY DEF resize
<1> HIDE DEF v, N, m, at, base, Step
<1>2. \A n \in Nat : \E f : f = Body(f, n)
  <2> DEFINE Bad == {n \in Nat : ~\E f : f = Body(f, n)}
  <2>1. SUFFICES ASSUME Bad # {} PROVE FALSE
    OBVIOUS
  <2>2. PICK b \in Bad : \A n \in Bad : b <= n
    BY <2>1, LeastNat
  <2>3. CASE b = 0
    <3> DEFINE g == [i \in 0 .. 0 |-> base]
    <3>1. g = Body(g, 0)
      OBVIOUS
    <3> QED
      BY <2>2, <2>3, <3>1
  <2>4. CASE b # 0
    <3>0. b \in Nat /\ b - 1 \in Nat /\ b - 1 < b
      BY <2>4
    <3>a. b - 1 \notin Bad
      <4> HIDE DEF Bad
      <4> QED
        BY <2>2, <3>0
    <3>b. \E f : f = Body(f, b - 1)
      BY <3>0, <3>a
    <3>1. PICK f : f = Body(f, b - 1)
      BY <3>b
    <3> DEFINE g == [i \in 0 .. b |-> IF i = b THEN Step(f[b - 1], b) ELSE f[i]]
    <3>2. ASSUME NEW i \in 0 .. b PROVE g[i] = IF i = 0 THEN base ELSE Step(g[i - 1], i)
      <4>1. CASE i = b
        <5>1. b - 1 \in 0 .. b /\ b - 1 # b /\ g[b - 1] = f[b - 1]
          BY <3>0
        <5> QED
          BY <2>4, <4>1, <5>1
      <4>2. CASE i # b
        <5>1. i \in 0 .. b - 1 /\ g[i] = f[i]
          BY <3>0, <4>2
        <5>2. f[i] = IF i = 0 THEN base ELSE Step(f[i - 1], i)
          BY <3>1, <5>1
        <5>3. i # 0 => i - 1 \in 0 .. b /\ i - 1 # b /\ g[i - 1] = f[i - 1]
          BY <3>0, <5>1
        <5> QED
          BY <5>1, <5>2, <5>3
      <4> QED
        BY <4>1, <4>2
    <3>3. g = [i \in 0 .. b |-> g[i]]
      OBVIOUS
    <3> HIDE DEF g
    <3>4. g = Body(g, b)
      BY <3>2, <3>3
    <3> QED
      BY <2>2, <3>4
  <2> QED
    BY <2>3, <2>4
<1> DEFINE f == CHOOSE f : f = Body(f, N)
<1>3. f = Body(f, N)
  <2> HIDE DEF Body
  <2> QED
    BY <1>0, <1>2
<1> HIDE DEF f
<1>4. f[0] = base /\ \A i \in 1 .. N : f[i] = Step(f[i - 1], i)
  BY <1>0, <1>3
<1> DEFINE Good(n) ==
             /\ IsTable(f[n]) /\ f[n].values = v /\ f[n].agg = T.agg /\ Rest(f[n], v)
             /\ Shape(f[n].slots, f[n].next, v, n, m, at, tags)
<1>5. Good(0)
  <2>1. base = [slots |-> zeroed(m), next |-> T.next, values |-> v, agg |-> T.agg]
    <3>1. IsTable(T)
      BY <1>0
    <3> DEFINE ss == zeroed(m)
    <3> HIDE DEF ss
    <3>2. [T EXCEPT !.slots = ss] = [slots |-> ss, next |-> T.next, values |-> T.values, agg |-> T.agg]
      BY <3>1 DEF IsTable
    <3> QED
      BY <3>2 DEF base, ss, v
  <2>2. IsTable(base) /\ base.values = v /\ base.agg = T.agg /\ base.next = T.next /\ base.slots = zeroed(m)
    BY <2>1 DEF IsTable
  <2>3. base.slots = [s \in 0 .. m - 1 |-> NullPtr]
    BY <2>2 DEF zeroed
  <2>4. Shape(base.slots, base.next, v, 0, m, at, tags)
    BY <1>0, <2>2, <2>3, EmptyShape
  <2> QED
    BY <1>0, <1>4, <2>2, <2>4 DEF Rest
<1>6. ASSUME NEW n \in Nat, n + 1 \in 1 .. N, Good(n) PROVE Good(n + 1)
  <2> DEFINE U == f[n]
             e == v[n + 1]
             W == f[n + 1]
  <2>0. /\ e \in Rows /\ n \in 0 .. N /\ \A i \in 1 .. n + 1 : v[i] \in Rows /\ i \in 1 .. N
        /\ U.slots = [s \in 0 .. m - 1 |-> U.slots[s]] /\ U.next \in [Rows -> Rows \cup {Null}]
    BY <1>0, <1>6 DEF Shape
  <2>1. pos(U, hashValue(e)) = at[e] /\ at[e] \in 0 .. m - 1
    <3>1. m \in Nat /\ at[e] = hashValue(e) % m /\ at[e] \in 0 .. m - 1
      BY <1>0, <2>0
    <3> HIDE DEF U, e
    <3>2. pos(U, hashValue(e)) = hashValue(e) % m
      BY <2>0, <3>1, SizeIs
    <3> QED
      BY <3>1, <3>2
  <2>2. W = push(U, at[e], e)
    <3>1. (n + 1) - 1 = n
      OBVIOUS
    <3> QED
      BY <1>4, <1>6, <2>1, <3>1 DEF Step
  <2>3. /\ IsTable(W) /\ W.values = U.values /\ W.agg = U.agg
        /\ W.slots = [U.slots EXCEPT ![at[e]] = [ptr |-> e, tag |-> U.slots[at[e]].tag \cup tags[e]]]
        /\ W.next = [U.next EXCEPT ![e] = U.slots[at[e]].ptr]
    <3>1. IsTable(U) /\ m \in Nat
      BY <1>0, <1>6
    <3>2. e \in Rows /\ at[e] \in 0 .. m - 1 /\ U.slots = [s \in 0 .. m - 1 |-> U.slots[s]]
          /\ U.next \in [Rows -> Rows \cup {Null}]
      BY <2>0, <2>1
    <3> HIDE DEF U, W, e
    <3>3. Pushed(U, at[e], e, W)
      BY <2>2, <3>1, <3>2, PushFields
    <3> QED
      BY <3>3 DEF Pushed
  <2>4. \A i \in 1 .. n : v[i] # v[n + 1]
    BY <1>0, <1>6, <2>0
  <2>5. Shape(W.slots, W.next, v, n + 1, m, at, tags)
    <3>1. Shape(U.slots, U.next, v, n, m, at, tags) /\ m \in Nat /\ at \in [Rows -> 0 .. m - 1]
      BY <1>0, <1>6
    <3>2. \A i \in 1 .. n + 1 : v[i] \in Rows
      BY <2>0
    <3>3. /\ W.slots = [U.slots EXCEPT ![at[v[n + 1]]] = [ptr |-> v[n + 1], tag |-> U.slots[at[v[n + 1]]].tag \cup tags[v[n + 1]]]]
          /\ W.next = [U.next EXCEPT ![v[n + 1]] = U.slots[at[v[n + 1]]].ptr]
      BY <2>3
    <3> HIDE DEF U, W, e
    <3> QED
      BY <2>4, <3>1, <3>2, <3>3, PushShape
  <2>6. Rest(W, v)
    BY <1>0, <1>6, <2>0, <2>3 DEF Rest
  <2> QED
    BY <1>6, <2>3, <2>5, <2>6
<1>7. Good(N)
  <2> DEFINE Bad == {n \in 0 .. N : ~Good(n)}
  <2>1. SUFFICES ASSUME Bad # {} PROVE FALSE
    BY <1>0
  <2>2. Bad \subseteq Nat
    BY <1>0
  <2>3. PICK b \in Bad : \A n \in Bad : b <= n
    BY <2>1, <2>2, LeastNat
  <2> HIDE DEF Good
  <2>4. b # 0
    BY <1>5, <2>3
  <2>5. b - 1 \in Nat /\ b - 1 \in 0 .. N /\ (b - 1) + 1 = b /\ b \in 1 .. N /\ ~(b <= b - 1)
    BY <1>0, <2>4
  <2>6. Good(b - 1)
    BY <2>3, <2>5
  <2> QED
    BY <1>6, <2>5, <2>6
<1>8. R = f[N]
  BY <1>1 DEF f
<1> QED
  BY <1>7, <1>8 DEF v, N, m, at

LEMMA ShapeSame ==
    ASSUME NEW slots, NEW next, NEW v, NEW w, NEW n \in Nat, \A i \in 1 .. n : v[i] = w[i],
           NEW m, NEW at, NEW tg, Shape(slots, next, v, n, m, at, tg)
    PROVE  Shape(slots, next, w, n, m, at, tg)
<1>0. LinkedWith(slots, next, v, n, at, tg)
  BY DEF Shape
<1>1. ASSUME NEW s \in DOMAIN slots PROVE Latest(slots[s].ptr, w, n, at, s)
  BY <1>0, LatestSame DEF LinkedWith
<1>2. ASSUME NEW i \in 1 .. n PROVE Latest(next[w[i]], w, i - 1, at, at[w[i]])
  <2>1. Latest(next[v[i]], v, i - 1, at, at[v[i]]) /\ v[i] = w[i]
    BY <1>0 DEF LinkedWith
  <2>2. i - 1 \in Nat /\ \A j \in 1 .. i - 1 : v[j] = w[j]
    OBVIOUS
  <2> QED
    BY <2>1, <2>2, LatestSame
<1>3. \A i \in 1 .. n : tg[w[i]] \subseteq slots[at[w[i]]].tag
  BY <1>0 DEF LinkedWith
<1>4. LinkedWith(slots, next, w, n, at, tg)
  BY <1>1, <1>2, <1>3 DEF LinkedWith
<1> QED
  BY <1>4 DEF Shape

(* TableOK in the terms of these lemmas: chains, and aggregates *)
ChainsOK(T) ==
    /\ IsTable(T) /\ T.values \in Seq(Rows) /\ OneEach(T.values) /\ Rest(T, T.values)
    /\ size(T) \in Nat \ {0}
    /\ Shape(T.slots, T.next, T.values, Len(T.values), size(T), slotOf(size(T)), tags)

AggregatesOK(T) ==
    /\ T.agg \in [Rows -> [Rows -> Nat]]
    /\ \A e \in Rows : (\A i \in DOMAIN T.values : T.values[i] # e) => T.agg[e] = initial

LEMMA TableParts == ASSUME NEW T PROVE TableOK(T) <=> ChainsOK(T) /\ AggregatesOK(T)
<1>1. ASSUME T.values \in Seq(Rows), NEW at
      PROVE  Linked(T, T.values, Len(T.values), at) <=>
                LinkedWith(T.slots, T.next, T.values, Len(T.values), at, tags)
  <2>1. \A i \in 1 .. Len(T.values) : tags[T.values[i]] = TagOf[hashValue(T.values[i])]
    BY <1>1 DEF tags
  <2> QED
    BY <2>1 DEF Linked, LinkedWith
<1>2. ASSUME TableOK(T) PROVE ChainsOK(T) /\ AggregatesOK(T)
  <2>1. /\ IsTable(T) /\ T.values \in Seq(Rows) /\ OneEach(T.values) /\ Rest(T, T.values)
        /\ size(T) \in Nat \ {0} /\ T.slots = [s \in 0 .. size(T) - 1 |-> T.slots[s]]
        /\ T.next \in [Rows -> Rows \cup {Null}]
        /\ Linked(T, T.values, Len(T.values), slotOf(size(T)))
    BY <1>2 DEF TableOK, Chained, IsTable, Rest
  <2>2. LinkedWith(T.slots, T.next, T.values, Len(T.values), slotOf(size(T)), tags)
    BY <1>1, <2>1
  <2>3. AggregatesOK(T)
    BY <1>2 DEF TableOK, AggregatesOK
  <2> QED
    BY <2>1, <2>2, <2>3 DEF ChainsOK, Shape
<1>3. ASSUME ChainsOK(T), AggregatesOK(T) PROVE TableOK(T)
  <2>1. /\ IsTable(T) /\ T.values \in Seq(Rows) /\ OneEach(T.values) /\ Rest(T, T.values)
        /\ size(T) \in Nat \ {0} /\ T.slots = [s \in 0 .. size(T) - 1 |-> T.slots[s]]
        /\ T.next \in [Rows -> Rows \cup {Null}]
        /\ LinkedWith(T.slots, T.next, T.values, Len(T.values), slotOf(size(T)), tags)
    BY <1>3 DEF ChainsOK, Shape
  <2>2. Linked(T, T.values, Len(T.values), slotOf(size(T)))
    BY <1>1, <2>1
  <2>3. Chained(T, T.values, slotOf(size(T)))
    BY <2>1, <2>2 DEF Chained, Rest
  <2> QED
    BY <1>3, <2>1, <2>3 DEF TableOK, AggregatesOK, IsTable
<1> QED
  BY <1>2, <1>3

LEMMA AppendSeq ==
    ASSUME NEW v \in Seq(Rows), NEW e \in Rows, NEW w, w = Append(v, e)
    PROVE  /\ w \in Seq(Rows) /\ Len(w) = Len(v) + 1 /\ DOMAIN v = 1 .. Len(v) /\ Len(v) \in Nat
           /\ DOMAIN w = 1 .. Len(v) + 1 /\ w[Len(v) + 1] = e
           /\ \A i \in 1 .. Len(v) : w[i] = v[i] /\ v[i] \in Rows
<1>1. w \in Seq(Rows) /\ Len(w) = Len(v) + 1 /\ Len(v) \in Nat /\ DOMAIN v = 1 .. Len(v)
  OBVIOUS
<1>2. DOMAIN w = 1 .. Len(v) + 1
  BY <1>1
<1>3. w[Len(v) + 1] = e /\ \A i \in 1 .. Len(v) : w[i] = v[i] /\ v[i] \in Rows
  OBVIOUS
<1> QED
  BY <1>1, <1>2, <1>3

(* Hashtable::insert of an entry whose group has none *)
LEMMA InsertChains ==
    ASSUME NEW T, TableOK(T), NEW r \in Rows,
           \A i \in DOMAIN T.values : KeyOf[T.values[i]] # KeyOf[r],
           NEW U, U = insert(T, r)
    PROVE  ChainsOK(U) /\ U.values = Append(T.values, r) /\ U.agg = T.agg
<1> DEFINE v == T.values
           N == Len(v)
           w == Append(v, r)
           R == IF N > (size(T) - 1) \div 2 THEN resize(T) ELSE T
           V == push(R, pos(R, hashValue(r)), r)
<1>0. ChainsOK(T)
  BY TableParts
<1>1. v \in Seq(Rows) /\ OneEach(v) /\ size(T) \in Nat \ {0} /\ 2 * size(T) \in Nat \ {0}
  BY <1>0 DEF ChainsOK
<1>2. /\ w \in Seq(Rows) /\ Len(w) = N + 1 /\ DOMAIN v = 1 .. N /\ N \in Nat
      /\ DOMAIN w = 1 .. N + 1 /\ w[N + 1] = r
      /\ \A i \in 1 .. N : w[i] = v[i] /\ v[i] \in Rows
  BY <1>1, AppendSeq
<1>3. PICK m \in Nat \ {0} :
        /\ IsTable(R) /\ R.values = v /\ R.agg = T.agg /\ Rest(R, v)
        /\ Shape(R.slots, R.next, v, N, m, slotOf(m), tags)
  <2>1. CASE N > (size(T) - 1) \div 2
    <3>1. R = resize(T)
      BY <2>1
    <3> HIDE DEF R
    <3>2. /\ IsTable(R) /\ R.values = v /\ R.agg = T.agg /\ Rest(R, v)
          /\ Shape(R.slots, R.next, v, N, 2 * size(T), slotOf(2 * size(T)), tags)
      BY <3>1, ResizeChains
    <3> QED
      BY <1>1, <3>2
  <2>2. CASE ~(N > (size(T) - 1) \div 2)
    <3>1. R = T
      BY <2>2
    <3> HIDE DEF R
    <3> QED
      BY <1>0, <1>1, <3>1 DEF ChainsOK
  <2> QED
    BY <2>1, <2>2
<1>4. U = [V EXCEPT !.values = Append(@, r)]
  BY DEF insert
<1> HIDE DEF R, v, N, w
<1> DEFINE at == slotOf(m)
<1>5. /\ m \in Nat /\ R.slots = [s \in 0 .. m - 1 |-> R.slots[s]] /\ R.next \in [Rows -> Rows \cup {Null}]
      /\ at \in [Rows -> 0 .. m - 1] /\ at[r] \in 0 .. m - 1
  BY <1>3, Hashes DEF Shape
<1>6. pos(R, hashValue(r)) = at[r]
  <2>1. pos(R, hashValue(r)) = hashValue(r) % m
    BY <1>5, SizeIs
  <2> QED
    BY <2>1 DEF slotOf
<1> HIDE DEF at
<1>7. V = push(R, at[r], r)
  BY <1>6
<1> HIDE DEF V
<1>8. Pushed(R, at[r], r, V)
  BY <1>3, <1>5, <1>7, PushFields
<1>9. Shape(R.slots, R.next, w, N, m, at, tags)
  <2>1. \A i \in 1 .. N : v[i] = w[i]
    BY <1>2
  <2>2. Shape(R.slots, R.next, v, N, m, at, tags)
    BY <1>3 DEF at
  <2> QED
    BY <1>2, <2>1, <2>2, ShapeSame
<1>10. Shape(V.slots, V.next, w, N + 1, m, at, tags)
  <2>1. \A i \in 1 .. N + 1 : w[i] \in Rows
    BY <1>2
  <2>2. \A i \in 1 .. N : w[i] # w[N + 1]
    BY <1>2 DEF v
  <2>3. /\ V.slots = [R.slots EXCEPT ![at[w[N + 1]]] =
                          [ptr |-> w[N + 1], tag |-> R.slots[at[w[N + 1]]].tag \cup tags[w[N + 1]]]]
        /\ V.next = [R.next EXCEPT ![w[N + 1]] = R.slots[at[w[N + 1]]].ptr]
    BY <1>2, <1>8 DEF Pushed
  <2>4. N \in Nat /\ m \in Nat /\ at \in [Rows -> 0 .. m - 1]
    BY <1>2, <1>5
  <2> DEFINE sl == R.slots
             nx == R.next
             sl2 == V.slots
             nx2 == V.next
  <2>5. /\ Shape(sl, nx, w, N, m, at, tags)
        /\ sl2 = [sl EXCEPT ![at[w[N + 1]]] = [ptr |-> w[N + 1], tag |-> sl[at[w[N + 1]]].tag \cup tags[w[N + 1]]]]
        /\ nx2 = [nx EXCEPT ![w[N + 1]] = sl[at[w[N + 1]]].ptr]
    BY <1>9, <2>3
  <2> HIDE DEF sl, nx, sl2, nx2
  <2>6. Shape(sl2, nx2, w, N + 1, m, at, tags)
    BY <2>1, <2>2, <2>4, <2>5, PushShape
  <2> QED
    BY <2>6 DEF sl2, nx2
<1>11. /\ IsTable(U) /\ U.slots = V.slots /\ U.next = V.next /\ U.values = w /\ U.agg = T.agg
  <2>1. IsTable(V) /\ V.values = v /\ V.agg = T.agg
    BY <1>3, <1>8 DEF Pushed
  <2>2. U = [slots |-> V.slots, next |-> V.next, values |-> w, agg |-> V.agg]
    BY <1>4, <2>1 DEF IsTable, w
  <2> QED
    BY <2>1, <2>2 DEF IsTable
<1>12. size(U) = m
  BY <1>5, <1>10, <1>11, SizeIs DEF Shape
<1>13. OneEach(w)
  <2>1. \A i, j \in 1 .. N : KeyOf[v[i]] = KeyOf[v[j]] => i = j
    BY <1>1, <1>2 DEF OneEach, v
  <2>2. \A i \in 1 .. N : KeyOf[v[i]] # KeyOf[r]
    BY <1>2 DEF v
  <2>3. ASSUME NEW i \in 1 .. N + 1, NEW j \in 1 .. N + 1, KeyOf[w[i]] = KeyOf[w[j]] PROVE i = j
    BY <1>2, <2>1, <2>2, <2>3
  <2> QED
    BY <1>2, <2>3 DEF OneEach
<1>14. Rest(U, w)
  <2>1. ASSUME NEW e \in Rows, \A i \in DOMAIN w : w[i] # e PROVE U.next[e] = Null
    <3>1. e # r /\ \A i \in DOMAIN v : v[i] # e
      BY <1>2, <2>1
    <3>2. R.next[e] = Null
      BY <1>3, <3>1 DEF Rest
    <3> QED
      BY <1>5, <1>8, <1>11, <3>1, <3>2 DEF Pushed
  <2> QED
    BY <2>1 DEF Rest
<1> QED
  BY <1>2, <1>3, <1>10, <1>11, <1>12, <1>13, <1>14 DEF ChainsOK, w, v, at

(* Walking from a slot, unless the tag tk of the key is not covered by the slot's *)
Starts(slots, z, tk, x) == x = slots[z].ptr \/ (x = Null /\ ~(tk \subseteq slots[z].tag))
Hashed(v, k, at, z, tg, tk) == \A i \in DOMAIN v : KeyOf[v[i]] = k => at[v[i]] = z /\ tg[v[i]] = tk

LEMMA ShapeFinds ==
    ASSUME NEW slots, NEW next, NEW v, NEW m \in Nat, NEW at, NEW tg,
           Chains(next, v, at), Shape(slots, next, v, Len(v), m, at, tg),
           NEW k, NEW z \in 0 .. m - 1, NEW tk,
           Hashed(v, k, at, z, tg, tk), NEW x, Starts(slots, z, tk, x)
    PROVE  FoundIn(v, k, Walk(next, k)[x])
<1>0. /\ v \in Seq(Rows) /\ DOMAIN v = 1 .. Len(v) /\ Len(v) \in Nat /\ z \in DOMAIN slots
      /\ LinkedWith(slots, next, v, Len(v), at, tg)
  BY DEF Chains, Shape
<1>1. CASE x = slots[z].ptr
  <2>1. Latest(x, v, Len(v), at, z)
    BY <1>0, <1>1 DEF LinkedWith
  <2>2. \A i \in DOMAIN v : KeyOf[v[i]] = k => at[v[i]] = z
    BY DEF Hashed
  <2> QED
    BY <2>1, <2>2, WalkFinds
<1>2. CASE x = Null /\ ~(tk \subseteq slots[z].tag)
  <2>1. ASSUME NEW i \in DOMAIN v, KeyOf[v[i]] = k PROVE FALSE
    <3>1. tg[v[i]] \subseteq slots[at[v[i]]].tag
      BY <1>0 DEF LinkedWith
    <3> QED
      BY <1>2, <2>1, <3>1 DEF Hashed
  <2>2. Walk(next, k)[Null] = Null
    BY WalkHits
  <2> QED
    BY <1>2, <2>1, <2>2 DEF FoundIn
<1> QED
  BY <1>1, <1>2 DEF Starts

LEMMA LookupFinds ==
    ASSUME NEW T, TableOK(T), NEW k \in Keys
    PROVE  /\ FoundIn(T.values, k, find(T.next, untag(T.slots[pos(T, Hash[k])]), k))
           /\ FoundIn(T.values, k, lookup(T, k))
<1> DEFINE v == T.values
           m == size(T)
           at == slotOf(m)
           z == Hash[k] % m
<1>0. ChainsOK(T)
  BY TableParts
<1>1. /\ v \in Seq(Rows) /\ m \in Nat \ {0} /\ Shape(T.slots, T.next, v, Len(v), m, at, tags)
      /\ Hash[k] \in Nat
  BY <1>0, ChainedTableAssumption DEF ChainsOK
<1>2. Chains(T.next, v, at)
  <2>1. OneEach(v) /\ Rest(T, v) /\ T.next \in [Rows -> Rows \cup {Null}]
        /\ LinkedWith(T.slots, T.next, v, Len(v), at, tags)
    BY <1>0 DEF ChainsOK, Shape
  <2> QED
    BY <1>1, <2>1 DEF Chains, Rest, LinkedWith
<1>3. z \in 0 .. m - 1 /\ pos(T, Hash[k]) = z
  BY <1>1, Remainder DEF pos
<1>4. \A i \in DOMAIN v : KeyOf[v[i]] = k => at[v[i]] = z /\ tags[v[i]] = TagOf[Hash[k]]
  BY <1>1 DEF slotOf, tags, hashValue
<1> DEFINE sl == T.slots
           nx == T.next
           tk == TagOf[Hash[k]]
<1>5. ASSUME NEW x, x = sl[z].ptr \/ (x = Null /\ ~(tk \subseteq sl[z].tag))
      PROVE  FoundIn(v, k, Walk(nx, k)[x])
  <2>1. Shape(sl, nx, v, Len(v), m, at, tags) /\ m \in Nat /\ Chains(nx, v, at)
    BY <1>1, <1>2
  <2>2. Hashed(v, k, at, z, tags, tk) /\ Starts(sl, z, tk, x)
    BY <1>4, <1>5 DEF Hashed, Starts
  <2>3. z \in 0 .. m - 1
    BY <1>3
  <2> HIDE DEF sl, nx, v, m, at, z, tk
  <2> QED
    BY <2>1, <2>2, <2>3, ShapeFinds
<1>6. find(T.next, untag(T.slots[pos(T, Hash[k])]), k) = Walk(nx, k)[sl[z].ptr]
  BY <1>3, FindWalks DEF untag
<1>7. lookup(T, k) = Walk(nx, k)[IF tk \subseteq sl[z].tag THEN sl[z].ptr ELSE Null]
  BY <1>3, FindWalks DEF lookup, filterTagged
<1> HIDE DEF sl, nx, z, tk
<1> QED
  BY <1>5, <1>6, <1>7

LEMMA InsertOK ==
    ASSUME NEW T, TableOK(T), NEW r \in Rows, \A i \in DOMAIN T.values : KeyOf[T.values[i]] # KeyOf[r],
           NEW U, U = insert(T, r)
    PROVE  /\ TableOK(U) /\ U.agg = T.agg
           /\ Entries(U) = Entries(T) \cup {r}
           /\ \E i \in DOMAIN U.values : U.values[i] = r
<1>1. ChainsOK(U) /\ U.values = Append(T.values, r) /\ U.agg = T.agg
  BY InsertChains
<1>2. T.values \in Seq(Rows) /\ AggregatesOK(T)
  BY TableParts DEF ChainsOK
<1> DEFINE v == T.values
           w == U.values
<1>3. /\ DOMAIN v = 1 .. Len(v) /\ Len(v) \in Nat /\ DOMAIN w = 1 .. Len(v) + 1 /\ w[Len(v) + 1] = r
      /\ \A i \in 1 .. Len(v) : w[i] = v[i]
  BY <1>1, <1>2, AppendSeq
<1>4. AggregatesOK(U)
  BY <1>1, <1>2, <1>3 DEF AggregatesOK
<1>5. Entries(U) = Entries(T) \cup {r}
  <2>1. Entries(U) = {w[i] : i \in DOMAIN w} /\ Entries(T) = {v[i] : i \in DOMAIN v}
    BY DEF Entries, ToSet
  <2> HIDE DEF v, w
  <2> QED
    BY <1>3, <2>1
<1>6. Len(v) + 1 \in DOMAIN w
  BY <1>3
<1> QED
  BY <1>1, <1>3, <1>4, <1>5, <1>6, TableParts

HasFields(W, a, b, c, d) == IsTable(W) /\ W.slots = a /\ W.next = b /\ W.values = c /\ W.agg = d

LEMMA TableFields ==
    ASSUME NEW a, NEW b, NEW c, NEW d, NEW W, W = [slots |-> a, next |-> b, values |-> c, agg |-> d]
    PROVE  HasFields(W, a, b, c, d)
BY DEF IsTable, HasFields

AggregateSet(T, U, g, b) == TableOK(U) /\ U.values = T.values /\ U.agg = [T.agg EXCEPT ![g] = b]

LEMMA SetAggregate ==
    ASSUME NEW T, TableOK(T), NEW g \in Rows, \E i \in DOMAIN T.values : T.values[i] = g,
           NEW b \in [Rows -> Nat], NEW U, U = [T EXCEPT !.agg[g] = b]
    PROVE  AggregateSet(T, U, g, b)
<1> DEFINE aa == [T.agg EXCEPT ![g] = b]
<1>1. ChainsOK(T) /\ AggregatesOK(T)
  BY TableParts
<1>2. U = [T EXCEPT !.agg = aa]
  OBVIOUS
<1>3. aa \in [Rows -> [Rows -> Nat]] /\ \A e \in Rows : e # g => aa[e] = T.agg[e]
  BY <1>1 DEF AggregatesOK
<1> HIDE DEF aa
<1>4. IsTable(T)
  BY <1>1 DEF ChainsOK
<1>5. U = [slots |-> T.slots, next |-> T.next, values |-> T.values, agg |-> aa]
  BY <1>2, <1>4 DEF IsTable
<1>6. IsTable(U) /\ U.slots = T.slots /\ U.next = T.next /\ U.values = T.values /\ U.agg = aa
  <2>1. HasFields(U, T.slots, T.next, T.values, aa)
    BY <1>5, TableFields, Zenon
  <2> QED
    BY <2>1, Zenon DEF HasFields
<1>7. ChainsOK(U)
  BY <1>1, <1>6 DEF ChainsOK, Rest, size
<1>8. AggregatesOK(U)
  BY <1>1, <1>3, <1>6 DEF AggregatesOK
<1> QED
  BY <1>6, <1>7, <1>8, TableParts DEF aa, AggregateSet

(* U is T with the aggregate of g, an entry or a new one, set to b *)
Absorbs(T, U, g, b) ==
    /\ TableOK(U) /\ g \in Rows
    /\ Entries(U) = Entries(T) \cup {g}
    /\ U.agg = [T.agg EXCEPT ![g] = b]

LEMMA EntriesIn ==
    ASSUME NEW T, TableOK(T)
    PROVE  /\ Entries(T) = {T.values[i] : i \in DOMAIN T.values}
           /\ Entries(T) \subseteq Rows
           /\ T.agg \in [Rows -> [Rows -> Nat]]
           /\ \A e \in Rows : e \notin Entries(T) => T.agg[e] = initial
<1>1. ChainsOK(T) /\ AggregatesOK(T)
  BY TableParts
<1>2. Entries(T) = {T.values[i] : i \in DOMAIN T.values}
  BY DEF Entries, ToSet
<1>3. T.values \in Seq(Rows)
  BY <1>1 DEF ChainsOK
<1>4. Entries(T) \subseteq Rows
  BY <1>2, <1>3
<1> QED
  BY <1>1, <1>2, <1>4 DEF AggregatesOK

LEMMA AbsorbFound ==
    ASSUME NEW T, TableOK(T), NEW g, \E i \in DOMAIN T.values : g = T.values[i],
           NEW b \in [Rows -> Nat], NEW U, U = [T EXCEPT !.agg[g] = b]
    PROVE  Absorbs(T, U, g, b)
<1>1. g \in Entries(T) /\ g \in Rows
  BY EntriesIn
<1>2. \E i \in DOMAIN T.values : T.values[i] = g
  OBVIOUS
<1>3. AggregateSet(T, U, g, b)
  BY <1>1, <1>2, SetAggregate
<1> QED
  BY <1>1, <1>3 DEF Absorbs, Entries, AggregateSet

LEMMA AbsorbNew ==
    ASSUME NEW T, TableOK(T), NEW g \in Rows, \A i \in DOMAIN T.values : KeyOf[T.values[i]] # KeyOf[g],
           NEW b \in [Rows -> Nat], NEW U, U = [insert(T, g) EXCEPT !.agg[g] = b]
    PROVE  Absorbs(T, U, g, b)
<1> DEFINE V == insert(T, g)
<1>1. /\ TableOK(V) /\ V.agg = T.agg /\ Entries(V) = Entries(T) \cup {g}
      /\ \E i \in DOMAIN V.values : g = V.values[i]
  BY InsertOK
<1>2. U = [V EXCEPT !.agg[g] = b]
  OBVIOUS
<1> HIDE DEF V
<1>3. Absorbs(V, U, g, b)
  BY <1>1, <1>2, AbsorbFound
<1> QED
  BY <1>1, <1>3 DEF Absorbs

LEMMA Bags ==
    /\ initial \in [Rows -> Nat]
    /\ \A a, b \in [Rows -> Nat] : combine(a, b) \in [Rows -> Nat]
    /\ \A a \in [Rows -> Nat] : combine(initial, a) = a
    /\ \A a \in [Rows -> Nat] : \A r \in Rows : reduce(a, r) \in [Rows -> Nat]
BY DEF initial, combine, reduce

(* A row goes into the entry of its key *)
LEMMA ConsumeAbsorbs ==
    ASSUME NEW T, TableOK(T), NEW r \in Rows, NEW U, U = lookupOrInsert(T, r)
    PROVE  \E g \in Rows : KeyOf[g] = KeyOf[r] /\ Absorbs(T, U, g, reduce(T.agg[g], r))
<1> DEFINE e == lookup(T, KeyOf[r])
<1>0. Null \notin Rows /\ KeyOf[r] \in Keys /\ T.agg \in [Rows -> [Rows -> Nat]]
      /\ Entries(T) \subseteq Rows /\ Entries(T) = {T.values[i] : i \in DOMAIN T.values}
  BY ChainedTableAssumption, EntriesIn
<1>1. FoundIn(T.values, KeyOf[r], e)
  BY <1>0, LookupFinds
<1>2. CASE e = Null
  <2>1. \A i \in DOMAIN T.values : KeyOf[T.values[i]] # KeyOf[r]
    BY <1>0, <1>1, <1>2 DEF FoundIn
  <2> DEFINE V == insert(T, r)
  <2>2. U = [V EXCEPT !.agg[r] = reduce(@, r)]
    BY <1>2 DEF lookupOrInsert
  <2>3. V.agg = T.agg
    BY <2>1, InsertOK
  <2>4. U = [V EXCEPT !.agg[r] = reduce(T.agg[r], r)]
    BY <2>2, <2>3
  <2>5. reduce(T.agg[r], r) \in [Rows -> Nat]
    BY <1>0, Bags
  <2> DEFINE b == reduce(T.agg[r], r)
  <2> HIDE DEF b
  <2>6. Absorbs(T, U, r, b)
    BY <2>1, <2>4, <2>5, AbsorbNew DEF b
  <2> QED
    BY <2>6 DEF b
<1>3. CASE e # Null
  <2>1. e \in Rows /\ KeyOf[e] = KeyOf[r] /\ \E i \in DOMAIN T.values : e = T.values[i]
    BY <1>0, <1>1, <1>3 DEF FoundIn
  <2> HIDE DEF e
  <2> DEFINE b == reduce(T.agg[e], r)
  <2>2. U = [T EXCEPT !.agg[e] = b]
    BY <1>3 DEF lookupOrInsert, e
  <2>3. b \in [Rows -> Nat]
    BY <1>0, <2>1, Bags
  <2> HIDE DEF b
  <2>4. Absorbs(T, U, e, b)
    BY <2>1, <2>2, <2>3, AbsorbFound
  <2> QED
    BY <2>1, <2>4 DEF b
<1> QED
  BY <1>2, <1>3

(* An entry of another table is combined with the entry of its key *)
LEMMA MergeAbsorbs ==
    ASSUME NEW T, TableOK(T), NEW e \in Rows, NEW a \in [Rows -> Nat], NEW U, U = mergeEntry(T, e, a)
    PROVE  \E g \in Rows : KeyOf[g] = KeyOf[e] /\ Absorbs(T, U, g, combine(T.agg[g], a))
<1> DEFINE c == find(T.next, untag(T.slots[pos(T, hashValue(e))]), KeyOf[e])
<1>0. Null \notin Rows /\ KeyOf[e] \in Keys /\ T.agg \in [Rows -> [Rows -> Nat]]
      /\ Entries(T) \subseteq Rows /\ Entries(T) = {T.values[i] : i \in DOMAIN T.values}
      /\ \A x \in Rows : x \notin Entries(T) => T.agg[x] = initial
  BY ChainedTableAssumption, EntriesIn
<1>1. FoundIn(T.values, KeyOf[e], c)
  BY <1>0, LookupFinds DEF hashValue
<1>2. U = IF c # Null THEN [T EXCEPT !.agg[c] = combine(@, a)] ELSE [insert(T, e) EXCEPT !.agg[e] = a]
  BY DEF mergeEntry
<1> HIDE DEF c
<1>3. CASE c = Null
  <2>1. \A i \in DOMAIN T.values : KeyOf[T.values[i]] # KeyOf[e]
    BY <1>0, <1>1, <1>3 DEF FoundIn
  <2>2. U = [insert(T, e) EXCEPT !.agg[e] = a]
    BY <1>2, <1>3
  <2>3. Absorbs(T, U, e, a)
    BY <2>1, <2>2, AbsorbNew
  <2>4. combine(T.agg[e], a) = a
    BY <1>0, <2>1, Bags
  <2> QED
    BY <2>3, <2>4
<1>4. CASE c # Null
  <2>1. c \in Rows /\ KeyOf[c] = KeyOf[e] /\ \E i \in DOMAIN T.values : c = T.values[i]
    BY <1>0, <1>1, <1>4 DEF FoundIn
  <2> DEFINE b == combine(T.agg[c], a)
  <2>2. U = [T EXCEPT !.agg[c] = b]
    BY <1>2, <1>4
  <2>3. b \in [Rows -> Nat]
    BY <1>0, <2>1, Bags
  <2> HIDE DEF b
  <2>4. Absorbs(T, U, c, b)
    BY <2>1, <2>2, <2>3, AbsorbFound
  <2> QED
    BY <2>1, <2>4 DEF b
<1> QED
  BY <1>3, <1>4

-----------------------------------------------------------------------------
(* Counting rows *)

(* Row r is added to the aggregate of g *)
LEMMA CountRow ==
    ASSUME NEW H, NEW bag, NEW key, NEW left, CountedOnce(H, bag, key, left),
           NEW r \in left, r \in Rows, NEW g, key[g] = KeyOf[r], NEW bag2,
           \A h \in H : h # g => bag2[h] = bag[h],
           \A x \in Rows : g \notin H => bag[g][x] = 0,
           \A x \in Rows : bag2[g][x] = IF x = r THEN bag[g][x] + 1 ELSE bag[g][x]
    PROVE  CountedOnce(H \cup {g}, bag2, key, left \ {r})
<1>0. /\ \A h \in H : \A x \in Rows :
            bag[h][x] = 0 \/ (bag[h][x] = 1 /\ x \notin left /\ KeyOf[x] = key[h])
      /\ \A x \in Rows \ left : \E h \in H : bag[h][x] = 1
      /\ \A f, h \in H : \A x \in Rows : bag[f][x] = 1 /\ bag[h][x] = 1 => f = h
  BY DEF CountedOnce
<1>1. \A x \in Rows : bag[g][x] = 0 \/ (bag[g][x] = 1 /\ g \in H /\ x \notin left /\ KeyOf[x] = key[g])
  BY <1>0
<1>2. bag[g][r] = 0 /\ bag2[g][r] = 1 /\ \A x \in Rows : x # r => bag2[g][x] = bag[g][x]
  BY <1>1
<1>3. \A h \in H \cup {g} : \A x \in Rows : x # r => (bag2[h][x] = 1 <=> h \in H /\ bag[h][x] = 1)
  BY <1>1, <1>2
<1>4. \A h \in H \cup {g} : bag2[h][r] = 1 <=> h = g
  BY <1>0, <1>2
<1>5. ASSUME NEW h \in H \cup {g}, NEW x \in Rows
      PROVE  bag2[h][x] = 0 \/ (bag2[h][x] = 1 /\ x \notin left \ {r} /\ KeyOf[x] = key[h])
  BY <1>0, <1>1, <1>2
<1>6. ASSUME NEW x \in Rows \ (left \ {r}) PROVE \E h \in H \cup {g} : bag2[h][x] = 1
  BY <1>0, <1>2, <1>3
<1>7. ASSUME NEW f \in H \cup {g}, NEW h \in H \cup {g}, NEW x \in Rows, bag2[f][x] = 1, bag2[h][x] = 1
      PROVE  f = h
  BY <1>0, <1>3, <1>4, <1>7
<1> QED
  BY <1>5, <1>6, <1>7 DEF CountedOnce

(* The aggregate of e is combined into that of g *)
LEMMA CountMerge ==
    ASSUME NEW H, NEW bag, NEW key, NEW left, CountedOnce(H, bag, key, left),
           NEW e \in H, NEW g, g # e, key[g] = key[e], NEW bag2,
           \A h \in H : h # g => bag2[h] = bag[h],
           \A x \in Rows : g \notin H => bag[g][x] = 0,
           \A x \in Rows : bag2[g][x] = bag[g][x] + bag[e][x]
    PROVE  CountedOnce((H \ {e}) \cup {g}, bag2, key, left)
<1> DEFINE J == (H \ {e}) \cup {g}
<1>0. /\ \A h \in H : \A x \in Rows :
            bag[h][x] = 0 \/ (bag[h][x] = 1 /\ x \notin left /\ KeyOf[x] = key[h])
      /\ \A x \in Rows \ left : \E h \in H : bag[h][x] = 1
      /\ \A f, h \in H : \A x \in Rows : bag[f][x] = 1 /\ bag[h][x] = 1 => f = h
  BY DEF CountedOnce
<1>1. \A x \in Rows : bag[g][x] = 0 \/ (bag[g][x] = 1 /\ g \in H /\ x \notin left /\ KeyOf[x] = key[g])
  BY <1>0
<1>2. \A x \in Rows : ~(bag[g][x] = 1 /\ bag[e][x] = 1)
  BY <1>0, <1>1
<1>3. ASSUME NEW x \in Rows
      PROVE  /\ bag2[g][x] = 0 \/ bag2[g][x] = 1
             /\ bag2[g][x] = 1 <=> (g \in H /\ bag[g][x] = 1) \/ bag[e][x] = 1
  BY <1>0, <1>1, <1>2
<1>4. ASSUME NEW h \in J, NEW x \in Rows
      PROVE  bag2[h][x] = 0 \/ (bag2[h][x] = 1 /\ x \notin left /\ KeyOf[x] = key[h])
  BY <1>0, <1>3
<1>5. ASSUME NEW x \in Rows \ left PROVE \E h \in J : bag2[h][x] = 1
  BY <1>0, <1>3
<1>6. ASSUME NEW f \in J, NEW h \in J, NEW x \in Rows, bag2[f][x] = 1, bag2[h][x] = 1
      PROVE  f = h
  BY <1>0, <1>3, <1>6
<1> QED
  BY <1>4, <1>5, <1>6 DEF CountedOnce

LEMMA CountSame ==
    ASSUME NEW H, NEW bag, NEW key, NEW left, CountedOnce(H, bag, key, left),
           NEW bag2, \A h \in H : bag2[h] = bag[h]
    PROVE  CountedOnce(H, bag2, key, left)
BY DEF CountedOnce

(* When all rows are counted and holders have different keys, they are the group-by *)
LEMMA CountedGroups ==
    ASSUME NEW H, NEW bag, NEW key, CountedOnce(H, bag, key, {}),
           \A h \in H : bag[h] \in [Rows -> Nat],
           \A g, h \in H : key[g] = key[h] => g = h,
           \A h \in H : \E r \in Rows : KeyOf[r] = key[h]
    PROVE  {<<key[h], bag[h]>> : h \in H}
              = {<<KeyOf[r], [x \in Rows |-> IF KeyOf[x] = KeyOf[r] THEN 1 ELSE 0]>> : r \in Rows}
<1> DEFINE A(k) == [x \in Rows |-> IF KeyOf[x] = k THEN 1 ELSE 0]
<1>0. /\ \A h \in H : \A x \in Rows : bag[h][x] = 0 \/ (bag[h][x] = 1 /\ KeyOf[x] = key[h])
      /\ \A x \in Rows : \E h \in H : bag[h][x] = 1
  BY DEF CountedOnce
<1>1. ASSUME NEW h \in H PROVE bag[h] = A(key[h])
  <2>1. ASSUME NEW x \in Rows PROVE bag[h][x] = IF KeyOf[x] = key[h] THEN 1 ELSE 0
    BY <1>0
  <2> QED
    BY <2>1
<1> HIDE DEF A
<1>2. \A h \in H : \E r \in Rows : key[h] = KeyOf[r] /\ bag[h] = A(KeyOf[r])
  <2>1. ASSUME NEW h \in H PROVE \E r \in Rows : key[h] = KeyOf[r] /\ bag[h] = A(KeyOf[r])
    <3>1. PICK r \in Rows : KeyOf[r] = key[h]
      OBVIOUS
    <3> QED
      BY <1>1, <3>1
  <2> QED
    BY <2>1
<1>3. \A r \in Rows : \E h \in H : key[h] = KeyOf[r] /\ bag[h] = A(KeyOf[r])
  <2>1. ASSUME NEW r \in Rows PROVE \E h \in H : key[h] = KeyOf[r]
    BY <1>0
  <2> QED
    BY <1>1, <2>1
<1>4. {<<key[h], bag[h]>> : h \in H} = {<<KeyOf[r], A(KeyOf[r])>> : r \in Rows}
  BY <1>2, <1>3
<1> QED
  BY <1>4 DEF A

-----------------------------------------------------------------------------
(* The invariant of Hashtable *)

LEMMA NewTableOK == TableOK(newTable) /\ newTable.values = <<>> /\ Entries(newTable) = {}
<1> DEFINE T == newTable
           m == 2 * InitialCapacity
<1>1. m \in Nat \ {0}
  BY ChainedTableAssumption
<1>2. HasFields(T, zeroed(m), NoNext, <<>>, [e \in Rows |-> initial])
  BY TableFields DEF newTable
<1>3. T.slots = [s \in 0 .. m - 1 |-> NullPtr] /\ T.next \in [Rows -> Rows \cup {Null}]
      /\ T.values = <<>> /\ T.agg = [e \in Rows |-> initial] /\ IsTable(T)
  BY <1>2 DEF HasFields, zeroed, NoNext
<1> HIDE DEF T, m
<1>4. size(T) = m
  BY <1>1, <1>3, SizeIs
<1>5. Shape(T.slots, T.next, T.values, Len(T.values), size(T), slotOf(size(T)), tags)
  <2>1. Len(T.values) = 0
    BY <1>3
  <2> QED
    BY <1>1, <1>3, <1>4, <2>1, EmptyShape
<1>6. Rest(T, T.values) /\ OneEach(T.values) /\ T.values \in Seq(Rows)
  <2>1. T.next = NoNext
    BY <1>2 DEF HasFields, T
  <2> QED
    BY <1>3, <2>1 DEF Rest, NoNext, OneEach
<1>7. ChainsOK(T)
  BY <1>1, <1>3, <1>4, <1>5, <1>6 DEF ChainsOK
<1>8. AggregatesOK(T)
  BY <1>3, Bags DEF AggregatesOK
<1>9. Entries(T) = {}
  BY <1>3 DEF Entries, ToSet
<1> QED
  BY <1>3, <1>7, <1>8, <1>9, TableParts DEF T

LEMMA HolderFacts ==
    /\ \A t \in Threads, e \in Rows :
          /\ <<t, e>> \in Holders <=> e \in Live(t)
          /\ Counts[<<t, e>>] = tables[t].agg[e]
          /\ HolderKey[<<t, e>>] = KeyOf[e]
    /\ \A h \in Holders : \E t \in Threads, e \in Rows : h = <<t, e>>
BY DEF Holders, Counts, HolderKey

LEMMA HolderFactsNext ==
    /\ \A t \in Threads, e \in Rows :
          /\ <<t, e>> \in Holders' <=> e \in Live(t)'
          /\ Counts'[<<t, e>>] = tables'[t].agg[e]
    /\ \A h \in Holders' : \E t \in Threads, e \in Rows : h = <<t, e>>
BY DEF Holders, Counts

LEMMA TableInvInit == Init => TableInv
<1> SUFFICES ASSUME Init PROVE TableInv
  OBVIOUS
<1>1. /\ todo = Rows /\ tables = [t \in Threads |-> newTable] /\ used = {} /\ first = Null
      /\ pending = [from |-> Null, entries |-> <<>>] /\ phase = "build"
      /\ probe = [key |-> Null, entry |-> Null]
  BY DEF Init
<1>2. pending.from = Null /\ pending.entries = <<>> /\ probe.key = Null
  BY <1>1
<1>3. TypeOK
  BY <1>1, NewTableOK DEF TypeOK
<1>4. \A t \in Threads : Live(t) = {}
  BY <1>1, <1>2, ChainedTableAssumption DEF Live
<1>5. Holders = {}
  BY <1>4, HolderFacts
<1>6. RowsCounted
  BY <1>1, <1>5 DEF RowsCounted, CountedOnce
<1>7. MergeInOrder
  BY <1>1, <1>2, NewTableOK DEF MergeInOrder, OneEach
<1>8. LookupRight
  BY <1>2 DEF LookupRight
<1> QED
  BY <1>3, <1>6, <1>7, <1>8 DEF TableInv

LEMMA ConsumeKeeps == ASSUME TableInv, NEW t \in Threads, Consume(t) PROVE TableInv'
<1>1. PICK r \in todo : todo' = todo \ {r} /\ tables' = [tables EXCEPT ![t] = lookupOrInsert(@, r)]
  BY DEF Consume
<1>2. /\ phase = "build" /\ used' = used \cup {t}
      /\ first' = first /\ pending' = pending /\ phase' = phase /\ probe' = probe
  BY DEF Consume
<1>3. /\ TypeOK /\ RowsCounted /\ MergeInOrder /\ LookupRight
  BY DEF TableInv
<1>4. /\ r \in Rows /\ tables = [u \in Threads |-> tables[u]] /\ \A u \in Threads : TableOK(tables[u])
  BY <1>3 DEF TypeOK
<1>5. first = Null /\ pending.from = Null /\ \A u \in Threads \ used : tables[u].values = <<>>
  BY <1>2, <1>3 DEF MergeInOrder
<1> DEFINE T == tables[t]
           U == tables'[t]
<1>6. U = lookupOrInsert(T, r) /\ \A u \in Threads : u # t => tables'[u] = tables[u]
  BY <1>1, <1>4
<1>7. PICK g \in Rows : KeyOf[g] = KeyOf[r] /\ Absorbs(T, U, g, reduce(T.agg[g], r))
  BY <1>4, <1>6, ConsumeAbsorbs
<1>8. /\ TableOK(U) /\ Entries(U) = Entries(T) \cup {g} /\ U.agg = [T.agg EXCEPT ![g] = reduce(T.agg[g], r)]
  BY <1>7 DEF Absorbs
<1> HIDE DEF U
<1>9. T.agg \in [Rows -> [Rows -> Nat]] /\ (g \notin Entries(T) => T.agg[g] = initial)
  BY <1>4, EntriesIn
<1>10. TypeOK'
  <2>1. \A u \in Threads : TableOK(tables'[u])
    BY <1>4, <1>6, <1>8 DEF U
  <2>2. tables' = [u \in Threads |-> tables'[u]]
    BY <1>1, <1>4
  <2> QED
    BY <1>1, <1>2, <1>3, <2>1, <2>2 DEF TypeOK
<1>11. \A u \in Threads : Live(u) = Entries(tables[u])
  BY <1>5, ChainedTableAssumption DEF Live, Entries, ToSet
<1>12. \A u \in Threads : Live(u)' = Entries(tables'[u])
  BY <1>2, <1>5, <1>6, ChainedTableAssumption DEF Live, Entries, ToSet
<1> DEFINE G == <<t, g>>
<1>13. Holders' = Holders \cup {G}
  <2>1. ASSUME NEW u \in Threads, NEW e \in Rows
        PROVE  <<u, e>> \in Holders' <=> <<u, e>> \in Holders \cup {G}
    <3>1. CASE u = t
      BY <1>8, <1>11, <1>12, <3>1, HolderFacts, HolderFactsNext DEF U
    <3>2. CASE u # t
      BY <1>6, <1>11, <1>12, <3>2, HolderFacts, HolderFactsNext
    <3> QED
      BY <3>1, <3>2
  <2> QED
    BY <2>1, HolderFacts, HolderFactsNext
<1>14. \A h \in Holders : h # G => Counts'[h] = Counts[h]
  <2>1. ASSUME NEW u \in Threads, NEW e \in Rows, <<u, e>> # G PROVE tables'[u].agg[e] = tables[u].agg[e]
    BY <1>6, <1>8, <1>9, <2>1 DEF U
  <2> QED
    BY <2>1, HolderFacts, HolderFactsNext
<1>15. \A x \in Rows : G \notin Holders => Counts[G][x] = 0
  BY <1>9, <1>11, HolderFacts DEF initial
<1>16. \A x \in Rows : Counts'[G][x] = IF x = r THEN Counts[G][x] + 1 ELSE Counts[G][x]
  <2>1. Counts'[G] = U.agg[g] /\ Counts[G] = T.agg[g]
    BY HolderFacts, HolderFactsNext DEF U
  <2>2. U.agg[g] = reduce(T.agg[g], r) /\ T.agg[g] \in [Rows -> Nat]
    BY <1>8, <1>9
  <2> QED
    BY <1>4, <2>1, <2>2 DEF reduce
<1>17. HolderKey[G] = KeyOf[r]
  BY <1>7, HolderFacts
<1>18. CountedOnce(Holders, Counts, HolderKey, todo)
  BY <1>3 DEF RowsCounted
<1> HIDE DEF G
<1>19. CountedOnce(Holders \cup {G}, Counts', HolderKey, todo \ {r})
  BY <1>4, <1>14, <1>15, <1>16, <1>17, <1>18, CountRow
<1>20. RowsCounted'
  <2>1. CountedOnce(Holders', Counts', HolderKey, todo')
    BY <1>1, <1>13, <1>19
  <2> QED
    BY <2>1 DEF RowsCounted, CountedOnce, HolderKey
<1>21. MergeInOrder'
  <2>1. Null \notin used'
    BY <1>2, <1>3, ChainedTableAssumption DEF TypeOK
  <2>2. \A u \in Threads \ used' : tables'[u].values = <<>>
    BY <1>2, <1>5, <1>6
  <2>3. OneEach(pending.entries) /\ (pending.from = Null => pending.entries = <<>>)
    BY <1>3 DEF MergeInOrder
  <2> QED
    BY <1>2, <1>5, <2>1, <2>2, <2>3 DEF MergeInOrder, OneEach
<1>22. LookupRight'
  BY <1>2, <1>3 DEF LookupRight
<1> QED
  BY <1>10, <1>20, <1>21, <1>22 DEF TableInv

LEMMA TailSeq ==
    ASSUME NEW s \in Seq(Rows), s # <<>>, NEW w, w = Tail(s)
    PROVE  /\ w \in Seq(Rows) /\ Head(s) = s[1] /\ s[1] \in Rows /\ 1 \in DOMAIN s
           /\ \A i \in DOMAIN w : i + 1 \in DOMAIN s /\ i + 1 # 1 /\ w[i] = s[i + 1]
           /\ \A i \in DOMAIN s : i # 1 => i - 1 \in DOMAIN w /\ s[i] = w[i - 1]
<1>1. w \in Seq(Rows) /\ Head(s) = s[1] /\ Len(s) \in Nat /\ Len(s) # 0 /\ Len(w) = Len(s) - 1
      /\ \A i \in 1 .. Len(s) - 1 : w[i] = s[i + 1]
  BY HeadTailProperties, EmptySeq
<1>2. DOMAIN s = 1 .. Len(s) /\ DOMAIN w = 1 .. Len(s) - 1
  BY <1>1
<1>3. 1 \in DOMAIN s /\ s[1] \in Rows
  BY <1>1, <1>2
<1>4. \A i \in DOMAIN w : i + 1 \in DOMAIN s /\ i + 1 # 1 /\ w[i] = s[i + 1]
  BY <1>1, <1>2
<1>5. ASSUME NEW i \in DOMAIN s, i # 1 PROVE i - 1 \in DOMAIN w /\ s[i] = w[i - 1]
  <2>1. i - 1 \in 1 .. Len(s) - 1 /\ (i - 1) + 1 = i
    BY <1>1, <1>2, <1>5
  <2> QED
    BY <1>1, <1>2, <2>1
<1> QED
  BY <1>1, <1>3, <1>4, <1>5

LEMMA TailSet ==
    ASSUME NEW s \in Seq(Rows), s # <<>>, \A i, j \in DOMAIN s : s[i] = s[j] => i = j
    PROVE  Head(s) \in ToSet(s) /\ ToSet(Tail(s)) = ToSet(s) \ {Head(s)}
<1> DEFINE w == Tail(s)
<1>1. /\ w \in Seq(Rows) /\ Head(s) = s[1] /\ s[1] \in Rows /\ 1 \in DOMAIN s
      /\ \A i \in DOMAIN w : i + 1 \in DOMAIN s /\ i + 1 # 1 /\ w[i] = s[i + 1]
      /\ \A i \in DOMAIN s : i # 1 => i - 1 \in DOMAIN w /\ s[i] = w[i - 1]
  BY TailSeq
<1> HIDE DEF w
<1>2. ToSet(w) = {w[i] : i \in DOMAIN w} /\ ToSet(s) = {s[i] : i \in DOMAIN s}
  BY DEF ToSet
<1>3. ASSUME NEW x \in ToSet(w) PROVE x \in ToSet(s) /\ x # s[1]
  <2>1. PICK i \in DOMAIN w : x = w[i]
    BY <1>2
  <2> QED
    BY <1>1, <1>2, <2>1
<1>4. ASSUME NEW x \in ToSet(s), x # s[1] PROVE x \in ToSet(w)
  <2>1. PICK i \in DOMAIN s : x = s[i]
    BY <1>2
  <2> QED
    BY <1>1, <1>2, <1>4, <2>1
<1> QED
  BY <1>1, <1>2, <1>3, <1>4 DEF w

LEMMA TailOneEach ==
    ASSUME NEW s \in Seq(Rows), s # <<>>, OneEach(s)
    PROVE  OneEach(Tail(s)) /\ \A i, j \in DOMAIN s : s[i] = s[j] => i = j
<1> DEFINE w == Tail(s)
<1>1. /\ w \in Seq(Rows)
      /\ \A i \in DOMAIN w : i + 1 \in DOMAIN s /\ w[i] = s[i + 1]
  BY TailSeq
<1>2. DOMAIN w \subseteq Nat
  BY <1>1
<1> HIDE DEF w
<1>3. OneEach(w)
  BY <1>1, <1>2 DEF OneEach
<1> QED
  BY <1>3 DEF w, OneEach

LEMMA HoldersSame ==
    ASSUME RowsCounted, todo' = todo, tables' = tables, \A t \in Threads : Live(t)' = Live(t)
    PROVE  RowsCounted'
<1>1. Holders' = Holders
  BY HolderFacts, HolderFactsNext
<1>2. Counts' = Counts
  BY DEF Counts
<1>3. CountedOnce(Holders', Counts', HolderKey, todo')
  BY <1>1, <1>2 DEF RowsCounted
<1> QED
  BY <1>3 DEF RowsCounted, CountedOnce, HolderKey

LEMMA StartMergeKeeps == ASSUME TableInv, StartMerge PROVE TableInv'
<1>1. PICK t \in IF used = {} THEN Threads ELSE used : first' = t /\ used' = used \ {t}
  BY DEF StartMerge
<1>2. /\ phase = "build" /\ phase' = "merge" /\ todo = {}
      /\ todo' = todo /\ tables' = tables /\ pending' = pending /\ probe' = probe
  BY DEF StartMerge
<1>3. TypeOK /\ RowsCounted /\ MergeInOrder /\ LookupRight
  BY DEF TableInv
<1>4. t \in Threads /\ used \subseteq Threads
  BY <1>1, <1>3 DEF TypeOK
<1>5. /\ first = Null /\ pending.from = Null /\ pending.entries = <<>>
      /\ \A u \in Threads \ used : tables[u].values = <<>>
  BY <1>2, <1>3 DEF MergeInOrder
<1>6. \A u \in Threads : Live(u) = Entries(tables[u])
  BY <1>5, ChainedTableAssumption DEF Live, Entries, ToSet
<1>7. \A u \in Threads : Live(u)' = Entries(tables[u])
  BY <1>1, <1>2, <1>5, ChainedTableAssumption DEF Live, Entries, ToSet
<1>8. TypeOK'
  BY <1>1, <1>2, <1>3, <1>4 DEF TypeOK
<1>9. RowsCounted'
  BY <1>2, <1>3, <1>6, <1>7, HoldersSame
<1>10. MergeInOrder'
  BY <1>1, <1>2, <1>4, <1>5, ChainedTableAssumption DEF MergeInOrder, OneEach
<1>11. LookupRight'
  BY <1>2, <1>3 DEF LookupRight
<1> QED
  BY <1>8, <1>9, <1>10, <1>11 DEF TableInv

LEMMA NextTableKeeps == ASSUME TableInv, NextTable PROVE TableInv'
<1>1. PICK t \in used : pending' = [from |-> t, entries |-> tables[t].values] /\ used' = used \ {t}
  BY DEF NextTable
<1>2. /\ phase = "merge" /\ pending.entries = <<>>
      /\ todo' = todo /\ tables' = tables /\ first' = first /\ phase' = phase /\ probe' = probe
  BY DEF NextTable
<1>3. TypeOK /\ RowsCounted /\ MergeInOrder /\ LookupRight
  BY DEF TableInv
<1>4. t \in Threads /\ used \subseteq Threads /\ TableOK(tables[t])
  BY <1>1, <1>3 DEF TypeOK
<1>5. tables[t].values \in Seq(Rows) /\ OneEach(tables[t].values)
  BY <1>4 DEF TableOK, Chained
<1>6. pending'.from = t /\ pending'.entries = tables[t].values
  BY <1>1
<1>7. first \in Threads /\ todo = {} /\ first \notin used /\ pending.from \notin used
      /\ (pending.from = first => first = Null)
  BY <1>2, <1>3 DEF MergeInOrder
<1>8. ASSUME NEW u \in Threads PROVE Live(u)' = Live(u)
  <2>1. ToSet(pending.entries) = {}
    BY <1>2 DEF ToSet
  <2>2. Live(u) = IF u = pending.from THEN {} ELSE IF u = first \/ u \in used THEN Entries(tables[u]) ELSE {}
    BY <2>1 DEF Live
  <2>3. Live(u)' = IF u = t THEN Entries(tables[t])
                   ELSE IF u = first \/ u \in used' THEN Entries(tables[u]) ELSE {}
    BY <1>2, <1>6 DEF Live, Entries
  <2>4. pending.from # first
    BY <1>7, ChainedTableAssumption
  <2> QED
    BY <1>1, <1>7, <2>2, <2>3, <2>4
<1>9. TypeOK'
  BY <1>1, <1>2, <1>3, <1>4, <1>5 DEF TypeOK
<1>10. RowsCounted'
  BY <1>2, <1>3, <1>8, HoldersSame
<1>11. MergeInOrder'
  BY <1>1, <1>2, <1>4, <1>5, <1>6, <1>7, ChainedTableAssumption DEF MergeInOrder, OneEach
<1>12. LookupRight'
  BY <1>2, <1>3 DEF LookupRight
<1> QED
  BY <1>9, <1>10, <1>11, <1>12 DEF TableInv

LEMMA MergeEntryKeeps == ASSUME TableInv, MergeEntry PROVE TableInv'
<1> DEFINE e == Head(pending.entries)
           from == pending.from
           F == tables[first]
           U == tables'[first]
           a == tables[from].agg[e]
<1>1. /\ phase = "merge" /\ pending.entries # <<>>
      /\ tables' = [tables EXCEPT ![first] = mergeEntry(@, e, a)]
      /\ pending' = [pending EXCEPT !.entries = Tail(@)]
      /\ todo' = todo /\ used' = used /\ first' = first /\ phase' = phase /\ probe' = probe
  BY DEF MergeEntry
<1>2. TypeOK /\ RowsCounted /\ MergeInOrder /\ LookupRight
  BY DEF TableInv
<1>3. /\ first \in Threads /\ todo = {} /\ first \notin used /\ from \notin used
      /\ (from = first => first = Null) /\ from # Null
      /\ OneEach(pending.entries)
  BY <1>1, <1>2 DEF MergeInOrder
<1>4. /\ from \in Threads /\ from # first /\ pending.entries \in Seq(Rows)
      /\ tables = [u \in Threads |-> tables[u]] /\ \A u \in Threads : TableOK(tables[u])
      /\ pending = [from |-> from, entries |-> pending.entries]
  BY <1>2, <1>3, ChainedTableAssumption DEF TypeOK
<1>5. pending'.from = from /\ pending'.entries = Tail(pending.entries)
  BY <1>1, <1>4
<1>6. /\ e \in ToSet(pending.entries) /\ ToSet(Tail(pending.entries)) = ToSet(pending.entries) \ {e}
      /\ Tail(pending.entries) \in Seq(Rows) /\ e \in Rows /\ OneEach(Tail(pending.entries))
  BY <1>1, <1>3, <1>4, TailSeq, TailSet, TailOneEach
<1> HIDE DEF e, from
<1>7. U = mergeEntry(F, e, a) /\ \A u \in Threads : u # first => tables'[u] = tables[u]
  BY <1>1, <1>3, <1>4
<1>8. tables[from].agg \in [Rows -> [Rows -> Nat]] /\ a \in [Rows -> Nat]
  BY <1>4, <1>6, EntriesIn
<1>9. TableOK(F)
  BY <1>3, <1>4
<1> HIDE DEF a, F, U
<1>10. PICK g \in Rows : KeyOf[g] = KeyOf[e] /\ Absorbs(F, U, g, combine(F.agg[g], a))
  BY <1>6, <1>7, <1>8, <1>9, MergeAbsorbs
<1>11. TableOK(U) /\ Entries(U) = Entries(F) \cup {g} /\ U.agg = [F.agg EXCEPT ![g] = combine(F.agg[g], a)]
  BY <1>10 DEF Absorbs
<1>12. F.agg \in [Rows -> [Rows -> Nat]] /\ (g \notin Entries(F) => F.agg[g] = initial)
  BY <1>9, EntriesIn
<1>13. TypeOK'
  <2>1. \A u \in Threads : TableOK(tables'[u])
    BY <1>4, <1>7, <1>11 DEF U
  <2>2. tables' = [u \in Threads |-> tables'[u]]
    BY <1>1, <1>4
  <2>3. pending' \in [from : Threads \cup {Null}, entries : Seq(Rows)]
    <3> DEFINE ww == Tail(pending.entries)
    <3>1. ww \in Seq(Rows) /\ pending' = [pending EXCEPT !.entries = ww]
      BY <1>1, <1>6
    <3> HIDE DEF ww
    <3>2. pending' = [from |-> from, entries |-> ww]
      BY <1>4, <3>1
    <3> QED
      BY <1>4, <3>1, <3>2
  <2> QED
    BY <1>1, <1>2, <2>1, <2>2, <2>3 DEF TypeOK
<1>14. ASSUME NEW u \in Threads
       PROVE  /\ u = from => Live(u)' = Live(u) \ {e} /\ e \in Live(u)
              /\ u = first => Live(u)' = Live(u) \cup {g} /\ Live(u) = Entries(F)
              /\ u # from /\ u # first => Live(u)' = Live(u)
  <2>1. Live(u) = IF u = from THEN ToSet(pending.entries)
                  ELSE IF u = first \/ u \in used THEN Entries(tables[u]) ELSE {}
    BY DEF Live, from
  <2>2. Live(u)' = IF u = from THEN ToSet(pending.entries) \ {e}
                   ELSE IF u = first \/ u \in used THEN Entries(tables'[u]) ELSE {}
    <3>1. ToSet(pending'.entries) = ToSet(pending.entries) \ {e}
      BY <1>5, <1>6
    <3>2. Live(u)' = IF u = pending'.from THEN ToSet(pending'.entries)
                     ELSE IF u = first' \/ u \in used' THEN Entries(tables'[u]) ELSE {}
      BY DEF Live
    <3>3. pending'.from = from /\ first' = first /\ used' = used
      BY <1>1, <1>5
    <3> QED
      BY <3>1, <3>2, <3>3
  <2> QED
    BY <1>4, <1>6, <1>7, <1>11, <2>1, <2>2 DEF U, F
<1> DEFINE G == <<first, g>>
           E == <<from, e>>
<1>15. Holders' = (Holders \ {E}) \cup {G}
  <2>1. ASSUME NEW u \in Threads, NEW x \in Rows
        PROVE  <<u, x>> \in Holders' <=> <<u, x>> \in (Holders \ {E}) \cup {G}
    <3>1. CASE u = from
      BY <1>4, <1>14, <3>1, HolderFacts, HolderFactsNext
    <3>2. CASE u = first
      BY <1>4, <1>14, <3>2, HolderFacts, HolderFactsNext
    <3>3. CASE u # from /\ u # first
      BY <1>14, <3>3, HolderFacts, HolderFactsNext
    <3> QED
      BY <3>1, <3>2, <3>3
  <2> QED
    BY <1>3, <2>1, HolderFacts, HolderFactsNext
<1>16. \A h \in Holders : h # G => Counts'[h] = Counts[h]
  <2>1. ASSUME NEW u \in Threads, NEW x \in Rows, <<u, x>> # G PROVE tables'[u].agg[x] = tables[u].agg[x]
    BY <1>7, <1>11, <1>12, <2>1 DEF U, F
  <2> QED
    BY <2>1, HolderFacts, HolderFactsNext
<1>17. \A x \in Rows : G \notin Holders => Counts[G][x] = 0
  BY <1>3, <1>12, <1>14, HolderFacts DEF initial, F
<1>18. \A x \in Rows : Counts'[G][x] = Counts[G][x] + Counts[E][x]
  <2>1. Counts'[G] = U.agg[g] /\ Counts[G] = F.agg[g] /\ Counts[E] = a
    BY <1>3, <1>4, <1>6, HolderFacts, HolderFactsNext DEF U, F, a
  <2>2. U.agg[g] = combine(F.agg[g], a)
    BY <1>11, <1>12
  <2> QED
    BY <2>1, <2>2 DEF combine
<1>19. HolderKey[G] = HolderKey[E] /\ E \in Holders /\ G # E
  BY <1>3, <1>4, <1>6, <1>10, <1>14, HolderFacts
<1>20. CountedOnce(Holders, Counts, HolderKey, todo)
  BY <1>2 DEF RowsCounted
<1> HIDE DEF G, E
<1>21. CountedOnce((Holders \ {E}) \cup {G}, Counts', HolderKey, todo)
  BY <1>16, <1>17, <1>18, <1>19, <1>20, CountMerge
<1>22. RowsCounted'
  <2>1. CountedOnce(Holders', Counts', HolderKey, todo')
    BY <1>1, <1>15, <1>21
  <2> QED
    BY <2>1 DEF RowsCounted, CountedOnce, HolderKey
<1>23. MergeInOrder'
  BY <1>1, <1>3, <1>4, <1>5, <1>6 DEF MergeInOrder, OneEach
<1>24. LookupRight'
  BY <1>1, <1>2 DEF LookupRight
<1> QED
  BY <1>13, <1>22, <1>23, <1>24 DEF TableInv

(* At the end of the merge the first table counts every row *)
LEMMA MergedCounts ==
    ASSUME TableInv, phase # "build", used = {}, pending.entries = <<>>
    PROVE  /\ first \in Threads /\ TableOK(tables[first])
           /\ CountedOnce(Entries(tables[first]), tables[first].agg, KeyOf, {})
<1> DEFINE F == tables[first]
           X == Entries(F)
<1>1. TypeOK /\ RowsCounted /\ MergeInOrder
  BY DEF TableInv
<1>2. first \in Threads /\ pending.from # first /\ todo = {}
  BY <1>1, ChainedTableAssumption DEF MergeInOrder
<1>3. TableOK(F)
  BY <1>1, <1>2 DEF TypeOK
<1>4. X \subseteq Rows
  BY <1>3, EntriesIn
<1>5. ASSUME NEW t \in Threads PROVE Live(t) = IF t = first THEN X ELSE {}
  <2>1. ToSet(pending.entries) = {}
    BY DEF ToSet
  <2>2. Live(t) = IF t = pending.from THEN {} ELSE IF t = first THEN Entries(tables[t]) ELSE {}
    BY <2>1 DEF Live
  <2> QED
    BY <1>2, <2>2
<1>6. ASSUME NEW t \in Threads, NEW e \in Rows PROVE <<t, e>> \in Holders <=> t = first /\ e \in X
  <2> HIDE DEF X, F
  <2>1. Live(t) = IF t = first THEN X ELSE {}
    BY <1>5
  <2>2. <<t, e>> \in Holders <=> e \in Live(t)
    BY HolderFacts
  <2> QED
    BY <2>1, <2>2
<1>7. /\ \A h \in Holders : \E e \in X : h = <<first, e>>
      /\ \A e \in X : /\ <<first, e>> \in Holders /\ Counts[<<first, e>>] = F.agg[e]
                      /\ HolderKey[<<first, e>>] = KeyOf[e]
  BY <1>2, <1>4, <1>6, HolderFacts
<1>8. /\ \A h \in Holders : \A x \in Rows :
            Counts[h][x] = 0 \/ (Counts[h][x] = 1 /\ KeyOf[x] = HolderKey[h])
      /\ \A x \in Rows : \E h \in Holders : Counts[h][x] = 1
      /\ \A g, h \in Holders : \A x \in Rows : Counts[g][x] = 1 /\ Counts[h][x] = 1 => g = h
  BY <1>1, <1>2 DEF RowsCounted, CountedOnce
<1> HIDE DEF F, X
<1>9. ASSUME NEW e \in X, NEW x \in Rows
      PROVE  F.agg[e][x] = 0 \/ (F.agg[e][x] = 1 /\ KeyOf[x] = KeyOf[e])
  <2> DEFINE h == <<first, e>>
  <2>1. h \in Holders /\ Counts[h] = F.agg[e] /\ HolderKey[h] = KeyOf[e]
    BY <1>7
  <2> HIDE DEF h
  <2> QED
    BY <1>8, <2>1
<1>10. ASSUME NEW x \in Rows PROVE \E e \in X : F.agg[e][x] = 1
  <2>1. PICK h \in Holders : Counts[h][x] = 1
    BY <1>8
  <2>2. PICK e \in X : h = <<first, e>>
    BY <1>7
  <2> QED
    BY <1>7, <2>1, <2>2
<1>11. ASSUME NEW d \in X, NEW e \in X, NEW x \in Rows, F.agg[d][x] = 1, F.agg[e][x] = 1 PROVE d = e
  <2> DEFINE g == <<first, d>>
             h == <<first, e>>
  <2>1. g \in Holders /\ h \in Holders /\ Counts[g] = F.agg[d] /\ Counts[h] = F.agg[e]
    BY <1>7
  <2>2. g = h
    <3> HIDE DEF g, h
    <3> QED
      BY <1>8, <1>11, <2>1
  <2> QED
    BY <2>2
<1>12. CountedOnce(X, F.agg, KeyOf, {})
  BY <1>9, <1>10, <1>11 DEF CountedOnce
<1> QED
  BY <1>2, <1>3, <1>12 DEF F, X

LEMMA MergedGroups ==
    ASSUME TableInv, phase # "build", used = {}, pending.entries = <<>>
    PROVE  /\ {<<KeyOf[e], tables[first].agg[e]>> : e \in Entries(tables[first])}
                = {<<KeyOf[r], [x \in Rows |-> IF KeyOf[x] = KeyOf[r] THEN 1 ELSE 0]>> : r \in Rows}
           /\ \A r \in Rows : \E e \in Entries(tables[first]) : KeyOf[e] = KeyOf[r]
<1> DEFINE F == tables[first]
           X == Entries(F)
           A == F.agg
<1>1. TableOK(F) /\ CountedOnce(X, A, KeyOf, {})
  BY MergedCounts
<1>2. X \subseteq Rows /\ X = {F.values[i] : i \in DOMAIN F.values} /\ A \in [Rows -> [Rows -> Nat]]
  BY <1>1, EntriesIn
<1>3. \A d, e \in X : KeyOf[d] = KeyOf[e] => d = e
  <2>1. OneEach(F.values)
    BY <1>1 DEF TableOK, Chained
  <2> HIDE DEF F, X, A
  <2> QED
    BY <1>2, <2>1 DEF OneEach
<1>4. \A e \in X : A[e] \in [Rows -> Nat] /\ \E r \in Rows : KeyOf[r] = KeyOf[e]
  BY <1>2
<1> HIDE DEF F, X, A
<1>5. {<<KeyOf[e], A[e]>> : e \in X}
        = {<<KeyOf[r], [x \in Rows |-> IF KeyOf[x] = KeyOf[r] THEN 1 ELSE 0]>> : r \in Rows}
  BY <1>1, <1>3, <1>4, CountedGroups
<1>6. \A r \in Rows : \E e \in X : KeyOf[e] = KeyOf[r]
  BY <1>1 DEF CountedOnce
<1> QED
  BY <1>5, <1>6 DEF F, X, A

LEMMA EndMergeKeeps == ASSUME TableInv, EndMerge PROVE TableInv'
<1>1. /\ phase = "merge" /\ pending.entries = <<>> /\ used = {} /\ phase' = "done"
      /\ todo' = todo /\ tables' = tables /\ used' = used /\ first' = first /\ pending' = pending /\ probe' = probe
  BY DEF EndMerge
<1>2. TypeOK /\ RowsCounted /\ MergeInOrder /\ LookupRight
  BY DEF TableInv
<1>3. TypeOK' /\ MergeInOrder' /\ LookupRight'
  BY <1>1, <1>2 DEF TypeOK, MergeInOrder, LookupRight
<1>4. \A t \in Threads : Live(t)' = Live(t)
  BY <1>1 DEF Live
<1> QED
  BY <1>1, <1>2, <1>3, <1>4, HoldersSame DEF TableInv

LEMMA LookupKeeps == ASSUME TableInv, NEW k \in Keys, Lookup(k) PROVE TableInv'
<1>1. /\ phase = "done" /\ probe' = [key |-> k, entry |-> lookup(tables[first], k)]
      /\ todo' = todo /\ tables' = tables /\ used' = used /\ first' = first /\ pending' = pending /\ phase' = phase
  BY DEF Lookup
<1>2. TypeOK /\ RowsCounted /\ MergeInOrder /\ LookupRight
  BY DEF TableInv
<1>3. TypeOK' /\ MergeInOrder'
  BY <1>1, <1>2 DEF TypeOK, MergeInOrder
<1>4. \A t \in Threads : Live(t)' = Live(t)
  BY <1>1 DEF Live
<1>5. LookupRight'
  <2> DEFINE F == tables[first]
             p == lookup(F, k)
  <2>1. used = {} /\ pending.entries = <<>> /\ phase # "build"
    BY <1>1, <1>2 DEF MergeInOrder
  <2>2. TableOK(F) /\ \A r \in Rows : \E e \in Entries(F) : KeyOf[e] = KeyOf[r]
    BY <2>1, MergedCounts, MergedGroups
  <2>3. FoundIn(F.values, k, p)
    BY <2>2, LookupFinds
  <2>4. Entries(F) = {F.values[i] : i \in DOMAIN F.values} /\ Entries(F) \subseteq Rows
    BY <2>2, EntriesIn
  <2> HIDE DEF F, p
  <2>5. CASE \E r \in Rows : KeyOf[r] = k
    <3>1. \E i \in DOMAIN F.values : KeyOf[F.values[i]] = k
      BY <2>2, <2>4, <2>5
    <3>2. p # Null /\ KeyOf[p] = k
      BY <2>3, <2>4, <3>1, ChainedTableAssumption DEF FoundIn
    <3> QED
      BY <1>1, <2>5, <3>2 DEF LookupRight, p, F
  <2>6. CASE ~\E r \in Rows : KeyOf[r] = k
    <3>1. p = Null
      BY <2>3, <2>4, <2>6 DEF FoundIn
    <3> QED
      BY <1>1, <2>6, <3>1 DEF LookupRight, p, F
  <2> QED
    BY <2>5, <2>6
<1> QED
  BY <1>1, <1>2, <1>3, <1>4, <1>5, HoldersSame DEF TableInv

LEMMA TableInvStep == TableInv /\ [Next]_vars => TableInv'
<1> SUFFICES ASSUME TableInv, [Next]_vars PROVE TableInv'
  OBVIOUS
<1>1. CASE \E t \in Threads : Consume(t)
  BY <1>1, ConsumeKeeps
<1>2. CASE StartMerge
  BY <1>2, StartMergeKeeps
<1>3. CASE NextTable
  BY <1>3, NextTableKeeps
<1>4. CASE MergeEntry
  BY <1>4, MergeEntryKeeps
<1>5. CASE EndMerge
  BY <1>5, EndMergeKeeps
<1>6. CASE \E k \in Keys : Lookup(k)
  BY <1>6, LookupKeeps
<1>7. CASE UNCHANGED vars
  <2>1. /\ todo' = todo /\ tables' = tables /\ used' = used /\ first' = first /\ pending' = pending
        /\ phase' = phase /\ probe' = probe
    BY <1>7 DEF vars
  <2>2. TypeOK' /\ MergeInOrder' /\ LookupRight' /\ RowsCounted
    BY <2>1 DEF TableInv, TypeOK, MergeInOrder, LookupRight
  <2>3. \A t \in Threads : Live(t)' = Live(t)
    BY <2>1 DEF Live
  <2> QED
    BY <2>1, <2>2, <2>3, HoldersSame DEF TableInv
<1> QED
  BY <1>1, <1>2, <1>3, <1>4, <1>5, <1>6, <1>7 DEF Next

(* Every entry is found again *)
LEMMA TableInvFindable == TableInv => EntriesFindable
<1> SUFFICES ASSUME TableInv, NEW t \in Threads, NEW e \in Entries(tables[t])
             PROVE  lookup(tables[t], KeyOf[e]) = e
  BY DEF EntriesFindable
<1> DEFINE T == tables[t]
<1>1. TableOK(T)
  BY DEF TableInv, TypeOK
<1>2. e \in Rows /\ e \in {T.values[i] : i \in DOMAIN T.values}
  BY <1>1, EntriesIn
<1>3. FoundIn(T.values, KeyOf[e], lookup(T, KeyOf[e]))
  BY <1>1, <1>2, LookupFinds, Hashes
<1>4. OneEach(T.values)
  BY <1>1 DEF TableOK, Chained
<1> HIDE DEF T
<1>5. lookup(T, KeyOf[e]) = e
  BY <1>2, <1>3, <1>4 DEF FoundIn, OneEach
<1> QED
  BY <1>5 DEF T

(* The steps of Hashtable are steps of GroupBy *)
LEMMA GroupByStep == TableInv /\ [Next]_vars => [Abstract!Next]_(Abstract!vars)
<1> SUFFICES ASSUME TableInv, [Next]_vars PROVE [Abstract!Next]_(Abstract!vars)
  OBVIOUS
<1> DEFINE groups == IF phase = "done"
                     THEN {<<KeyOf[e], tables[first].agg[e]>> : e \in Entries(tables[first])}
                     ELSE Null
<1>1. CASE \E t \in Threads : Consume(t)
  <2>1. phase = "build" /\ phase' = "build" /\ \E r \in todo : todo' = todo \ {r}
    BY <1>1 DEF Consume
  <2> QED
    BY <2>1 DEF Abstract!Next, Abstract!Consume
<1>2. CASE StartMerge \/ NextTable \/ MergeEntry
  <2>1. phase # "done" /\ phase' # "done" /\ todo' = todo
    BY <1>2 DEF StartMerge, NextTable, MergeEntry
  <2> QED
    BY <2>1 DEF Abstract!vars
<1>3. CASE EndMerge
  <2>1. /\ phase = "merge" /\ phase' = "done" /\ used = {} /\ pending.entries = <<>>
        /\ todo' = todo /\ tables' = tables /\ first' = first
    BY <1>3 DEF EndMerge
  <2>2. todo = {}
    BY <2>1 DEF TableInv, MergeInOrder
  <2>3. {<<KeyOf[e], tables[first].agg[e]>> : e \in Entries(tables[first])}
          = {<<KeyOf[r], [x \in Rows |-> IF KeyOf[x] = KeyOf[r] THEN 1 ELSE 0]>> : r \in Rows}
    BY <2>1, MergedGroups
  <2>4. groups = Null /\ groups' = {<<KeyOf[e], tables[first].agg[e]>> : e \in Entries(tables[first])}
    BY <2>1
  <2>5. Abstract!Finish
    BY <2>1, <2>2, <2>3, <2>4 DEF Abstract!Finish, Abstract!Aggregate
  <2> QED
    BY <2>5 DEF Abstract!Next
<1>4. CASE (\E k \in Keys : Lookup(k)) \/ UNCHANGED vars
  <2>1. phase' = phase /\ todo' = todo /\ tables' = tables /\ first' = first
    BY <1>4 DEF Lookup, vars
  <2> QED
    BY <2>1 DEF Abstract!vars
<1> QED
  BY <1>1, <1>2, <1>3, <1>4 DEF Next

-----------------------------------------------------------------------------
(* PreAggregationHashtable *)

(* nextPow2: a power of two from v on, below 2 v *)
LEMMA NextPow2 == ASSUME NEW v \in Nat PROVE P!nextPow2(v) \in Nat
<1> DEFINE Body(f, n) == [i \in 0 .. n |-> IF i = 0 THEN 1 ELSE 2 * f[i - 1]]
<1>1. \A n \in Nat : \E f : f = Body(f, n)
  <2> DEFINE Bad == {n \in Nat : ~\E f : f = Body(f, n)}
  <2>1. SUFFICES ASSUME Bad # {} PROVE FALSE
    OBVIOUS
  <2>2. PICK b \in Bad : \A n \in Bad : b <= n
    BY <2>1, LeastNat
  <2>3. CASE b = 0
    <3> DEFINE g == [i \in 0 .. 0 |-> 1]
    <3>1. g = Body(g, 0)
      OBVIOUS
    <3> QED
      BY <2>2, <2>3, <3>1
  <2>4. CASE b # 0
    <3>0. b \in Nat /\ b - 1 \in Nat /\ b - 1 < b
      BY <2>4
    <3>a. b - 1 \notin Bad
      <4> HIDE DEF Bad
      <4> QED
        BY <2>2, <3>0
    <3>b. \E f : f = Body(f, b - 1)
      BY <3>0, <3>a
    <3>1. PICK f : f = Body(f, b - 1)
      BY <3>b
    <3> DEFINE g == [i \in 0 .. b |-> IF i = b THEN 2 * f[b - 1] ELSE f[i]]
    <3>2. ASSUME NEW i \in 0 .. b PROVE g[i] = IF i = 0 THEN 1 ELSE 2 * g[i - 1]
      <4>1. CASE i = b
        <5>1. b - 1 \in 0 .. b /\ b - 1 # b /\ g[b - 1] = f[b - 1]
          BY <3>0
        <5> QED
          BY <2>4, <4>1, <5>1
      <4>2. CASE i # b
        <5>1. i \in 0 .. b - 1 /\ g[i] = f[i]
          BY <3>0, <4>2
        <5>2. f[i] = IF i = 0 THEN 1 ELSE 2 * f[i - 1]
          BY <3>1, <5>1
        <5>3. i # 0 => i - 1 \in 0 .. b /\ i - 1 # b /\ g[i - 1] = f[i - 1]
          BY <3>0, <5>1
        <5> QED
          BY <5>1, <5>2, <5>3
      <4> QED
        BY <4>1, <4>2
    <3>3. g = [i \in 0 .. b |-> g[i]]
      OBVIOUS
    <3> HIDE DEF g
    <3>4. g = Body(g, b)
      BY <3>2, <3>3
    <3> QED
      BY <2>2, <3>4
  <2> QED
    BY <2>3, <2>4
<1> DEFINE f == CHOOSE f : f = Body(f, v)
<1>2. f = Body(f, v)
  <2> HIDE DEF Body
  <2> QED
    BY <1>1
<1>3. P!nextPow2(v) = IF v = 0 THEN 0 ELSE CHOOSE p \in {f[i] : i \in 0 .. v} : v <= p /\ 2 * v > p
  BY DEF P!nextPow2
<1> HIDE DEF f
<1>4. f[0] = 1 /\ \A i \in 1 .. v : f[i] = 2 * f[i - 1]
  BY <1>2
<1>5. \A i \in 0 .. v : f[i] \in Nat /\ f[i] > i
  <2> DEFINE Bad == {i \in 0 .. v : ~(f[i] \in Nat /\ f[i] > i)}
  <2>1. SUFFICES ASSUME Bad # {} PROVE FALSE
    OBVIOUS
  <2>2. Bad \subseteq Nat
    OBVIOUS
  <2>3. PICK b \in Bad : \A n \in Bad : b <= n
    BY <2>1, <2>2, LeastNat
  <2>4. b \in 0 .. v /\ b # 0
    BY <1>4
  <2>5. b - 1 \in 0 .. v /\ ~(b <= b - 1)
    BY <2>4
  <2>6. b - 1 \notin Bad
    <3> HIDE DEF Bad
    <3> QED
      BY <2>3, <2>5
  <2>7. f[b - 1] \in Nat /\ f[b - 1] > b - 1
    BY <2>5, <2>6
  <2>8. b \in 1 .. v /\ f[b] = 2 * f[b - 1]
    BY <1>4, <2>4
  <2> QED
    BY <2>4, <2>7, <2>8
<1>6. CASE v # 0
  <2> DEFINE S == {i \in 0 .. v : v <= f[i]}
  <2>1. v \in S /\ S \subseteq Nat
    BY <1>5
  <2>2. PICK j \in S : \A i \in S : j <= i
    BY <2>1, LeastNat
  <2>3. j \in 0 .. v /\ v <= f[j] /\ f[j] \in Nat
    BY <1>5
  <2>4. 2 * v > f[j]
    <3>1. CASE j = 0
      BY <1>4, <1>6, <2>3, <3>1
    <3>2. CASE j # 0
      <4>1. j - 1 \in 0 .. v /\ j \in 1 .. v /\ ~(j <= j - 1)
        BY <2>3, <3>2
      <4>2. j - 1 \notin S
        <5> HIDE DEF S
        <5> QED
          BY <2>2, <4>1
      <4>3. f[j - 1] < v /\ f[j - 1] \in Nat
        BY <1>5, <4>1, <4>2
      <4>4. f[j] = 2 * f[j - 1]
        BY <1>4, <4>1
      <4> QED
        BY <4>3, <4>4
    <3> QED
      BY <3>1, <3>2
  <2>5. \E p \in {f[i] : i \in 0 .. v} : v <= p /\ 2 * v > p
    BY <2>3, <2>4
  <2>6. P!nextPow2(v) \in {f[i] : i \in 0 .. v}
    BY <1>3, <1>6, <2>5
  <2> QED
    BY <1>5, <2>6
<1> QED
  BY <1>3, <1>6

LEMMA TableSizePositive == ASSUME NEW n \in Nat PROVE P!htSize(n) \in Nat \ {0}
<1>1. (n * 5) \div 4 \in Nat
  OBVIOUS
<1>2. P!nextPow2((n * 5) \div 4) \in Nat
  BY <1>1, NextPow2
<1> QED
  BY <1>2 DEF P!htSize, P!larger

LEMMA PartitionHashes ==
    /\ numOutputs \in Nat \ {0} /\ hashtableSize \in Nat \ {0}
    /\ \A k \in Keys : PartitionHash[k] \in Nat
    /\ \A h \in Nat : P!shifted(h) \in Nat /\ P!partition(h) \in P!Partitions /\ P!cacheSlot(h) \in 0 .. hashtableSize - 1
    /\ \A e \in Rows : KeyOf[e] \in Keys /\ P!hashValue(e) = PartitionHash[KeyOf[e]] /\ P!hashValue(e) \in Nat
    /\ \A m \in Nat \ {0} : P!bucketOf(m) \in [Rows -> 0 .. m - 1]
<1>1. numOutputs \in Nat \ {0} /\ hashtableSize \in Nat \ {0}
  BY ChainedTableAssumption
<1>2. \A k \in Keys : PartitionHash[k] \in Nat
  BY PartitionAssumption
<1>3. ASSUME NEW h \in Nat
      PROVE  P!shifted(h) \in Nat /\ P!partition(h) \in P!Partitions /\ P!cacheSlot(h) \in 0 .. hashtableSize - 1
  <2>1. h \div numOutputs \in Nat
    BY <1>1
  <2> QED
    BY <1>1, <2>1, Remainder DEF P!shifted, P!partition, P!Partitions, P!cacheSlot
<1>4. \A e \in Rows : KeyOf[e] \in Keys /\ P!hashValue(e) = PartitionHash[KeyOf[e]] /\ P!hashValue(e) \in Nat
  BY <1>2, ChainedTableAssumption DEF P!hashValue
<1>5. ASSUME NEW m \in Nat \ {0} PROVE P!bucketOf(m) \in [Rows -> 0 .. m - 1]
  <2>1. \A e \in Rows : P!shifted(P!hashValue(e)) % m \in 0 .. m - 1
    BY <1>3, <1>4, Remainder
  <2> QED
    BY <2>1 DEF P!bucketOf
<1> QED
  BY <1>1, <1>2, <1>3, <1>4, <1>5

IsPart(T) == T = [slots |-> T.slots, next |-> T.next, local |-> T.local, task |-> T.task]

PartFields(W, a, b, c, d) == IsPart(W) /\ W.slots = a /\ W.next = b /\ W.local = c /\ W.task = d

LEMMA PartRecord ==
    ASSUME NEW a, NEW b, NEW c, NEW d, NEW W, W = [slots |-> a, next |-> b, local |-> c, task |-> d]
    PROVE  PartFields(W, a, b, c, d)
BY DEF IsPart, PartFields

partTags == [e \in Rows |-> PartitionTag[P!hashValue(e)]]

(* PartOK in the terms of these lemmas *)
PartChains(T) ==
    /\ T.local \in Seq(Rows) /\ OneEach(T.local) /\ Rest(T, T.local)
    /\ P!tableSize(T) \in Nat \ {0}
    /\ Shape(T.slots, T.next, T.local, Len(T.local), P!tableSize(T), P!bucketOf(P!tableSize(T)), partTags)

LEMMA PartParts ==
    ASSUME NEW T
    PROVE  P!PartOK(T) <=> /\ IsPart(T) /\ T.task \in {"waiting", "running", "merged"}
                           /\ T.task = "waiting" => T.local = <<>>
                           /\ T.task # "waiting" => PartChains(T)
<1> DEFINE n == P!tableSize(T)
           v == T.local
<1>1. ASSUME v \in Seq(Rows), NEW at
      PROVE  P!Linked(T, v, Len(v), at) <=> LinkedWith(T.slots, T.next, v, Len(v), at, partTags)
  <2>1. \A i \in 1 .. Len(v) : partTags[v[i]] = PartitionTag[P!hashValue(v[i])]
    BY <1>1 DEF partTags
  <2>2. \A p, w, l, s : P!Latest(p, w, l, at, s) <=> Latest(p, w, l, at, s)
    BY DEF P!Latest, Latest
  <2> QED
    BY <2>1, <2>2 DEF P!Linked, LinkedWith
<1>2. ASSUME n \in Nat \ {0}, T.slots = [s \in 0 .. n - 1 |-> T.slots[s]], P!Chained(T, v, P!bucketOf(n))
      PROVE  PartChains(T)
  <2>1. /\ v \in Seq(Rows) /\ OneEach(v) /\ Rest(T, v) /\ T.next \in [Rows -> Rows \cup {Null}]
        /\ P!Linked(T, v, Len(v), P!bucketOf(n))
    BY <1>2 DEF P!Chained, P!OneEach, OneEach, Rest
  <2>2. LinkedWith(T.slots, T.next, v, Len(v), P!bucketOf(n), partTags)
    BY <1>1, <2>1
  <2> QED
    BY <1>2, <2>1, <2>2 DEF PartChains, Shape
<1>3. ASSUME PartChains(T)
      PROVE  n \in Nat \ {0} /\ T.slots = [s \in 0 .. n - 1 |-> T.slots[s]] /\ P!Chained(T, v, P!bucketOf(n))
  <2>1. /\ v \in Seq(Rows) /\ OneEach(v) /\ Rest(T, v) /\ T.next \in [Rows -> Rows \cup {Null}]
        /\ n \in Nat \ {0} /\ T.slots = [s \in 0 .. n - 1 |-> T.slots[s]]
        /\ LinkedWith(T.slots, T.next, v, Len(v), P!bucketOf(n), partTags)
    BY <1>3 DEF PartChains, Shape
  <2>2. P!Linked(T, v, Len(v), P!bucketOf(n))
    BY <1>1, <2>1
  <2> QED
    BY <2>1, <2>2 DEF P!Chained, P!OneEach, OneEach, Rest
<1>4. P!PartOK(T) <=> /\ IsPart(T) /\ T.task \in {"waiting", "running", "merged"}
                      /\ T.task = "waiting" => T.local = <<>>
                      /\ T.task # "waiting" => /\ n \in Nat \ {0}
                                               /\ T.slots = [s \in 0 .. n - 1 |-> T.slots[s]]
                                               /\ P!Chained(T, v, P!bucketOf(n))
  BY Zenon DEF P!PartOK, IsPart
<1> QED
  BY <1>2, <1>3, <1>4

LEMMA SameCardinality == ASSUME NEW S PROVE P!Cardinality(S) = Cardinality(S)
BY DEF P!Cardinality, Cardinality

LEMMA PartSizeIs ==
    ASSUME NEW T, NEW m \in Nat, T.slots = [s \in 0 .. m - 1 |-> T.slots[s]]
    PROVE  P!tableSize(T) = m
<1>1. DOMAIN T.slots = 0 .. m - 1
  OBVIOUS
<1> QED
  BY <1>1, IntervalSize, SameCardinality DEF P!tableSize

(* A lookup in a partition's table *)
LEMMA PartFinds ==
    ASSUME NEW T, PartChains(T), NEW k \in Keys, NEW b, b = P!bucket(T, PartitionHash[k])
    PROVE  /\ FoundIn(T.local, k, P!find(T.next, P!untag(T.slots[b]), k))
           /\ FoundIn(T.local, k, P!find(T.next, P!filterTagged(T.slots[b], PartitionHash[k]), k))
<1> DEFINE v == T.local
           m == P!tableSize(T)
           at == P!bucketOf(m)
           sl == T.slots
           nx == T.next
           tk == PartitionTag[PartitionHash[k]]
<1>1. /\ v \in Seq(Rows) /\ m \in Nat \ {0} /\ Shape(sl, nx, v, Len(v), m, at, partTags)
      /\ PartitionHash[k] \in Nat
  BY PartitionHashes DEF PartChains
<1>2. Chains(nx, v, at)
  <2>1. OneEach(v) /\ Rest(T, v) /\ nx \in [Rows -> Rows \cup {Null}]
        /\ LinkedWith(sl, nx, v, Len(v), at, partTags)
    BY DEF PartChains, Shape
  <2>2. \A e \in Rows : (\A i \in DOMAIN v : v[i] # e) => nx[e] = Null
    BY <2>1 DEF Rest
  <2>3. DOMAIN v = 1 .. Len(v)
    BY <1>1
  <2> HIDE DEF v, nx, sl, at
  <2>4. \A i \in DOMAIN v : Latest(nx[v[i]], v, i - 1, at, at[v[i]])
    BY <2>1, <2>3 DEF LinkedWith
  <2> QED
    BY <1>1, <2>1, <2>2, <2>4 DEF Chains
<1>3. b \in 0 .. m - 1 /\ b = P!shifted(PartitionHash[k]) % m
  BY <1>1, Remainder, PartitionHashes DEF P!bucket
<1>4. \A i \in DOMAIN v : KeyOf[v[i]] = k => at[v[i]] = b /\ partTags[v[i]] = tk
  BY <1>1, <1>3 DEF P!bucketOf, partTags, P!hashValue
<1>5. ASSUME NEW x, x = sl[b].ptr \/ (x = Null /\ ~(tk \subseteq sl[b].tag))
      PROVE  FoundIn(v, k, Walk(nx, k)[x])
  <2>1. m \in Nat /\ Hashed(v, k, at, b, partTags, tk) /\ Starts(sl, b, tk, x)
    BY <1>1, <1>4, <1>5 DEF Hashed, Starts
  <2> HIDE DEF sl, nx, v, m, at, tk
  <2> QED
    BY <1>1, <1>2, <1>3, <2>1, ShapeFinds
<1>6. P!find(T.next, P!untag(T.slots[b]), k) = Walk(nx, k)[sl[b].ptr]
  BY FindWalks DEF P!untag
<1>7. P!find(T.next, P!filterTagged(T.slots[b], PartitionHash[k]), k)
        = Walk(nx, k)[IF tk \subseteq sl[b].tag THEN sl[b].ptr ELSE Null]
  BY FindWalks DEF P!filterTagged
<1> HIDE DEF sl, nx, tk
<1> QED
  BY <1>5, <1>6, <1>7

(* The table of a partition's task at its start *)
LEMMA PartStart ==
    ASSUME NEW m \in Nat \ {0}, NEW T,
           T = [slots |-> P!zeroed(m), next |-> P!NoNext, local |-> <<>>, task |-> "running"]
    PROVE  PartChains(T) /\ IsPart(T) /\ T.local = <<>> /\ T.task = "running"
<1>1. PartFields(T, P!zeroed(m), P!NoNext, <<>>, "running")
  BY PartRecord
<1>2. T.slots = [s \in 0 .. m - 1 |-> NullPtr] /\ T.next = [e \in Rows |-> Null]
      /\ T.local = <<>> /\ T.task = "running" /\ IsPart(T)
  BY <1>1 DEF PartFields, P!zeroed, P!NullPtr, NullPtr, P!NoNext
<1>3. T.next \in [Rows -> Rows \cup {Null}] /\ Len(T.local) = 0
  BY <1>2
<1>4. P!tableSize(T) = m
  BY <1>2, PartSizeIs
<1>5. Shape(T.slots, T.next, T.local, Len(T.local), P!tableSize(T), P!bucketOf(P!tableSize(T)), partTags)
  BY <1>2, <1>3, <1>4, EmptyShape
<1>6. Rest(T, T.local) /\ OneEach(T.local) /\ T.local \in Seq(Rows)
  BY <1>2 DEF Rest, OneEach
<1> QED
  BY <1>2, <1>4, <1>5, <1>6 DEF PartChains

(* An entry put in front of a chain and appended to the local buffer *)
Grown(T, e, U) == PartChains(U) /\ IsPart(U) /\ U.task = T.task /\ U.local = Append(T.local, e)

LEMMA PartAppend ==
    ASSUME NEW T, PartChains(T), IsPart(T), NEW e \in Rows,
           \A i \in DOMAIN T.local : KeyOf[T.local[i]] # KeyOf[e],
           NEW b, b = P!bucket(T, P!hashValue(e)),
           NEW U, U = [P!push(T, b, e) EXCEPT !.local = Append(@, e)]
    PROVE  Grown(T, e, U)
<1> DEFINE v == T.local
           N == Len(v)
           w == Append(v, e)
           m == P!tableSize(T)
           at == P!bucketOf(m)
           sl == T.slots
           nx == T.next
           sl2 == [sl EXCEPT ![b] = [ptr |-> e, tag |-> sl[b].tag \cup PartitionTag[P!hashValue(e)]]]
           nx2 == [nx EXCEPT ![e] = sl[b].ptr]
<1>1. /\ v \in Seq(Rows) /\ OneEach(v) /\ m \in Nat \ {0} /\ Rest(T, v)
      /\ Shape(sl, nx, v, N, m, at, partTags)
  BY DEF PartChains
<1>2. /\ w \in Seq(Rows) /\ Len(w) = N + 1 /\ DOMAIN v = 1 .. N /\ N \in Nat
      /\ DOMAIN w = 1 .. N + 1 /\ w[N + 1] = e
      /\ \A i \in 1 .. N : w[i] = v[i] /\ v[i] \in Rows
  BY <1>1, AppendSeq
<1>3. at \in [Rows -> 0 .. m - 1] /\ b = at[e] /\ b \in 0 .. m - 1
  <2>1. at \in [Rows -> 0 .. m - 1]
    BY <1>1, PartitionHashes
  <2>2. b = at[e]
    BY DEF P!bucket, P!bucketOf
  <2> QED
    BY <2>1, <2>2
<1>4. PartFields(U, sl2, nx2, w, T.task)
  <2>1. P!push(T, b, e) = [T EXCEPT !.slots = sl2, !.next = nx2]
    BY DEF P!push, P!tag, P!untag
  <2> HIDE DEF sl2, nx2, w
  <2>2. P!push(T, b, e) = [slots |-> sl2, next |-> nx2, local |-> T.local, task |-> T.task]
    BY <2>1 DEF IsPart
  <2> DEFINE V == P!push(T, b, e)
  <2>3. PartFields(V, sl2, nx2, T.local, T.task)
    BY <2>2, PartRecord
  <2>4. U = [V EXCEPT !.local = w]
    BY <2>3 DEF PartFields, w, v
  <2> HIDE DEF V
  <2>5. U = [slots |-> sl2, next |-> nx2, local |-> w, task |-> T.task]
    BY <2>3, <2>4 DEF PartFields, IsPart
  <2> QED
    BY <2>5, PartRecord
<1>5. U.slots = sl2 /\ U.next = nx2 /\ U.local = w /\ U.task = T.task /\ IsPart(U)
  BY <1>4 DEF PartFields
<1>6. Shape(sl2, nx2, w, N + 1, m, at, partTags)
  <2>1. \A i \in 1 .. N : v[i] = w[i]
    BY <1>2
  <2>2. \A i \in 1 .. N + 1 : w[i] \in Rows
    BY <1>2
  <2>3. \A i \in 1 .. N : w[i] # w[N + 1]
    BY <1>2
  <2>4. /\ sl2 = [sl EXCEPT ![at[w[N + 1]]] = [ptr |-> w[N + 1], tag |-> sl[at[w[N + 1]]].tag \cup partTags[w[N + 1]]]]
        /\ nx2 = [nx EXCEPT ![w[N + 1]] = sl[at[w[N + 1]]].ptr]
    BY <1>2, <1>3 DEF partTags
  <2>5. N \in Nat /\ m \in Nat /\ at \in [Rows -> 0 .. m - 1]
    BY <1>1, <1>2, <1>3
  <2> HIDE DEF sl2, nx2, sl, nx, m, at, w, N, v
  <2>6. Shape(sl, nx, w, N, m, at, partTags)
    BY <1>1, <2>1, <2>5, ShapeSame
  <2> QED
    BY <2>2, <2>3, <2>4, <2>5, <2>6, PushShape
<1> HIDE DEF w, v, sl2, nx2, m, N
<1>7. P!tableSize(U) = m
  <2>1. m \in Nat
    BY <1>1
  <2>2. sl2 = [s \in 0 .. m - 1 |-> sl2[s]]
    BY <1>6 DEF Shape
  <2>3. DOMAIN sl2 = 0 .. m - 1
    BY <2>2
  <2>4. P!tableSize(U) = P!Cardinality(DOMAIN U.slots)
    BY DEF P!tableSize
  <2>5. DOMAIN U.slots = 0 .. m - 1
    BY <1>5, <2>3, Zenon
  <2> QED
    BY <2>1, <2>4, <2>5, IntervalSize, SameCardinality
<1>8. OneEach(w)
  <2>1. \A i, j \in 1 .. N : KeyOf[v[i]] = KeyOf[v[j]] => i = j
    BY <1>1, <1>2 DEF OneEach
  <2>2. \A i \in 1 .. N : KeyOf[v[i]] # KeyOf[e]
    BY <1>2 DEF v
  <2>3. ASSUME NEW i \in 1 .. N + 1, NEW j \in 1 .. N + 1, KeyOf[w[i]] = KeyOf[w[j]] PROVE i = j
    BY <1>2, <2>1, <2>2, <2>3
  <2> QED
    BY <1>2, <2>3 DEF OneEach
<1>9. Rest(U, w)
  <2>1. ASSUME NEW x \in Rows, \A i \in DOMAIN w : w[i] # x PROVE U.next[x] = Null
    <3>1. x # e /\ \A i \in DOMAIN v : v[i] # x
      BY <1>2, <2>1
    <3>2. nx[x] = Null
      BY <1>1, <3>1 DEF Rest
    <3>3. nx \in [Rows -> Rows \cup {Null}]
      BY <1>1 DEF Shape
    <3> QED
      BY <1>5, <3>1, <3>2, <3>3 DEF nx2
  <2> QED
    BY <2>1 DEF Rest
<1> QED
  BY <1>1, <1>2, <1>5, <1>6, <1>7, <1>8, <1>9 DEF Grown, PartChains, w, v

-----------------------------------------------------------------------------
(* The invariant of PreAggregationHashtable *)

LEMMA SameOperators ==
    /\ \A s : P!ToSet(s) = {s[i] : i \in DOMAIN s}
    /\ \A s : P!OneEach(s) <=> OneEach(s)
    /\ P!initial = initial
    /\ \A a, r : P!reduce(a, r) = reduce(a, r)
    /\ \A a, b : P!combine(a, b) = combine(a, b)
    /\ \A a, b, c, d : P!CountedOnce(a, b, c, d) <=> CountedOnce(a, b, c, d)
<1>1. \A s : P!ToSet(s) = {s[i] : i \in DOMAIN s}
  BY DEF P!ToSet
<1>2. \A s : P!OneEach(s) <=> OneEach(s)
  BY DEF P!OneEach, OneEach
<1>3. P!initial = initial
  BY DEF P!initial, initial
<1>4. \A a, r : P!reduce(a, r) = reduce(a, r)
  BY DEF P!reduce, reduce
<1>5. \A a, b : P!combine(a, b) = combine(a, b)
  BY DEF P!combine, combine
<1>6. \A a, b, c, d : P!CountedOnce(a, b, c, d) <=> CountedOnce(a, b, c, d)
  BY DEF P!CountedOnce, CountedOnce
<1> QED
  BY <1>1, <1>2, <1>3, <1>4, <1>5, <1>6

LEMMA LeftEntries ==
    ASSUME NEW p
    PROVE  \A e : e \in P!entriesLeft(p) <=> \E t \in Threads : \E i \in DOMAIN input[p][t] : input[p][t][i] = e
<1>1. \A s, e : e \in P!ToSet(s) <=> \E i \in DOMAIN s : s[i] = e
  BY SameOperators
<1> QED
  BY <1>1 DEF P!entriesLeft

LEMMA LeftEntriesNext ==
    ASSUME NEW p
    PROVE  \A e : e \in P!entriesLeft(p)' <=> \E t \in Threads : \E i \in DOMAIN input'[p][t] : input'[p][t][i] = e
<1>1. \A s, e : e \in P!ToSet(s) <=> \E i \in DOMAIN s : s[i] = e
  BY SameOperators
<1> QED
  BY <1>1 DEF P!entriesLeft

(* The entries that count *)
InOutputs(e) == \E t \in Threads : \E p \in P!Partitions : \E i \in DOMAIN outputs[t][p] : outputs[t][p][i] = e
InParts(e) == \E p \in P!Partitions : e \in P!entriesLeft(p) \/ \E i \in DOMAIN part[p].local : part[p].local[i] = e

LEMMA LiveEntries ==
    /\ stage = "build" => \A e : e \in P!Live <=> InOutputs(e)
    /\ stage # "build" => \A e : e \in P!Live <=> InParts(e)
<1>1. \A s, e : e \in P!ToSet(s) <=> \E i \in DOMAIN s : s[i] = e
  BY SameOperators
<1>2. ASSUME stage = "build", NEW e PROVE e \in P!Live <=> InOutputs(e)
  <2>1. P!Live = UNION {P!ToSet(outputs[t][p]) : t \in Threads, p \in P!Partitions}
    BY <1>2 DEF P!Live
  <2>2. e \in P!Live <=> \E t \in Threads : \E p \in P!Partitions : e \in P!ToSet(outputs[t][p])
    BY <2>1
  <2> QED
    BY <1>1, <2>2 DEF InOutputs
<1>3. ASSUME stage # "build", NEW e PROVE e \in P!Live <=> InParts(e)
  <2>1. P!Live = UNION {P!entriesLeft(p) \cup P!ToSet(part[p].local) : p \in P!Partitions}
    BY <1>3 DEF P!Live
  <2>2. e \in P!Live <=> \E p \in P!Partitions : e \in P!entriesLeft(p) \/ e \in P!ToSet(part[p].local)
    BY <2>1
  <2> QED
    BY <1>1, <2>2 DEF InParts
<1> QED
  BY <1>2, <1>3

LEMMA LiveEntriesNext ==
    /\ stage' = "build" => \A e : e \in P!Live' <=> InOutputs(e)'
    /\ stage' # "build" => \A e : e \in P!Live' <=> InParts(e)'
<1>1. \A s, e : e \in P!ToSet(s) <=> \E i \in DOMAIN s : s[i] = e
  BY SameOperators
<1>2. ASSUME stage' = "build", NEW e PROVE e \in P!Live' <=> InOutputs(e)'
  <2>1. P!Live' = UNION {P!ToSet(outputs'[t][p]) : t \in Threads, p \in P!Partitions}
    BY <1>2 DEF P!Live
  <2>2. e \in P!Live' <=> \E t \in Threads : \E p \in P!Partitions : e \in P!ToSet(outputs'[t][p])
    BY <2>1
  <2> QED
    BY <1>1, <2>2 DEF InOutputs
<1>3. ASSUME stage' # "build", NEW e PROVE e \in P!Live' <=> InParts(e)'
  <2>1. P!Live' = UNION {P!entriesLeft(p)' \cup P!ToSet(part'[p].local) : p \in P!Partitions}
    BY <1>3 DEF P!Live
  <2>2. e \in P!Live' <=> \E p \in P!Partitions : e \in P!entriesLeft(p)' \/ e \in P!ToSet(part'[p].local)
    BY <2>1
  <2> QED
    BY <1>1, <2>2 DEF InParts
<1> QED
  BY <1>2, <1>3

LEMMA PreInvInit == P!Init => P!TableInv
<1> SUFFICES ASSUME P!Init PROVE P!TableInv
  OBVIOUS
<1> DEFINE W == [slots |-> P!zeroed(0), next |-> P!NoNext, local |-> <<>>, task |-> "waiting"]
<1>1. /\ rowsLeft = Rows
      /\ cache = [t \in Threads |-> [s \in 0 .. hashtableSize - 1 |-> Null]]
      /\ outputs = [t \in Threads |-> [p \in P!Partitions |-> <<>>]]
      /\ aggregate = [e \in Rows |-> initial] /\ stage = "build"
      /\ input = [p \in P!Partitions |-> [t \in Threads |-> <<>>]]
      /\ part = [p \in P!Partitions |-> W]
      /\ buffer = <<>> /\ found = [key |-> Null, entry |-> Null]
  BY SameOperators DEF P!Init
<1>2. W.local = <<>> /\ W.task = "waiting" /\ P!PartOK(W)
  <2>1. PartFields(W, P!zeroed(0), P!NoNext, <<>>, "waiting")
    BY PartRecord
  <2>2. W.local = <<>> /\ W.task = "waiting" /\ IsPart(W)
    BY <2>1 DEF PartFields
  <2> HIDE DEF W
  <2> QED
    BY <2>2, PartParts
<1> HIDE DEF W
<1>3. \A p \in P!Partitions : \A t \in Threads : outputs[t][p] = <<>> /\ input[p][t] = <<>> /\ part[p] = W
  BY <1>1
<1>4. P!TypeOK
  BY <1>1, Bags DEF P!TypeOK
<1>5. ASSUME NEW p \in P!Partitions PROVE P!entriesLeft(p) = {}
  BY <1>3, LeftEntries
<1>6. P!Live = {}
  BY <1>1, <1>3, LiveEntries DEF InOutputs
<1>7. P!PartitionsApart
  <2>1. \A p \in P!Partitions : part[p] = W
    BY <1>1
  <2>2. P!Placed(input)
    BY <1>3 DEF P!Placed
  <2>3. P!Placed(P!fragments)
    BY <1>3 DEF P!Placed, P!fragments
  <2> QED
    BY <1>2, <2>1, <2>2, <2>3 DEF P!PartitionsApart
<1>8. P!MergeInOrder
  <2>1. found.key = Null /\ \A t \in Threads : \A s \in 0 .. hashtableSize - 1 : cache[t][s] = Null
    BY <1>1
  <2>2. \A p \in P!Partitions : part[p].task = "waiting"
    BY <1>1, <1>2
  <2> QED
    BY <1>1, <2>1, <2>2 DEF P!MergeInOrder
<1>9. P!Listed
  <2>1. \A p \in P!Partitions : part[p].task = "waiting"
    BY <1>1, <1>2
  <2>2. P!ToSet(buffer) = {} /\ OneEach(buffer)
    BY <1>1, SameOperators DEF OneEach
  <2> QED
    BY <2>1, <2>2, SameOperators DEF P!Listed
<1>10. P!RowsCounted
  <2>1. CountedOnce(P!Live, aggregate, KeyOf, rowsLeft)
    BY <1>1, <1>6 DEF CountedOnce
  <2> QED
    BY <1>1, <1>6, <2>1, SameOperators DEF P!RowsCounted
<1>11. P!LookupRight
  BY <1>1 DEF P!LookupRight
<1> QED
  BY <1>4, <1>7, <1>8, <1>9, <1>10, <1>11 DEF P!TableInv

(* What steps that leave buffers and tables alone keep *)
LEMMA BuffersSame ==
    ASSUME outputs' = outputs, input' = input, part' = part
    PROVE  /\ P!PartitionsApart => P!PartitionsApart'
           /\ stage' = stage => P!Live' = P!Live
           /\ \A p : P!entriesLeft(p)' = P!entriesLeft(p)
<1>1. \A p : P!entriesLeft(p)' = P!entriesLeft(p)
  BY DEF P!entriesLeft
<1>2. P!fragments' = P!fragments
  BY DEF P!fragments
<1>3. P!PartitionsApart => P!PartitionsApart'
  BY <1>1, <1>2 DEF P!PartitionsApart, P!Placed
<1>4. stage' = stage => P!Live' = P!Live
  BY <1>1 DEF P!Live
<1> QED
  BY <1>1, <1>3, <1>4

LEMMA HitKeeps == ASSUME P!TableInv, NEW t \in Threads, P!Hit(t) PROVE P!TableInv'
<1>1. PICK r \in rowsLeft :
        /\ P!cached(t, KeyOf[r]) # Null
        /\ rowsLeft' = rowsLeft \ {r}
        /\ aggregate' = [aggregate EXCEPT ![P!cached(t, KeyOf[r])] = P!reduce(@, r)]
  BY DEF P!Hit
<1>2. /\ stage = "build" /\ cache' = cache /\ outputs' = outputs /\ stage' = stage /\ input' = input
      /\ part' = part /\ buffer' = buffer /\ found' = found
  BY DEF P!Hit
<1>3. P!TypeOK /\ P!PartitionsApart /\ P!MergeInOrder /\ P!Listed /\ P!RowsCounted /\ P!LookupRight
  BY DEF P!TableInv
<1>4. /\ r \in Rows /\ aggregate \in [Rows -> [Rows -> Nat]]
      /\ cache \in [Threads -> [0 .. hashtableSize - 1 -> Rows \cup {Null}]]
  BY <1>3 DEF P!TypeOK
<1> DEFINE c == P!cached(t, KeyOf[r])
           s == P!cacheSlot(PartitionHash[KeyOf[r]])
<1>5. c = cache[t][s] /\ KeyOf[c] = KeyOf[r] /\ s \in 0 .. hashtableSize - 1
  <2>1. s \in 0 .. hashtableSize - 1
    BY <1>4, PartitionHashes
  <2>2. c = cache[t][s] /\ KeyOf[c] = KeyOf[r]
    BY <1>1 DEF P!cached, P!matches
  <2> QED
    BY <2>1, <2>2
<1>6. c \in P!Live /\ c \in Rows
  <2>1. c \in P!Live \cup {Null}
    BY <1>2, <1>3, <1>5 DEF P!MergeInOrder
  <2>2. c \in Rows \cup {Null}
    <3> HIDE DEF c, s
    <3>1. cache[t] \in [0 .. hashtableSize - 1 -> Rows \cup {Null}]
      BY <1>4
    <3> QED
      BY <1>5, <3>1
  <2> QED
    BY <1>1, <2>1, <2>2
<1>7. aggregate' = [aggregate EXCEPT ![c] = reduce(aggregate[c], r)]
  BY <1>1, SameOperators
<1> HIDE DEF c
<1>8. P!Live' = P!Live /\ P!PartitionsApart'
  BY <1>2, <1>3, BuffersSame
<1>9. P!TypeOK'
  <2>1. aggregate' \in [Rows -> [Rows -> Nat]]
    BY <1>4, <1>6, <1>7, Bags
  <2> QED
    BY <1>1, <1>2, <1>3, <2>1 DEF P!TypeOK
<1>10. CountedOnce(P!Live, aggregate, KeyOf, rowsLeft) /\ \A e \in rowsLeft : e \notin P!Live /\ aggregate[e] = initial
  BY <1>3, SameOperators DEF P!RowsCounted
<1>11. CountedOnce(P!Live \cup {c}, aggregate', KeyOf, rowsLeft \ {r})
  <2>1. \A h \in P!Live : h # c => aggregate'[h] = aggregate[h]
    BY <1>4, <1>6, <1>7
  <2>2. \A x \in Rows : c \notin P!Live => aggregate[c][x] = 0
    BY <1>6
  <2>3. \A x \in Rows : aggregate'[c][x] = IF x = r THEN aggregate[c][x] + 1 ELSE aggregate[c][x]
    <3>1. aggregate'[c] = reduce(aggregate[c], r) /\ aggregate[c] \in [Rows -> Nat]
      BY <1>4, <1>6, <1>7
    <3> QED
      BY <1>4, <3>1 DEF reduce
  <2>4. KeyOf[c] = KeyOf[r] /\ r \in Rows /\ r \in rowsLeft
    BY <1>4, <1>5
  <2> DEFINE A == aggregate'
             L == P!Live
  <2>5. /\ CountedOnce(L, aggregate, KeyOf, rowsLeft)
        /\ \A h \in L : h # c => A[h] = aggregate[h]
        /\ \A x \in Rows : c \notin L => aggregate[c][x] = 0
        /\ \A x \in Rows : A[c][x] = IF x = r THEN aggregate[c][x] + 1 ELSE aggregate[c][x]
    BY <1>10, <2>1, <2>2, <2>3
  <2> HIDE DEF A, L
  <2>6. CountedOnce(L \cup {c}, A, KeyOf, rowsLeft \ {r})
    BY <2>4, <2>5, CountRow
  <2> QED
    BY <2>6 DEF A, L
<1>12. P!RowsCounted'
  <2>1. P!Live \cup {c} = P!Live
    BY <1>6
  <2>2. CountedOnce(P!Live', aggregate', KeyOf, rowsLeft')
    BY <1>1, <1>8, <1>11, <2>1
  <2>3. P!CountedOnce(P!Live', aggregate', KeyOf, rowsLeft')
    BY <2>2, SameOperators
  <2>4. \A e \in rowsLeft' : e \notin P!Live' /\ aggregate'[e] = initial
    BY <1>1, <1>3, <1>4, <1>6, <1>7, <1>8, <1>10 DEF P!TypeOK
  <2>5. P!initial' = initial
    BY DEF P!initial, initial
  <2> QED
    BY <2>3, <2>4, <2>5 DEF P!RowsCounted
<1>13. P!MergeInOrder'
  BY <1>2, <1>3, <1>8 DEF P!MergeInOrder
<1>14. P!Listed' /\ P!LookupRight'
  BY <1>2, <1>3 DEF P!Listed, P!LookupRight
<1> QED
  BY <1>8, <1>9, <1>12, <1>13, <1>14 DEF P!TableInv

(* Placed, for the fragments' output buffers *)
OutputsPlaced ==
    /\ \A u \in Threads : \A q \in P!Partitions : \A i \in DOMAIN outputs[u][q] :
          P!partition(P!hashValue(outputs[u][q][i])) = q
    /\ \A u, x \in Threads : \A q \in P!Partitions : \A i \in DOMAIN outputs[u][q], j \in DOMAIN outputs[x][q] :
          outputs[u][q][i] = outputs[x][q][j] => u = x /\ i = j

LEMMA FragmentsPlaced == (P!Placed(P!fragments) <=> OutputsPlaced) /\ (P!Placed(P!fragments)' <=> OutputsPlaced')
<1>1. P!Placed(P!fragments) <=> OutputsPlaced
  <2>1. \A q \in P!Partitions : \A u \in Threads : P!fragments[q][u] = outputs[u][q]
    BY DEF P!fragments
  <2> QED
    BY <2>1 DEF P!Placed, OutputsPlaced
<1>2. P!Placed(P!fragments)' <=> OutputsPlaced'
  <2>1. \A q \in P!Partitions : \A u \in Threads : P!fragments'[q][u] = outputs'[u][q]
    BY DEF P!fragments
  <2> QED
    BY <2>1 DEF P!Placed, OutputsPlaced
<1> QED
  BY <1>1, <1>2

LEMMA InsertKeeps == ASSUME P!TableInv, NEW t \in Threads, P!Insert(t) PROVE P!TableInv'
<1>1. PICK r \in rowsLeft :
        /\ rowsLeft' = rowsLeft \ {r}
        /\ outputs' = [outputs EXCEPT ![t][P!partition(P!hashValue(r))] = Append(@, r)]
        /\ cache' = [cache EXCEPT ![t][P!cacheSlot(P!hashValue(r))] = r]
        /\ aggregate' = [aggregate EXCEPT ![r] = P!reduce(@, r)]
  BY DEF P!Insert
<1>2. /\ stage = "build" /\ stage' = stage /\ input' = input
      /\ part' = part /\ buffer' = buffer /\ found' = found
  BY DEF P!Insert
<1>3. P!TypeOK /\ P!PartitionsApart /\ P!MergeInOrder /\ P!Listed /\ P!RowsCounted /\ P!LookupRight
  BY DEF P!TableInv
<1>4. /\ r \in Rows /\ aggregate \in [Rows -> [Rows -> Nat]]
      /\ cache \in [Threads -> [0 .. hashtableSize - 1 -> Rows \cup {Null}]]
      /\ outputs \in [Threads -> [P!Partitions -> Seq(Rows)]]
  BY <1>3 DEF P!TypeOK
<1> DEFINE z == P!cacheSlot(P!hashValue(r))
           p == P!partition(P!hashValue(r))
           s == outputs[t][p]
           w == outputs'[t][p]
<1>5. z \in 0 .. hashtableSize - 1 /\ p \in P!Partitions
  BY <1>4, PartitionHashes
<1>6. P!hashValue(r) \in Nat /\ P!partition(P!hashValue(r)) = p
  BY <1>4, PartitionHashes
<1> HIDE DEF z, p
<1>7. /\ cache[t] \in [0 .. hashtableSize - 1 -> Rows \cup {Null}]
      /\ outputs[t] \in [P!Partitions -> Seq(Rows)] /\ s \in Seq(Rows)
  BY <1>4, <1>5
<1>8. /\ cache' = [cache EXCEPT ![t] = [cache[t] EXCEPT ![z] = r]]
      /\ outputs' = [outputs EXCEPT ![t] = [outputs[t] EXCEPT ![p] = Append(s, r)]]
  BY <1>1 DEF z, p
<1>9. w = Append(s, r) /\ \A u \in Threads : \A q \in P!Partitions : u # t \/ q # p => outputs'[u][q] = outputs[u][q]
  BY <1>4, <1>5, <1>7, <1>8
<1>10. \A u \in Threads : \A y \in 0 .. hashtableSize - 1 : cache'[u][y] = r \/ cache'[u][y] = cache[u][y]
  BY <1>4, <1>5, <1>7, <1>8
<1>11. P!TypeOK'
  <2>1. aggregate' \in [Rows -> [Rows -> Nat]]
    BY <1>1, <1>4, Bags, SameOperators
  <2>2. cache' \in [Threads -> [0 .. hashtableSize - 1 -> Rows \cup {Null}]]
    <3>1. [cache[t] EXCEPT ![z] = r] \in [0 .. hashtableSize - 1 -> Rows \cup {Null}]
      BY <1>4, <1>7
    <3> QED
      BY <1>4, <1>8, <3>1
  <2>3. outputs' \in [Threads -> [P!Partitions -> Seq(Rows)]]
    <3>1. [outputs[t] EXCEPT ![p] = Append(s, r)] \in [P!Partitions -> Seq(Rows)]
      <4>1. Append(s, r) \in Seq(Rows)
        BY <1>4, <1>7
      <4> HIDE DEF s
      <4> QED
        BY <1>7, <4>1
    <3> QED
      BY <1>4, <1>8, <3>1
  <2> QED
    BY <1>1, <1>2, <1>3, <2>1, <2>2, <2>3 DEF P!TypeOK
<1> HIDE DEF s, w
<1>12. /\ Len(s) \in Nat /\ DOMAIN s = 1 .. Len(s) /\ DOMAIN w = 1 .. Len(s) + 1 /\ w[Len(s) + 1] = r
       /\ \A i \in 1 .. Len(s) : w[i] = s[i]
  BY <1>4, <1>7, <1>9, AppendSeq
<1>13. CountedOnce(P!Live, aggregate, KeyOf, rowsLeft) /\ \A e \in rowsLeft : e \notin P!Live /\ aggregate[e] = initial
  BY <1>3, SameOperators DEF P!RowsCounted
<1>14. \A u \in Threads : \A q \in P!Partitions : \A i \in DOMAIN outputs[u][q] : outputs[u][q][i] # r
  BY <1>2, <1>13, LiveEntries DEF InOutputs
<1>15. P!Live' = P!Live \cup {r}
  <2>1. ASSUME NEW e PROVE InOutputs(e)' <=> InOutputs(e) \/ e = r
    <3>1. ASSUME InOutputs(e)' PROVE InOutputs(e) \/ e = r
      <4>1a. PICK u \in Threads, q \in P!Partitions : \E i \in DOMAIN outputs'[u][q] : outputs'[u][q][i] = e
        BY <3>1 DEF InOutputs
      <4>1. PICK i \in DOMAIN outputs'[u][q] : outputs'[u][q][i] = e
        BY <4>1a
      <4>2. CASE u = t /\ q = p
        <5>1. i \in DOMAIN w /\ w[i] = e
          BY <4>1, <4>2 DEF w
        <5>2. i = Len(s) + 1 \/ (i \in DOMAIN s /\ s[i] = e)
          BY <1>12, <5>1
        <5>3. CASE i = Len(s) + 1
          BY <1>12, <5>1, <5>3
        <5>4. CASE i \in DOMAIN s /\ s[i] = e
          BY <1>5, <5>4 DEF InOutputs, s
        <5> QED
          BY <5>2, <5>3, <5>4
      <4>3. CASE ~(u = t /\ q = p)
        BY <1>9, <4>1, <4>3 DEF InOutputs
      <4> QED
        BY <4>2, <4>3
    <3>2. ASSUME InOutputs(e) PROVE InOutputs(e)'
      <4>1a. PICK u \in Threads, q \in P!Partitions : \E i \in DOMAIN outputs[u][q] : outputs[u][q][i] = e
        BY <3>2 DEF InOutputs
      <4>1. PICK i \in DOMAIN outputs[u][q] : outputs[u][q][i] = e
        BY <4>1a
      <4>2. CASE u = t /\ q = p
        <5>1. i \in DOMAIN w /\ w[i] = e
          BY <1>12, <4>1, <4>2 DEF s
        <5> QED
          BY <1>5, <5>1 DEF InOutputs, w
      <4>3. CASE ~(u = t /\ q = p)
        BY <1>9, <4>1, <4>3 DEF InOutputs
      <4> QED
        BY <4>2, <4>3
    <3>3. ASSUME e = r PROVE InOutputs(e)'
      <4>1. Len(s) + 1 \in DOMAIN w /\ w[Len(s) + 1] = e
        BY <1>12, <3>3
      <4> QED
        BY <1>5, <4>1 DEF InOutputs, w
    <3> QED
      BY <3>1, <3>2, <3>3
  <2>2. stage' = "build"
    BY <1>2
  <2> QED
    BY <1>2, <2>1, <2>2, LiveEntries, LiveEntriesNext
<1>16. OutputsPlaced'
  <2>0. OutputsPlaced
    BY <1>3, FragmentsPlaced DEF P!PartitionsApart
  <2>1. ASSUME NEW u \in Threads, NEW q \in P!Partitions, NEW i \in DOMAIN outputs'[u][q]
        PROVE  P!partition(P!hashValue(outputs'[u][q][i])) = q
    <3>1. CASE u = t /\ q = p
      <4>1. CASE i = Len(s) + 1
        BY <1>6, <1>12, <3>1, <4>1 DEF w
      <4>2. CASE i # Len(s) + 1
        <5>1. i \in DOMAIN s /\ w[i] = s[i]
          BY <1>12, <2>1, <3>1, <4>2 DEF w
        <5> QED
          BY <2>0, <3>1, <5>1 DEF OutputsPlaced, s, w
      <4> QED
        BY <4>1, <4>2
    <3>2. CASE ~(u = t /\ q = p)
      BY <1>9, <2>0, <3>2 DEF OutputsPlaced
    <3> QED
      BY <3>1, <3>2
  <2>2. ASSUME NEW u \in Threads, NEW x \in Threads, NEW q \in P!Partitions,
               NEW i \in DOMAIN outputs'[u][q], NEW j \in DOMAIN outputs'[x][q],
               outputs'[u][q][i] = outputs'[x][q][j]
        PROVE  u = x /\ i = j
    <3>1. \A y \in Threads : \A l \in DOMAIN outputs'[y][q] :
             \/ y = t /\ q = p /\ l = Len(s) + 1 /\ outputs'[y][q][l] = r
             \/ l \in DOMAIN outputs[y][q] /\ outputs'[y][q][l] = outputs[y][q][l] /\ outputs[y][q][l] # r
      <4>1. ASSUME NEW y \in Threads, NEW l \in DOMAIN outputs'[y][q]
            PROVE  \/ y = t /\ q = p /\ l = Len(s) + 1 /\ outputs'[y][q][l] = r
                   \/ l \in DOMAIN outputs[y][q] /\ outputs'[y][q][l] = outputs[y][q][l] /\ outputs[y][q][l] # r
        <5>1. CASE y = t /\ q = p
          <6>1. l \in 1 .. Len(s) + 1
            BY <1>12, <4>1, <5>1 DEF w
          <6>2. CASE l = Len(s) + 1
            BY <1>12, <5>1, <6>2 DEF w
          <6>3. CASE l # Len(s) + 1
            <7>1. l \in DOMAIN s /\ w[l] = s[l]
              BY <1>12, <6>1, <6>3
            <7> QED
              BY <1>14, <5>1, <7>1 DEF s, w
          <6> QED
            BY <6>2, <6>3
        <5>2. CASE ~(y = t /\ q = p)
          <6>1. outputs'[y][q] = outputs[y][q]
            BY <1>9, <5>2
          <6> QED
            BY <1>14, <4>1, <6>1
        <5> QED
          BY <5>1, <5>2
      <4> QED
        BY <4>1
    <3> QED
      BY <2>0, <2>2, <3>1 DEF OutputsPlaced
  <2> QED
    BY <2>1, <2>2 DEF OutputsPlaced
<1>17. P!PartitionsApart'
  <2>1. P!Placed(P!fragments)'
    BY <1>16, FragmentsPlaced
  <2>2. \A q : P!entriesLeft(q)' = P!entriesLeft(q)
    BY <1>2 DEF P!entriesLeft
  <2>3. P!Placed(input)'
    BY <1>2, <1>3 DEF P!PartitionsApart, P!Placed
  <2> QED
    BY <1>2, <1>3, <2>1, <2>2, <2>3 DEF P!PartitionsApart
<1>18. CountedOnce(P!Live \cup {r}, aggregate', KeyOf, rowsLeft \ {r})
  <2>1. aggregate' = [aggregate EXCEPT ![r] = reduce(aggregate[r], r)]
    BY <1>1, SameOperators
  <2>2. aggregate[r] = initial /\ aggregate[r] \in [Rows -> Nat] /\ aggregate'[r] = reduce(aggregate[r], r)
    BY <1>4, <1>13, <2>1
  <2> DEFINE A == aggregate'
             L == P!Live
  <2>3. \A x \in Rows : A[r][x] = IF x = r THEN aggregate[r][x] + 1 ELSE aggregate[r][x]
    BY <1>4, <2>2 DEF reduce
  <2>4. \A x \in Rows : r \notin L => aggregate[r][x] = 0
    BY <2>2 DEF initial
  <2>5. \A h \in L : h # r => A[h] = aggregate[h]
    <3>1. ASSUME NEW h \in L, h # r PROVE h \in Rows
      <4>1. InOutputs(h)
        BY <1>2, LiveEntries
      <4>2a. PICK u \in Threads, q \in P!Partitions : \E i \in DOMAIN outputs[u][q] : outputs[u][q][i] = h
        BY <4>1 DEF InOutputs
      <4>2. PICK i \in DOMAIN outputs[u][q] : outputs[u][q][i] = h
        BY <4>2a
      <4>3. outputs[u][q] \in Seq(Rows)
        BY <1>4
      <4> QED
        BY <4>2, <4>3
    <3> QED
      BY <1>4, <2>1, <3>1
  <2>6. CountedOnce(L, aggregate, KeyOf, rowsLeft)
    BY <1>13
  <2> HIDE DEF A, L
  <2>7. CountedOnce(L \cup {r}, A, KeyOf, rowsLeft \ {r})
    BY <1>4, <2>3, <2>4, <2>5, <2>6, CountRow
  <2> QED
    BY <2>7 DEF A, L
<1>19. P!RowsCounted'
  <2>2. CountedOnce(P!Live', aggregate', KeyOf, rowsLeft')
    BY <1>1, <1>15, <1>18
  <2>3. P!CountedOnce(P!Live', aggregate', KeyOf, rowsLeft')
    BY <2>2, SameOperators
  <2>4. \A e \in rowsLeft' : e \notin P!Live' /\ aggregate'[e] = initial
    BY <1>1, <1>3, <1>4, <1>13, <1>15 DEF P!TypeOK
  <2>5. P!initial' = initial
    BY DEF P!initial, initial
  <2> QED
    BY <2>3, <2>4, <2>5 DEF P!RowsCounted
<1>20. P!MergeInOrder'
  <2>1. \A q : P!entriesLeft(q)' = P!entriesLeft(q)
    BY <1>2 DEF P!entriesLeft
  <2>2. \A u \in Threads : \A y \in 0 .. hashtableSize - 1 : cache'[u][y] \in P!Live' \cup {Null}
    BY <1>2, <1>3, <1>10, <1>15 DEF P!MergeInOrder
  <2> QED
    BY <1>2, <1>3, <2>1, <2>2 DEF P!MergeInOrder
<1>21. P!Listed' /\ P!LookupRight'
  BY <1>2, <1>3 DEF P!Listed, P!LookupRight
<1> QED
  BY <1>11, <1>17, <1>19, <1>20, <1>21 DEF P!TableInv

LEMMA StartPartitionsKeeps == ASSUME P!TableInv, P!StartMerge PROVE P!TableInv'
<1>1. /\ stage = "build" /\ rowsLeft = {} /\ stage' = "merge" /\ input' = [p \in P!Partitions |-> [t \in Threads |-> outputs[t][p]]]
      /\ rowsLeft' = rowsLeft /\ cache' = cache /\ outputs' = outputs /\ aggregate' = aggregate
      /\ part' = part /\ buffer' = buffer /\ found' = found
  BY DEF P!StartMerge
<1>2. P!TypeOK /\ P!PartitionsApart /\ P!MergeInOrder /\ P!Listed /\ P!RowsCounted /\ P!LookupRight
  BY DEF P!TableInv
<1>3. \A p \in P!Partitions : \A t \in Threads : input'[p][t] = outputs[t][p]
  BY <1>1
<1>4. \A p \in P!Partitions : part[p].task = "waiting" /\ part[p].local = <<>>
  <2>1. \A p \in P!Partitions : part[p].task = "waiting" /\ P!PartOK(part[p])
    BY <1>1, <1>2 DEF P!MergeInOrder, P!PartitionsApart
  <2> QED
    BY <2>1, PartParts
<1>5. P!TypeOK'
  <2>1. input' \in [P!Partitions -> [Threads -> Seq(Rows)]]
    BY <1>1, <1>2 DEF P!TypeOK
  <2> QED
    BY <1>1, <1>2, <2>1 DEF P!TypeOK
<1>6. \A e : \A p \in P!Partitions :
         e \in P!entriesLeft(p)' <=> \E t \in Threads : \E i \in DOMAIN outputs[t][p] : outputs[t][p][i] = e
  BY <1>3, LeftEntriesNext
<1>7. P!Live' = P!Live
  <2>1. ASSUME NEW e PROVE InParts(e)' <=> InOutputs(e)
    <3>1. InParts(e)' <=> \E p \in P!Partitions : e \in P!entriesLeft(p)'
      BY <1>1, <1>4 DEF InParts
    <3> QED
      BY <1>6, <3>1 DEF InOutputs
  <2>2. stage' # "build"
    BY <1>1
  <2> QED
    BY <1>1, <2>1, <2>2, LiveEntries, LiveEntriesNext
<1>8. P!PartitionsApart'
  <2>1. P!Placed(P!fragments)
    BY <1>2 DEF P!PartitionsApart
  <2>2. P!fragments = input' /\ P!fragments' = P!fragments
    BY <1>1 DEF P!fragments
  <2>3. P!Placed(input') /\ P!Placed(P!fragments')
    BY <2>1, <2>2
  <2>4. P!Placed(input)' /\ P!Placed(P!fragments)'
    BY <2>3
  <2>5. \A p \in P!Partitions : DOMAIN part'[p].local = {} /\ P!PartOK(part'[p])
    BY <1>1, <1>2, <1>4 DEF P!PartitionsApart
  <2> QED
    BY <2>4, <2>5 DEF P!PartitionsApart
<1>9. P!MergeInOrder'
  BY <1>1, <1>2, <1>4 DEF P!MergeInOrder
<1>10. P!Listed' /\ P!LookupRight'
  BY <1>1, <1>2 DEF P!Listed, P!LookupRight
<1>11. P!RowsCounted'
  BY <1>1, <1>2, <1>7 DEF P!RowsCounted, P!CountedOnce
<1> QED
  BY <1>5, <1>8, <1>9, <1>10, <1>11 DEF P!TableInv

LEMMA StartPartitionKeeps == ASSUME P!TableInv, NEW p \in P!Partitions, P!StartPartition(p) PROVE P!TableInv'
<1> DEFINE W == [slots |-> P!zeroed(P!htSize(P!Cardinality(P!entriesLeft(p)))), next |-> P!NoNext,
                 local |-> <<>>, task |-> "running"]
<1>1. /\ stage = "merge" /\ part[p].task = "waiting" /\ part' = [part EXCEPT ![p] = W]
      /\ rowsLeft' = rowsLeft /\ cache' = cache /\ outputs' = outputs /\ aggregate' = aggregate
      /\ stage' = stage /\ input' = input /\ buffer' = buffer /\ found' = found
  BY DEF P!StartPartition
<1>2. P!TypeOK /\ P!PartitionsApart /\ P!MergeInOrder /\ P!Listed /\ P!RowsCounted /\ P!LookupRight
  BY DEF P!TableInv
<1>3. P!htSize(P!Cardinality(P!entriesLeft(p))) \in Nat \ {0}
  <2>1. P!entriesLeft(p) \subseteq Rows
    <3>1. ASSUME NEW e \in P!entriesLeft(p) PROVE e \in Rows
      <4>1. PICK t \in Threads : \E i \in DOMAIN input[p][t] : input[p][t][i] = e
        BY LeftEntries
      <4>2. input[p][t] \in Seq(Rows)
        BY <1>2 DEF P!TypeOK
      <4> QED
        BY <4>1, <4>2
    <3> QED
      BY <3>1
  <2>2. IsFiniteSet(P!entriesLeft(p))
    BY <2>1, FS_Subset, ChainedTableAssumption
  <2>3. P!Cardinality(P!entriesLeft(p)) \in Nat
    BY <2>2, FS_CardinalityType, SameCardinality
  <2> QED
    BY <2>3, TableSizePositive
<1>4. PartChains(W) /\ IsPart(W) /\ W.local = <<>> /\ W.task = "running"
  <2> DEFINE m == P!htSize(P!Cardinality(P!entriesLeft(p)))
  <2> HIDE DEF m
  <2>1. m \in Nat \ {0} /\ W = [slots |-> P!zeroed(m), next |-> P!NoNext, local |-> <<>>, task |-> "running"]
    BY <1>3 DEF m
  <2> HIDE DEF W
  <2> QED
    BY <2>1, PartStart
<1> HIDE DEF W
<1>5. /\ part = [q \in P!Partitions |-> part[q]] /\ P!PartOK(part[p])
  BY <1>2 DEF P!TypeOK, P!PartitionsApart
<1>6. part'[p] = W /\ \A q \in P!Partitions : q # p => part'[q] = part[q]
  BY <1>1, <1>5
<1>7. part[p].local = <<>>
  BY <1>1, <1>5, PartParts
<1>8. P!PartOK(W)
  BY <1>4, PartParts
<1>9. P!TypeOK'
  <2>1. part' = [q \in P!Partitions |-> part'[q]]
    BY <1>1, <1>5
  <2> QED
    BY <1>1, <1>2, <2>1 DEF P!TypeOK
<1>10. \A q : P!entriesLeft(q)' = P!entriesLeft(q)
  BY <1>1 DEF P!entriesLeft
<1>11. \A q \in P!Partitions : part'[q].local = part[q].local
  BY <1>4, <1>6, <1>7
<1>12. P!Live' = P!Live
  <2>1. \A e : InParts(e)' <=> InParts(e)
    BY <1>10, <1>11 DEF InParts
  <2>2. stage # "build" /\ stage' # "build"
    BY <1>1
  <2> QED
    BY <2>1, <2>2, LiveEntries, LiveEntriesNext
<1>13. P!PartitionsApart'
  <2>1. \A q \in P!Partitions : P!PartOK(part'[q])
    BY <1>2, <1>6, <1>8 DEF P!PartitionsApart
  <2>2. P!Placed(input)' /\ P!Placed(P!fragments)'
    BY <1>1, <1>2 DEF P!PartitionsApart, P!Placed, P!fragments
  <2>3. \A q \in P!Partitions : \A i \in DOMAIN part'[q].local :
          P!partition(P!hashValue(part'[q].local[i])) = q /\ part'[q].local[i] \notin P!entriesLeft(q)'
    BY <1>2, <1>10, <1>11 DEF P!PartitionsApart
  <2> QED
    BY <2>1, <2>2, <2>3 DEF P!PartitionsApart
<1>14. \A q \in P!Partitions : part'[q].task = "merged" <=> part[q].task = "merged"
  BY <1>1, <1>4, <1>6
<1>15. P!MergeInOrder'
  <2>1. stage # "done" /\ rowsLeft = {}
    BY <1>1, <1>2 DEF P!MergeInOrder
  <2> QED
    BY <1>1, <1>2, <1>10, <1>14, <2>1 DEF P!MergeInOrder
<1>16. P!Listed'
  <2>1. {q \in P!Partitions : part'[q].task = "merged"} = {q \in P!Partitions : part[q].task = "merged"}
    BY <1>14
  <2>2. {P!ToSet(part'[q].local) : q \in {q \in P!Partitions : part'[q].task = "merged"}}
          = {P!ToSet(part[q].local) : q \in {q \in P!Partitions : part[q].task = "merged"}}
    BY <1>11, <2>1
  <2> QED
    BY <1>1, <1>2, <2>2 DEF P!Listed
<1>17. P!RowsCounted' /\ P!LookupRight'
  BY <1>1, <1>2, <1>12 DEF P!RowsCounted, P!CountedOnce, P!LookupRight
<1> QED
  BY <1>9, <1>13, <1>15, <1>16, <1>17 DEF P!TableInv

(* Placed, for the entries that are left *)
LEMMA InputPlaced ==
    ASSUME P!PartitionsApart, NEW q \in P!Partitions
    PROVE  /\ \A e \in P!entriesLeft(q) : P!partition(P!hashValue(e)) = q
           /\ \A u, x \in Threads : \A i \in DOMAIN input[q][u], j \in DOMAIN input[q][x] :
                 input[q][u][i] = input[q][x][j] => u = x /\ i = j
<1>1. P!Placed(input)
  BY DEF P!PartitionsApart
<1>2. /\ \A u \in Threads : \A i \in DOMAIN input[q][u] : P!partition(P!hashValue(input[q][u][i])) = q
      /\ \A u, x \in Threads : \A i \in DOMAIN input[q][u], j \in DOMAIN input[q][x] :
            input[q][u][i] = input[q][x][j] => u = x /\ i = j
  BY <1>1 DEF P!Placed
<1> QED
  BY <1>2, LeftEntries

(* The effect of a task's step on the entries that are left *)
LEMMA EntryTaken ==
    ASSUME P!TypeOK, P!PartitionsApart, NEW p \in P!Partitions, NEW t \in Threads, input[p][t] # <<>>,
           input' = [input EXCEPT ![p][t] = Tail(@)], NEW e, e = Head(input[p][t])
    PROVE  /\ e \in Rows /\ e \in P!entriesLeft(p)
           /\ P!entriesLeft(p)' = P!entriesLeft(p) \ {e}
           /\ \A q \in P!Partitions : q # p => P!entriesLeft(q)' = P!entriesLeft(q)
           /\ P!Placed(input)'
           /\ input' \in [P!Partitions -> [Threads -> Seq(Rows)]]
<1> DEFINE s == input[p][t]
           w == Tail(s)
<1>1. input \in [P!Partitions -> [Threads -> Seq(Rows)]] /\ input[p] \in [Threads -> Seq(Rows)] /\ s \in Seq(Rows)
  BY DEF P!TypeOK
<1>2. /\ w \in Seq(Rows) /\ e = s[1] /\ s[1] \in Rows /\ 1 \in DOMAIN s
      /\ \A i \in DOMAIN w : i + 1 \in DOMAIN s /\ i + 1 # 1 /\ w[i] = s[i + 1]
      /\ \A i \in DOMAIN s : i # 1 => i - 1 \in DOMAIN w /\ s[i] = w[i - 1]
  BY <1>1, TailSeq
<1>3. DOMAIN w \subseteq Nat
  BY <1>2
<1>4. input' = [input EXCEPT ![p] = [input[p] EXCEPT ![t] = w]]
  OBVIOUS
<1> HIDE DEF w
<1>5. /\ input'[p][t] = w /\ \A q \in P!Partitions : \A u \in Threads : q # p \/ u # t => input'[q][u] = input[q][u]
  BY <1>1, <1>4
<1>6. input' \in [P!Partitions -> [Threads -> Seq(Rows)]]
  <2>1. [input[p] EXCEPT ![t] = w] \in [Threads -> Seq(Rows)]
    BY <1>1, <1>2
  <2> QED
    BY <1>1, <1>4, <2>1
<1>7. \A u, x \in Threads : \A i \in DOMAIN input[p][u], j \in DOMAIN input[p][x] :
         input[p][u][i] = input[p][x][j] => u = x /\ i = j
  BY InputPlaced
<1>8. e \in P!entriesLeft(p)
  BY <1>2, LeftEntries
<1>9. \A q \in P!Partitions : q # p => P!entriesLeft(q)' = P!entriesLeft(q)
  <2>1. ASSUME NEW q \in P!Partitions, q # p PROVE P!entriesLeft(q)' = P!entriesLeft(q)
    <3>1. \A u \in Threads : input'[q][u] = input[q][u]
      BY <1>5, <2>1
    <3>2. ASSUME NEW x PROVE x \in P!entriesLeft(q)' <=> x \in P!entriesLeft(q)
      <4>1. x \in P!entriesLeft(q) <=> \E u \in Threads : \E i \in DOMAIN input[q][u] : input[q][u][i] = x
        BY LeftEntries
      <4>2. x \in P!entriesLeft(q)' <=> \E u \in Threads : \E i \in DOMAIN input'[q][u] : input'[q][u][i] = x
        BY LeftEntriesNext
      <4> QED
        BY <3>1, <4>1, <4>2
    <3> QED
      BY <3>2
  <2> QED
    BY <2>1
<1> HIDE DEF s
<1>10. ASSUME NEW u \in Threads, NEW i \in DOMAIN input'[p][u]
       PROVE  \/ u # t /\ i \in DOMAIN input[p][u] /\ input'[p][u][i] = input[p][u][i]
              \/ u = t /\ i \in Nat /\ i + 1 \in DOMAIN input[p][u] /\ i + 1 # 1 /\ input'[p][u][i] = input[p][u][i + 1]
  <2>1. CASE u = t
    BY <1>2, <1>3, <1>5, <1>10, <2>1 DEF s
  <2>2. CASE u # t
    BY <1>5, <1>10, <2>2
  <2> QED
    BY <2>1, <2>2
<1>11. ASSUME NEW x PROVE x \in P!entriesLeft(p)' <=> x \in P!entriesLeft(p) \ {e}
  <2>1. ASSUME x \in P!entriesLeft(p)' PROVE x \in P!entriesLeft(p) \ {e}
    <3>1. PICK u \in Threads : \E i \in DOMAIN input'[p][u] : input'[p][u][i] = x
      BY <2>1, LeftEntriesNext
    <3>2. PICK i \in DOMAIN input'[p][u] : input'[p][u][i] = x
      BY <3>1
    <3>3. \E j \in DOMAIN input[p][u] : input[p][u][j] = x /\ ~(u = t /\ j = 1)
      BY <1>10, <3>2
    <3>4. x # e
      BY <1>2, <1>7, <3>3 DEF s
    <3> QED
      BY <3>3, <3>4, LeftEntries
  <2>2. ASSUME x \in P!entriesLeft(p), x # e PROVE x \in P!entriesLeft(p)'
    <3>1. PICK u \in Threads : \E i \in DOMAIN input[p][u] : input[p][u][i] = x
      BY <2>2, LeftEntries
    <3>2. PICK i \in DOMAIN input[p][u] : input[p][u][i] = x
      BY <3>1
    <3>3. CASE u = t
      <4>1. i \in DOMAIN s /\ s[i] = x /\ i # 1
        BY <1>2, <2>2, <3>2, <3>3 DEF s
      <4>2. i - 1 \in DOMAIN w /\ w[i - 1] = x
        BY <1>2, <4>1
      <4> QED
        BY <1>5, <4>2, LeftEntriesNext
    <3>4. CASE u # t
      <4>1. input'[p][u] = input[p][u]
        BY <1>5, <3>4
      <4> QED
        BY <3>2, <4>1, LeftEntriesNext
    <3> QED
      BY <3>3, <3>4
  <2> QED
    BY <2>1, <2>2
<1>12. P!Placed(input)'
  <2>1. ASSUME NEW u \in Threads, NEW q \in P!Partitions, NEW i \in DOMAIN input'[q][u]
        PROVE  P!partition(P!hashValue(input'[q][u][i])) = q
    <3>1. input'[q][u][i] \in P!entriesLeft(q)'
      BY LeftEntriesNext
    <3>2. input'[q][u][i] \in P!entriesLeft(q)
      BY <1>9, <1>11, <3>1
    <3> QED
      BY <3>2, InputPlaced
  <2>2. ASSUME NEW u \in Threads, NEW x \in Threads, NEW q \in P!Partitions,
               NEW i \in DOMAIN input'[q][u], NEW j \in DOMAIN input'[q][x], input'[q][u][i] = input'[q][x][j]
        PROVE  u = x /\ i = j
    <3>1. CASE q = p
      <4>1. i \in DOMAIN input'[p][u] /\ j \in DOMAIN input'[p][x] /\ input'[p][u][i] = input'[p][x][j]
        BY <2>2, <3>1
      <4>2. CASE u = t /\ x = t
        BY <1>7, <1>10, <4>1, <4>2
      <4>3. CASE ~(u = t /\ x = t)
        <5>1. /\ \E k \in DOMAIN input[p][u] : input[p][u][k] = input'[p][u][i] /\ (u = t \/ k = i)
              /\ \E k \in DOMAIN input[p][x] : input[p][x][k] = input'[p][x][j] /\ (x = t \/ k = j)
          BY <1>10, <4>1
        <5> QED
          BY <1>7, <4>1, <4>3, <5>1
      <4> QED
        BY <4>2, <4>3
    <3>2. CASE q # p
      <4>1. input'[q][u] = input[q][u] /\ input'[q][x] = input[q][x]
        BY <1>5, <3>2
      <4>2. \A y, z \in Threads : \A k \in DOMAIN input[q][y], l \in DOMAIN input[q][z] :
              input[q][y][k] = input[q][z][l] => y = z /\ k = l
        BY InputPlaced
      <4>3. i \in DOMAIN input[q][u] /\ j \in DOMAIN input[q][x] /\ input[q][u][i] = input[q][x][j]
        BY <2>2, <4>1
      <4> QED
        BY <4>2, <4>3
    <3> QED
      BY <3>1, <3>2
  <2> QED
    BY <2>1, <2>2 DEF P!Placed
<1> QED
  BY <1>2, <1>6, <1>8, <1>9, <1>11, <1>12

LEMMA TaskKeeps == ASSUME P!TableInv, NEW p \in P!Partitions, NEW t \in Threads, P!MergeEntry(p, t) PROVE P!TableInv'
<1> DEFINE T == part[p]
           e == Head(input[p][t])
           b == P!bucket(T, P!hashValue(e))
           c == P!find(T.next, P!untag(T.slots[b]), KeyOf[e])
           U == [P!push(T, b, e) EXCEPT !.local = Append(@, e)]
<1>1. /\ stage = "merge" /\ T.task = "running" /\ input[p][t] # <<>>
      /\ input' = [input EXCEPT ![p][t] = Tail(@)]
      /\ rowsLeft' = rowsLeft /\ cache' = cache /\ outputs' = outputs
      /\ stage' = stage /\ buffer' = buffer /\ found' = found
  BY DEF P!MergeEntry, P!Iterated
<1>2. IF c # Null
      THEN aggregate' = [aggregate EXCEPT ![c] = P!combine(@, aggregate[e])] /\ part' = part
      ELSE part' = [part EXCEPT ![p] = U] /\ aggregate' = aggregate
  BY DEF P!MergeEntry
<1>3. P!TypeOK /\ P!PartitionsApart /\ P!MergeInOrder /\ P!Listed /\ P!RowsCounted /\ P!LookupRight
  BY DEF P!TableInv
<1>4. /\ e \in Rows /\ e \in P!entriesLeft(p)
      /\ P!entriesLeft(p)' = P!entriesLeft(p) \ {e}
      /\ \A q \in P!Partitions : q # p => P!entriesLeft(q)' = P!entriesLeft(q)
      /\ P!Placed(input)'
      /\ input' \in [P!Partitions -> [Threads -> Seq(Rows)]]
  BY <1>1, <1>3, EntryTaken
<1> HIDE DEF e
<1>5. PartChains(T) /\ IsPart(T) /\ part = [q \in P!Partitions |-> part[q]]
  <2>1. P!PartOK(T) /\ T.task # "waiting"
    BY <1>1, <1>3 DEF P!PartitionsApart
  <2> QED
    BY <1>3, <2>1, PartParts DEF P!TypeOK
<1>6. FoundIn(T.local, KeyOf[e], c)
  <2>1. KeyOf[e] \in Keys /\ P!hashValue(e) = PartitionHash[KeyOf[e]]
    BY <1>4, PartitionHashes
  <2>2. b = P!bucket(T, PartitionHash[KeyOf[e]])
    BY <2>1
  <2> HIDE DEF b, T
  <2> QED
    BY <1>5, <2>1, <2>2, PartFinds
<1>7. P!partition(P!hashValue(e)) = p /\ rowsLeft = {}
  BY <1>1, <1>3, <1>4, InputPlaced DEF P!MergeInOrder
<1>8. /\ \A q \in P!Partitions : \A i \in DOMAIN part[q].local :
            /\ P!partition(P!hashValue(part[q].local[i])) = q
            /\ part[q].local[i] \notin P!entriesLeft(q)
      /\ \A q \in P!Partitions : P!PartOK(part[q])
      /\ P!Placed(P!fragments)
  BY <1>3 DEF P!PartitionsApart
<1>9. P!Placed(P!fragments)'
  BY <1>1, <1>8 DEF P!Placed, P!fragments
<1>10. \A q \in P!Partitions : P!entriesLeft(q)' \subseteq P!entriesLeft(q)
  BY <1>4
<1>11. aggregate \in [Rows -> [Rows -> Nat]] /\ CountedOnce(P!Live, aggregate, KeyOf, rowsLeft)
  BY <1>3, SameOperators DEF P!TypeOK, P!RowsCounted
<1>12. Null \notin Rows /\ T.local \in Seq(Rows)
  BY <1>5, ChainedTableAssumption DEF PartChains
<1>13. stage # "build" /\ stage' # "build" /\ stage # "done"
  BY <1>1
<1>14. CASE c # Null
  <2>1. aggregate' = [aggregate EXCEPT ![c] = combine(aggregate[c], aggregate[e])] /\ part' = part
    BY <1>2, <1>14, SameOperators
  <2>2. PICK k \in DOMAIN T.local : c = T.local[k] /\ KeyOf[c] = KeyOf[e]
    BY <1>6, <1>14 DEF FoundIn
  <2> HIDE DEF c, b, U
  <2>3. c \in Rows /\ c # e
    BY <1>4, <1>8, <1>12, <2>2
  <2>4. c \in P!Live /\ e \in P!Live
    BY <1>4, <1>13, <2>2, LiveEntries DEF InParts
  <2>5. P!Live' = P!Live \ {e}
    <3>1. ASSUME NEW x PROVE InParts(x)' <=> InParts(x) /\ x # e
      <4>1. ASSUME NEW q \in P!Partitions, NEW i \in DOMAIN part[q].local PROVE part[q].local[i] # e
        <5>1. CASE q = p
          BY <1>4, <1>8, <5>1
        <5>2. CASE q # p
          BY <1>7, <1>8, <5>2
        <5> QED
          BY <5>1, <5>2
      <4>2. ASSUME NEW q \in P!Partitions PROVE x \in P!entriesLeft(q)' <=> x \in P!entriesLeft(q) /\ x # e
        <5>1. CASE q = p
          BY <1>4, <5>1
        <5>2. CASE q # p
          BY <1>3, <1>4, <1>7, <5>2, InputPlaced
        <5> QED
          BY <5>1, <5>2
      <4> QED
        BY <2>1, <4>1, <4>2 DEF InParts
    <3> QED
      BY <1>13, <3>1, LiveEntries, LiveEntriesNext
  <2>6. P!TypeOK'
    <3>1. aggregate' \in [Rows -> [Rows -> Nat]]
      BY <1>4, <1>11, <2>1, <2>3, Bags
    <3> QED
      BY <1>1, <1>3, <1>4, <2>1, <3>1 DEF P!TypeOK
  <2>7. P!PartitionsApart'
    <3>1. \A q \in P!Partitions : P!PartOK(part'[q])
      BY <1>8, <2>1
    <3>2. \A q \in P!Partitions : \A i \in DOMAIN part'[q].local :
             /\ P!partition(P!hashValue(part'[q].local[i])) = q
             /\ part'[q].local[i] \notin P!entriesLeft(q)'
      BY <1>8, <1>10, <2>1
    <3> QED
      BY <1>4, <1>9, <3>1, <3>2 DEF P!PartitionsApart
  <2>8. CountedOnce((P!Live \ {e}) \cup {c}, aggregate', KeyOf, rowsLeft)
    <3> DEFINE A == aggregate'
               L == P!Live
    <3>1. \A h \in L : h # c => A[h] = aggregate[h]
      <4>1. ASSUME NEW h \in L, h # c PROVE A[h] = aggregate[h]
        BY <1>11, <2>1, <4>1
      <4> QED
        BY <4>1
    <3>2. \A x \in Rows : c \notin L => aggregate[c][x] = 0
      BY <2>4
    <3>3. \A x \in Rows : A[c][x] = aggregate[c][x] + aggregate[e][x]
      <4>1. A[c] = combine(aggregate[c], aggregate[e])
        BY <1>11, <2>1, <2>3
      <4> QED
        BY <4>1 DEF combine
    <3>4. e \in L /\ c # e /\ KeyOf[c] = KeyOf[e] /\ CountedOnce(L, aggregate, KeyOf, rowsLeft)
      BY <1>11, <2>2, <2>3, <2>4
    <3> HIDE DEF A, L
    <3>5. CountedOnce((L \ {e}) \cup {c}, A, KeyOf, rowsLeft)
      BY <3>1, <3>2, <3>3, <3>4, CountMerge
    <3> QED
      BY <3>5 DEF A, L
  <2>9. P!RowsCounted'
    <3>1. (P!Live \ {e}) \cup {c} = P!Live'
      BY <2>3, <2>4, <2>5
    <3>2. CountedOnce(P!Live', aggregate', KeyOf, rowsLeft')
      BY <1>1, <2>8, <3>1
    <3>3. P!CountedOnce(P!Live', aggregate', KeyOf, rowsLeft')
      BY <3>2, SameOperators
    <3> QED
      BY <1>1, <1>7, <3>3 DEF P!RowsCounted
  <2>10. P!MergeInOrder'
    BY <1>1, <1>3, <1>7, <1>10, <1>13, <2>1 DEF P!MergeInOrder
  <2>11. P!Listed' /\ P!LookupRight'
    BY <1>1, <1>3, <2>1 DEF P!Listed, P!LookupRight
  <2> QED
    BY <2>6, <2>7, <2>9, <2>10, <2>11 DEF P!TableInv
<1>15. CASE c = Null
  <2>1. part' = [part EXCEPT ![p] = U] /\ aggregate' = aggregate
    BY <1>2, <1>15
  <2>2. \A i \in DOMAIN T.local : KeyOf[T.local[i]] # KeyOf[e]
    BY <1>6, <1>12, <1>15 DEF FoundIn
  <2> HIDE DEF c
  <2>3. PartChains(U) /\ IsPart(U) /\ U.task = T.task /\ U.local = Append(T.local, e)
    <3>1. b = P!bucket(T, P!hashValue(e)) /\ U = [P!push(T, b, e) EXCEPT !.local = Append(@, e)]
      BY Zenon
    <3> HIDE DEF T, b, U
    <3>2. Grown(T, e, U)
      BY <1>4, <1>5, <2>2, <3>1, PartAppend
    <3> QED
      BY <3>2 DEF Grown
  <2> HIDE DEF b, U
  <2>4. part'[p] = U /\ \A q \in P!Partitions : q # p => part'[q] = part[q]
    BY <1>5, <2>1
  <2>5. P!PartOK(U)
    BY <1>1, <2>3, PartParts
  <2> DEFINE v == T.local
             w == U.local
  <2>6. /\ Len(v) \in Nat /\ DOMAIN v = 1 .. Len(v) /\ DOMAIN w = 1 .. Len(v) + 1 /\ w[Len(v) + 1] = e
        /\ \A i \in 1 .. Len(v) : w[i] = v[i]
    BY <1>4, <1>12, <2>3, AppendSeq
  <2>7. \A x : (\E i \in DOMAIN w : w[i] = x) <=> (\E i \in DOMAIN v : v[i] = x) \/ x = e
    <3> HIDE DEF v, w
    <3>1. \A i \in DOMAIN w : i = Len(v) + 1 \/ i \in DOMAIN v
      BY <2>6
    <3>2. Len(v) + 1 \in DOMAIN w /\ DOMAIN v \subseteq DOMAIN w
      BY <2>6
    <3> QED
      BY <2>6, <3>1, <3>2
  <2>8. P!Live' = P!Live
    <3>1. ASSUME NEW x PROVE InParts(x)' <=> InParts(x)
      <4>1. ASSUME NEW q \in P!Partitions
            PROVE  (x \in P!entriesLeft(q)' \/ \E i \in DOMAIN part'[q].local : part'[q].local[i] = x)
                     <=> (x \in P!entriesLeft(q) \/ \E i \in DOMAIN part[q].local : part[q].local[i] = x)
        <5>1. CASE q = p
          BY <1>4, <2>4, <2>7, <5>1
        <5>2. CASE q # p
          BY <1>4, <2>4, <5>2
        <5> QED
          BY <5>1, <5>2
      <4> QED
        BY <4>1 DEF InParts
    <3> QED
      BY <1>13, <3>1, LiveEntries, LiveEntriesNext
  <2>9. P!TypeOK'
    <3>1. part' = [q \in P!Partitions |-> part'[q]]
      BY <1>5, <2>1
    <3> QED
      BY <1>1, <1>3, <1>4, <2>1, <3>1 DEF P!TypeOK
  <2>10. P!PartitionsApart'
    <3>1. \A q \in P!Partitions : P!PartOK(part'[q])
      BY <1>8, <2>4, <2>5
    <3>2. ASSUME NEW q \in P!Partitions, NEW i \in DOMAIN part'[q].local
          PROVE  /\ P!partition(P!hashValue(part'[q].local[i])) = q
                 /\ part'[q].local[i] \notin P!entriesLeft(q)'
      <4>1. CASE q = p
        <5>1. i \in DOMAIN w /\ part'[q].local[i] = w[i]
          BY <2>4, <3>2, <4>1
        <5>2. w[i] = e \/ \E j \in DOMAIN v : v[j] = w[i]
          BY <2>7, <5>1
        <5>3. CASE w[i] = e
          BY <1>4, <1>7, <4>1, <5>1, <5>3
        <5>4. CASE \E j \in DOMAIN v : v[j] = w[i]
          BY <1>8, <1>10, <4>1, <5>1, <5>4
        <5> QED
          BY <5>2, <5>3, <5>4
      <4>2. CASE q # p
        <5>1. part'[q] = part[q]
          BY <2>4, <4>2
        <5> QED
          BY <1>8, <1>10, <3>2, <5>1
      <4> QED
        BY <4>1, <4>2
    <3> QED
      BY <1>4, <1>9, <3>1, <3>2 DEF P!PartitionsApart
  <2>11. \A q \in P!Partitions : part'[q].task = part[q].task
    BY <2>3, <2>4
  <2>12. P!MergeInOrder'
    <3>1. \A q \in P!Partitions : part[q].task = "merged" => P!entriesLeft(q) = {}
      BY <1>3 DEF P!MergeInOrder
    <3>2. \A q \in P!Partitions : part'[q].task = "merged" => P!entriesLeft(q)' = {}
      BY <1>10, <2>11, <3>1
    <3> QED
      BY <1>1, <1>3, <1>7, <1>13, <3>2 DEF P!MergeInOrder
  <2>13. P!Listed'
    <3> DEFINE M == {q \in P!Partitions : part[q].task = "merged"}
    <3>1. {q \in P!Partitions : part'[q].task = "merged"} = M
      BY <2>11
    <3>2. p \notin M
      BY <1>1
    <3>3. \A q \in M : part'[q] = part[q]
      BY <2>4, <3>2
    <3>4. {P!ToSet(part'[q].local) : q \in M} = {P!ToSet(part[q].local) : q \in M}
      BY <3>3
    <3>5. P!ToSet(buffer) = UNION {P!ToSet(part[q].local) : q \in M} /\ P!OneEach(buffer)
      BY <1>3 DEF P!Listed
    <3> HIDE DEF M
    <3>6. P!ToSet(buffer') = UNION {P!ToSet(part'[q].local) : q \in M} /\ P!OneEach(buffer')
      BY <1>1, <3>4, <3>5
    <3> QED
      BY <3>1, <3>6 DEF P!Listed
  <2>14. P!RowsCounted' /\ P!LookupRight'
    BY <1>1, <1>3, <2>1, <2>8 DEF P!RowsCounted, P!CountedOnce, P!LookupRight
  <2> QED
    BY <2>9, <2>10, <2>12, <2>13, <2>14 DEF P!TableInv
<1> QED
  BY <1>14, <1>15

LEMMA ConcatSeq ==
    ASSUME NEW v \in Seq(Rows), NEW w \in Seq(Rows)
    PROVE  /\ v \o w \in Seq(Rows) /\ Len(v) \in Nat /\ Len(w) \in Nat
           /\ DOMAIN v = 1 .. Len(v) /\ DOMAIN w = 1 .. Len(w) /\ DOMAIN (v \o w) = 1 .. Len(v) + Len(w)
           /\ \A i \in 1 .. Len(v) : (v \o w)[i] = v[i]
           /\ \A i \in 1 .. Len(w) : (v \o w)[Len(v) + i] = w[i]
OBVIOUS

(* Buffers whose entries have different keys are joined *)
Joined(u, v, w) ==
    /\ u \in Seq(Rows) /\ OneEach(u)
    /\ \A x : (\E i \in DOMAIN u : u[i] = x) <=> (\E i \in DOMAIN v : v[i] = x) \/ (\E j \in DOMAIN w : w[j] = x)

LEMMA ConcatOneEach ==
    ASSUME NEW v \in Seq(Rows), NEW w \in Seq(Rows), OneEach(v), OneEach(w),
           \A i \in DOMAIN v : \A j \in DOMAIN w : KeyOf[v[i]] # KeyOf[w[j]],
           NEW u, u = v \o w
    PROVE  Joined(u, v, w)
<1> DEFINE m == Len(v)
           n == Len(w)
<1>1. /\ u \in Seq(Rows) /\ m \in Nat /\ n \in Nat
      /\ DOMAIN v = 1 .. m /\ DOMAIN w = 1 .. n /\ DOMAIN u = 1 .. m + n
      /\ \A i \in 1 .. m : u[i] = v[i]
      /\ \A i \in 1 .. n : u[m + i] = w[i]
  BY ConcatSeq
<1> HIDE DEF m, n
<1>2. ASSUME NEW i \in DOMAIN u
      PROVE  \/ i \in 1 .. m /\ u[i] = v[i]
             \/ i - m \in 1 .. n /\ i = m + (i - m) /\ u[i] = w[i - m]
  <2>1. i \in Int /\ (i \in 1 .. m \/ i - m \in 1 .. n) /\ i = m + (i - m)
    BY <1>1
  <2>2. i - m \in 1 .. n => u[m + (i - m)] = w[i - m]
    BY <1>1
  <2> QED
    BY <1>1, <2>1, <2>2
<1>3. OneEach(u)
  <2>1. ASSUME NEW i \in DOMAIN u, NEW j \in DOMAIN u, KeyOf[u[i]] = KeyOf[u[j]] PROVE i = j
    <3>1. CASE i \in 1 .. m /\ u[i] = v[i]
      <4>1. CASE j \in 1 .. m /\ u[j] = v[j]
        BY <1>1, <2>1, <3>1, <4>1 DEF OneEach
      <4>2. CASE j - m \in 1 .. n /\ u[j] = w[j - m]
        BY <1>1, <2>1, <3>1, <4>2
      <4> QED
        BY <1>2, <4>1, <4>2
    <3>2. CASE i - m \in 1 .. n /\ i = m + (i - m) /\ u[i] = w[i - m]
      <4>1. CASE j \in 1 .. m /\ u[j] = v[j]
        BY <1>1, <2>1, <3>2, <4>1
      <4>2. CASE j - m \in 1 .. n /\ j = m + (j - m) /\ u[j] = w[j - m]
        <5>1. i - m = j - m
          BY <1>1, <2>1, <3>2, <4>2 DEF OneEach
        <5> QED
          BY <3>2, <4>2, <5>1
      <4> QED
        BY <1>2, <4>1, <4>2
    <3> QED
      BY <1>2, <3>1, <3>2
  <2> QED
    BY <2>1 DEF OneEach
<1>4. ASSUME NEW x
      PROVE  (\E i \in DOMAIN u : u[i] = x) <=> (\E i \in DOMAIN v : v[i] = x) \/ (\E j \in DOMAIN w : w[j] = x)
  <2>1. ASSUME NEW i \in DOMAIN u, u[i] = x PROVE (\E k \in DOMAIN v : v[k] = x) \/ (\E j \in DOMAIN w : w[j] = x)
    BY <1>1, <1>2, <2>1
  <2>2. ASSUME NEW i \in DOMAIN v, v[i] = x PROVE \E k \in DOMAIN u : u[k] = x
    <3>1. i \in DOMAIN u
      BY <1>1
    <3> QED
      BY <1>1, <2>2, <3>1
  <2>3. ASSUME NEW j \in DOMAIN w, w[j] = x PROVE \E k \in DOMAIN u : u[k] = x
    <3>1. m + j \in DOMAIN u
      BY <1>1
    <3> QED
      BY <1>1, <2>3, <3>1
  <2> QED
    BY <2>1, <2>2, <2>3
<1> QED
  BY <1>1, <1>3, <1>4 DEF Joined

(* What the invariant says of the entries of the result's buffer *)
InMerged(x) == \E p \in P!Partitions : part[p].task = "merged" /\ \E i \in DOMAIN part[p].local : part[p].local[i] = x

LEMMA ListedEntries ==
    /\ P!Listed <=> OneEach(buffer) /\ \A x : (\E i \in DOMAIN buffer : buffer[i] = x) <=> InMerged(x)
    /\ P!Listed' <=> OneEach(buffer') /\ \A x : (\E i \in DOMAIN buffer' : buffer'[i] = x) <=> InMerged(x)'
<1>1. \A s, e : e \in P!ToSet(s) <=> \E i \in DOMAIN s : s[i] = e
  BY SameOperators
<1> DEFINE M == {q \in P!Partitions : part[q].task = "merged"}
           L == UNION {P!ToSet(part[p].local) : p \in M}
           M2 == {q \in P!Partitions : part'[q].task = "merged"}
           L2 == UNION {P!ToSet(part'[p].local) : p \in M2}
<1>2. \A x : x \in L <=> InMerged(x)
  BY <1>1 DEF InMerged
<1>3. \A x : x \in L2 <=> InMerged(x)'
  BY <1>1 DEF InMerged
<1>4. P!Listed <=> P!ToSet(buffer) = L /\ P!OneEach(buffer)
  BY DEF P!Listed
<1>5. P!Listed' <=> P!ToSet(buffer') = L2 /\ P!OneEach(buffer')
  BY DEF P!Listed
<1> HIDE DEF L, L2
<1>6. P!ToSet(buffer) = L <=> \A x : (\E i \in DOMAIN buffer : buffer[i] = x) <=> InMerged(x)
  BY <1>1, <1>2
<1>7. P!ToSet(buffer') = L2 <=> \A x : (\E i \in DOMAIN buffer' : buffer'[i] = x) <=> InMerged(x)'
  BY <1>1, <1>3
<1> QED
  BY <1>4, <1>5, <1>6, <1>7, SameOperators

LEMMA EndPartitionKeeps == ASSUME P!TableInv, NEW p \in P!Partitions, P!EndPartition(p) PROVE P!TableInv'
<1> DEFINE T == part[p]
           U == [part[p] EXCEPT !.task = "merged"]
<1>1. /\ stage = "merge" /\ T.task = "running" /\ P!entriesLeft(p) = {} /\ buffer' = T.local \o buffer
      /\ part' = [part EXCEPT ![p] = U]
      /\ rowsLeft' = rowsLeft /\ cache' = cache /\ outputs' = outputs /\ aggregate' = aggregate
      /\ stage' = stage /\ input' = input /\ found' = found
  BY DEF P!EndPartition
<1>2. P!TypeOK /\ P!PartitionsApart /\ P!MergeInOrder /\ P!Listed /\ P!RowsCounted /\ P!LookupRight
  BY DEF P!TableInv
<1>3. \A q \in P!Partitions : P!entriesLeft(q)' = P!entriesLeft(q)
  BY <1>1 DEF P!entriesLeft
<1>4. PartChains(T) /\ IsPart(T) /\ part = [q \in P!Partitions |-> part[q]]
  <2>1. P!PartOK(T) /\ T.task # "waiting"
    BY <1>1, <1>2 DEF P!PartitionsApart
  <2> QED
    BY <1>2, <2>1, PartParts DEF P!TypeOK
<1>5. PartFields(U, T.slots, T.next, T.local, "merged")
  <2>1. U = [slots |-> T.slots, next |-> T.next, local |-> T.local, task |-> "merged"]
    BY <1>4 DEF IsPart
  <2> HIDE DEF U, T
  <2> QED
    BY <2>1, PartRecord
<1>6. part'[p] = U /\ \A q \in P!Partitions : q # p => part'[q] = part[q]
  BY <1>1, <1>4
<1> HIDE DEF U
<1>7. U.slots = T.slots /\ U.next = T.next /\ U.local = T.local /\ U.task = "merged" /\ IsPart(U)
  BY <1>5 DEF PartFields
<1>8. P!PartOK(U)
  <2>1. P!tableSize(U) = P!tableSize(T)
    BY <1>7 DEF P!tableSize
  <2>2. PartChains(U)
    BY <1>4, <1>7, <2>1 DEF PartChains, Rest
  <2> QED
    BY <1>7, <2>2, PartParts
<1>9. \A q \in P!Partitions : part'[q].local = part[q].local
  BY <1>6, <1>7
<1>10. /\ \A q \in P!Partitions : \A i \in DOMAIN part[q].local :
            /\ P!partition(P!hashValue(part[q].local[i])) = q
            /\ part[q].local[i] \notin P!entriesLeft(q)
       /\ \A q \in P!Partitions : P!PartOK(part[q])
       /\ P!Placed(P!fragments) /\ P!Placed(input)
  BY <1>2 DEF P!PartitionsApart
<1>11. P!Placed(P!fragments)' /\ P!Placed(input)'
  BY <1>1, <1>10 DEF P!Placed, P!fragments
<1>12. P!PartitionsApart'
  <2>1. \A q \in P!Partitions : P!PartOK(part'[q])
    BY <1>6, <1>8, <1>10
  <2>2. \A q \in P!Partitions : \A i \in DOMAIN part'[q].local :
           /\ P!partition(P!hashValue(part'[q].local[i])) = q
           /\ part'[q].local[i] \notin P!entriesLeft(q)'
    BY <1>3, <1>9, <1>10
  <2> QED
    BY <1>11, <2>1, <2>2 DEF P!PartitionsApart
<1>13. P!MergeInOrder'
  <2>1. \A q \in P!Partitions : part'[q].task = "merged" => P!entriesLeft(q)' = {}
    <3>1. \A q \in P!Partitions : part[q].task = "merged" => P!entriesLeft(q) = {}
      BY <1>2 DEF P!MergeInOrder
    <3> QED
      BY <1>1, <1>3, <1>6, <3>1
  <2> QED
    BY <1>1, <1>2, <2>1 DEF P!MergeInOrder
<1>14. T.local \in Seq(Rows) /\ buffer \in Seq(Rows) /\ OneEach(T.local) /\ OneEach(buffer)
  BY <1>2, <1>4, ListedEntries DEF P!TypeOK, PartChains
<1>15. \A x : (\E i \in DOMAIN buffer : buffer[i] = x) <=> InMerged(x)
  BY <1>2, ListedEntries
<1>16. ASSUME NEW i \in DOMAIN T.local, NEW j \in DOMAIN buffer PROVE KeyOf[T.local[i]] # KeyOf[buffer[j]]
  <2>1. InMerged(buffer[j])
    BY <1>15
  <2>2. PICK q \in P!Partitions : part[q].task = "merged" /\ \E l \in DOMAIN part[q].local : part[q].local[l] = buffer[j]
    BY <2>1 DEF InMerged
  <2>3. P!partition(P!hashValue(buffer[j])) = q /\ P!partition(P!hashValue(T.local[i])) = p /\ q # p
    BY <1>1, <1>10, <2>2
  <2> QED
    BY <2>3 DEF P!hashValue
<1> DEFINE v == T.local
           w == buffer
           u == buffer'
<1>17. /\ u \in Seq(Rows) /\ OneEach(u)
       /\ \A x : (\E i \in DOMAIN u : u[i] = x) <=> (\E i \in DOMAIN v : v[i] = x) \/ (\E j \in DOMAIN w : w[j] = x)
  <2>1. u = v \o w /\ v \in Seq(Rows) /\ w \in Seq(Rows) /\ OneEach(v) /\ OneEach(w)
    BY <1>1, <1>14
  <2>2. \A i \in DOMAIN v : \A j \in DOMAIN w : KeyOf[v[i]] # KeyOf[w[j]]
    BY <1>16
  <2> HIDE DEF u, v, w
  <2>3. Joined(u, v, w)
    BY <2>1, <2>2, ConcatOneEach
  <2> QED
    BY <2>3 DEF Joined
<1>18. P!Listed'
  <2>1. ASSUME NEW x PROVE InMerged(x)' <=> InMerged(x) \/ \E i \in DOMAIN v : v[i] = x
    <3>1. ASSUME NEW q \in P!Partitions
          PROVE  (part'[q].task = "merged" /\ \E i \in DOMAIN part'[q].local : part'[q].local[i] = x)
                   <=> \/ part[q].task = "merged" /\ \E i \in DOMAIN part[q].local : part[q].local[i] = x
                       \/ q = p /\ \E i \in DOMAIN v : v[i] = x
      <4>1. CASE q = p
        BY <1>1, <1>6, <1>7, <4>1
      <4>2. CASE q # p
        BY <1>6, <4>2
      <4> QED
        BY <4>1, <4>2
    <3> HIDE DEF v
    <3> QED
      BY <3>1 DEF InMerged
  <2> HIDE DEF v, w, u
  <2>2. \A x : (\E i \in DOMAIN u : u[i] = x) <=> InMerged(x)'
    BY <1>15, <1>17, <2>1 DEF w
  <2> QED
    BY <1>17, <2>2, ListedEntries DEF u
<1>19. P!Live' = P!Live
  <2>1. ASSUME NEW x PROVE InParts(x)' <=> InParts(x)
    BY <1>3, <1>9 DEF InParts
  <2> QED
    BY <1>1, <2>1, LiveEntries, LiveEntriesNext
<1>20. P!RowsCounted'
  BY <1>1, <1>2, <1>19 DEF P!RowsCounted, P!CountedOnce
<1>21. found.key = Null
  BY <1>1, <1>2 DEF P!MergeInOrder
<1>22. P!LookupRight'
  BY <1>1, <1>21 DEF P!LookupRight
<1>23. P!TypeOK'
  <2>1. part' = [q \in P!Partitions |-> part'[q]]
    BY <1>1, <1>4
  <2> QED
    BY <1>1, <1>2, <1>17, <2>1 DEF P!TypeOK
<1> QED
  BY <1>12, <1>13, <1>18, <1>20, <1>22, <1>23 DEF P!TableInv

LEMMA EndPartitionsKeeps == ASSUME P!TableInv, P!EndMerge PROVE P!TableInv'
<1>1. /\ stage = "merge" /\ stage' = "done" /\ \A p \in P!Partitions : part[p].task = "merged"
      /\ rowsLeft' = rowsLeft /\ cache' = cache /\ outputs' = outputs /\ aggregate' = aggregate
      /\ part' = part /\ buffer' = buffer /\ input' = input /\ found' = found
  BY DEF P!EndMerge
<1>2. P!TypeOK /\ P!PartitionsApart /\ P!MergeInOrder /\ P!Listed /\ P!RowsCounted /\ P!LookupRight
  BY DEF P!TableInv
<1>3. P!TypeOK' /\ P!Listed' /\ P!LookupRight'
  BY <1>1, <1>2 DEF P!TypeOK, P!Listed, P!LookupRight
<1>4. P!PartitionsApart'
  BY <1>1, <1>2 DEF P!PartitionsApart, P!Placed, P!fragments, P!entriesLeft
<1>5. P!MergeInOrder'
  BY <1>1, <1>2 DEF P!MergeInOrder, P!entriesLeft
<1>6. P!Live' = P!Live
  BY <1>1 DEF P!Live, P!entriesLeft
<1>7. P!RowsCounted'
  BY <1>1, <1>2, <1>6 DEF P!RowsCounted, P!CountedOnce
<1> QED
  BY <1>3, <1>4, <1>5, <1>7 DEF P!TableInv

(* At the end of the merge the result's buffer has the groups *)
LEMMA PartitionGroups ==
    ASSUME P!TableInv, stage # "build", \A p \in P!Partitions : part[p].task = "merged"
    PROVE  /\ {<<KeyOf[e], aggregate[e]>> : e \in P!ToSet(buffer)}
                = {<<KeyOf[r], [x \in Rows |-> IF KeyOf[x] = KeyOf[r] THEN 1 ELSE 0]>> : r \in Rows}
           /\ \A r \in Rows : \E e \in P!ToSet(buffer) : KeyOf[e] = KeyOf[r]
<1> DEFINE X == P!ToSet(buffer)
<1>1. P!TypeOK /\ P!PartitionsApart /\ P!MergeInOrder /\ P!Listed /\ P!RowsCounted
  BY DEF P!TableInv
<1>2. \A x : x \in X <=> \E i \in DOMAIN buffer : buffer[i] = x
  BY SameOperators
<1>3. \A p \in P!Partitions : P!entriesLeft(p) = {}
  BY <1>1 DEF P!MergeInOrder
<1>4. \A x : x \in X <=> InMerged(x)
  BY <1>1, <1>2, ListedEntries
<1>5. \A x : InMerged(x) <=> InParts(x)
  BY <1>3 DEF InMerged, InParts
<1>6. X = P!Live
  BY <1>4, <1>5, LiveEntries
<1>7. rowsLeft = {} /\ aggregate \in [Rows -> [Rows -> Nat]] /\ buffer \in Seq(Rows) /\ OneEach(buffer)
  BY <1>1, SameOperators DEF P!MergeInOrder, P!TypeOK, P!Listed
<1>8. CountedOnce(X, aggregate, KeyOf, {})
  <2>1. P!CountedOnce(P!Live, aggregate, KeyOf, rowsLeft)
    BY <1>1 DEF P!RowsCounted
  <2> HIDE DEF X
  <2> QED
    BY <1>6, <1>7, <2>1, SameOperators
<1> HIDE DEF X
<1>9. X \subseteq Rows
  BY <1>2, <1>7
<1>10. \A d, e \in X : KeyOf[d] = KeyOf[e] => d = e
  <2>1. ASSUME NEW d \in X, NEW e \in X, KeyOf[d] = KeyOf[e] PROVE d = e
    <3>1. PICK i \in DOMAIN buffer : buffer[i] = d
      BY <1>2
    <3>2. PICK j \in DOMAIN buffer : buffer[j] = e
      BY <1>2
    <3>3. i = j
      BY <1>7, <2>1, <3>1, <3>2 DEF OneEach
    <3> QED
      BY <3>1, <3>2, <3>3
  <2> QED
    BY <2>1
<1>11. \A e \in X : aggregate[e] \in [Rows -> Nat] /\ \E r \in Rows : KeyOf[r] = KeyOf[e]
  BY <1>7, <1>9
<1>12. {<<KeyOf[e], aggregate[e]>> : e \in X}
        = {<<KeyOf[r], [x \in Rows |-> IF KeyOf[x] = KeyOf[r] THEN 1 ELSE 0]>> : r \in Rows}
  BY <1>8, <1>10, <1>11, CountedGroups
<1>13. \A r \in Rows : \E e \in X : KeyOf[e] = KeyOf[r]
  BY <1>8 DEF CountedOnce
<1> QED
  BY <1>12, <1>13 DEF X

LEMMA PartLookupKeeps == ASSUME P!TableInv, NEW k \in Keys, P!Lookup(k) PROVE P!TableInv'
<1> DEFINE h == PartitionHash[k]
           q == P!partition(h)
           T == part[q]
           b == P!bucket(T, h)
           x == P!find(T.next, P!filterTagged(T.slots[b], h), k)
<1>1. /\ stage = "done" /\ found' = [key |-> k, entry |-> x]
      /\ rowsLeft' = rowsLeft /\ cache' = cache /\ outputs' = outputs /\ aggregate' = aggregate
      /\ stage' = stage /\ part' = part /\ buffer' = buffer /\ input' = input
  BY DEF P!Lookup
<1>2. P!TypeOK /\ P!PartitionsApart /\ P!MergeInOrder /\ P!Listed /\ P!RowsCounted /\ P!LookupRight
  BY DEF P!TableInv
<1>3. P!TypeOK' /\ P!Listed'
  BY <1>1, <1>2 DEF P!TypeOK, P!Listed
<1>4. P!PartitionsApart'
  BY <1>1, <1>2 DEF P!PartitionsApart, P!Placed, P!fragments, P!entriesLeft
<1>5. P!Live' = P!Live
  BY <1>1 DEF P!Live, P!entriesLeft
<1>6. P!MergeInOrder'
  BY <1>1, <1>2 DEF P!MergeInOrder, P!entriesLeft
<1>7. P!RowsCounted'
  BY <1>1, <1>2, <1>5 DEF P!RowsCounted, P!CountedOnce
<1>8. q \in P!Partitions /\ \A p \in P!Partitions : part[p].task = "merged"
  BY <1>1, <1>2, PartitionHashes DEF P!MergeInOrder
<1>9. PartChains(T)
  <2>1. P!PartOK(T) /\ T.task # "waiting"
    BY <1>2, <1>8 DEF P!PartitionsApart
  <2> QED
    BY <2>1, PartParts
<1>10. FoundIn(T.local, k, x)
  <2>1. b = P!bucket(T, PartitionHash[k])
    OBVIOUS
  <2> HIDE DEF T, b
  <2> QED
    BY <1>9, <2>1, PartFinds
<1>11. \A y : y \in P!ToSet(buffer) <=> InMerged(y)
  BY <1>2, ListedEntries, SameOperators
<1>12. \A r \in Rows : \E e \in P!ToSet(buffer) : KeyOf[e] = KeyOf[r]
  BY <1>1, <1>8, PartitionGroups
<1>13. /\ \A i \in DOMAIN T.local : T.local[i] \in Rows /\ T.local[i] \in P!ToSet(buffer)
       /\ \A p \in P!Partitions : \A i \in DOMAIN part[p].local : P!partition(P!hashValue(part[p].local[i])) = p
  <2>1. T.local \in Seq(Rows)
    BY <1>9 DEF PartChains
  <2> QED
    BY <1>2, <1>8, <1>11, <2>1 DEF InMerged, P!PartitionsApart
<1>14. ASSUME NEW e \in P!ToSet(buffer), KeyOf[e] = k PROVE \E i \in DOMAIN T.local : KeyOf[T.local[i]] = k
  <2>1. PICK p \in P!Partitions : \E i \in DOMAIN part[p].local : part[p].local[i] = e
    BY <1>11 DEF InMerged
  <2>2. P!partition(P!hashValue(e)) = p
    BY <1>13, <2>1
  <2>3. p = q
    BY <1>14, <2>2 DEF P!hashValue
  <2> QED
    BY <1>14, <2>1, <2>3
<1> HIDE DEF T, x
<1>15. found'.key = k /\ found'.entry = x /\ buffer' = buffer
  BY <1>1
<1>16. CASE \E r \in Rows : KeyOf[r] = k
  <2>1. \E i \in DOMAIN T.local : KeyOf[T.local[i]] = k
    BY <1>12, <1>14, <1>16
  <2>2. x \in P!ToSet(buffer) /\ KeyOf[x] = k
    BY <1>10, <1>13, <2>1, ChainedTableAssumption DEF FoundIn
  <2>3. P!LookupRight'
    BY <1>15, <1>16, <2>2 DEF P!LookupRight
  <2> QED
    BY <1>3, <1>4, <1>6, <1>7, <2>3 DEF P!TableInv
<1>17. CASE ~\E r \in Rows : KeyOf[r] = k
  <2>1. x = Null
    BY <1>10, <1>13, <1>17 DEF FoundIn
  <2>2. P!LookupRight'
    BY <1>15, <1>17, <2>1 DEF P!LookupRight
  <2> QED
    BY <1>3, <1>4, <1>6, <1>7, <2>2 DEF P!TableInv
<1> QED
  BY <1>16, <1>17

LEMMA PreInvStep == P!TableInv /\ [P!Next]_(P!vars) => P!TableInv'
<1> SUFFICES ASSUME P!TableInv, [P!Next]_(P!vars) PROVE P!TableInv'
  OBVIOUS
<1>1. CASE \E t \in Threads : P!Hit(t) \/ P!Insert(t)
  BY <1>1, HitKeeps, InsertKeeps
<1>2. CASE P!StartMerge
  BY <1>2, StartPartitionsKeeps
<1>3. CASE \E p \in P!Partitions : P!StartPartition(p) \/ P!EndPartition(p)
  BY <1>3, StartPartitionKeeps, EndPartitionKeeps
<1>4. CASE \E p \in P!Partitions : \E t \in Threads : P!MergeEntry(p, t)
  BY <1>4, TaskKeeps
<1>5. CASE P!EndMerge
  BY <1>5, EndPartitionsKeeps
<1>6. CASE \E k \in Keys : P!Lookup(k)
  BY <1>6, PartLookupKeeps
<1>7. CASE UNCHANGED P!vars
  <2>1. /\ rowsLeft' = rowsLeft /\ cache' = cache /\ outputs' = outputs /\ aggregate' = aggregate
        /\ stage' = stage /\ part' = part /\ buffer' = buffer /\ input' = input /\ found' = found
    BY <1>7 DEF P!vars
  <2>2. P!TypeOK' /\ P!Listed' /\ P!LookupRight'
    BY <2>1 DEF P!TableInv, P!TypeOK, P!Listed, P!LookupRight
  <2>3. P!PartitionsApart'
    BY <2>1 DEF P!TableInv, P!PartitionsApart, P!Placed, P!fragments, P!entriesLeft
  <2>4. P!Live' = P!Live
    BY <2>1 DEF P!Live, P!entriesLeft
  <2>5. P!MergeInOrder'
    BY <2>1, <2>4 DEF P!TableInv, P!MergeInOrder, P!entriesLeft
  <2>6. P!RowsCounted'
    BY <2>1, <2>4 DEF P!TableInv, P!RowsCounted, P!CountedOnce
  <2> QED
    BY <2>2, <2>3, <2>5, <2>6 DEF P!TableInv
<1> QED
  BY <1>1, <1>2, <1>3, <1>4, <1>5, <1>6, <1>7 DEF P!Next

(* The steps of PreAggregationHashtable are steps of GroupBy *)
LEMMA PreGroupByStep == P!TableInv /\ [P!Next]_(P!vars) => [P!Abstract!Next]_(P!Abstract!vars)
<1> SUFFICES ASSUME P!TableInv, [P!Next]_(P!vars) PROVE [P!Abstract!Next]_(P!Abstract!vars)
  OBVIOUS
<1> DEFINE groups == IF stage = "done" THEN {<<KeyOf[e], aggregate[e]>> : e \in P!ToSet(buffer)} ELSE Null
<1>1. CASE \E t \in Threads : P!Hit(t) \/ P!Insert(t)
  <2>1. stage = "build" /\ stage' = "build" /\ \E r \in rowsLeft : rowsLeft' = rowsLeft \ {r}
    BY <1>1 DEF P!Hit, P!Insert
  <2> QED
    BY <2>1 DEF P!Abstract!Next, P!Abstract!Consume
<1>2. CASE P!StartMerge \/ \E p \in P!Partitions :
             P!StartPartition(p) \/ (\E t \in Threads : P!MergeEntry(p, t)) \/ P!EndPartition(p)
  <2>1. stage # "done" /\ stage' # "done" /\ rowsLeft' = rowsLeft
    BY <1>2 DEF P!StartMerge, P!StartPartition, P!MergeEntry, P!Iterated, P!EndPartition
  <2> QED
    BY <2>1 DEF P!Abstract!vars
<1>3. CASE P!EndMerge
  <2>1. /\ stage = "merge" /\ stage' = "done" /\ \A p \in P!Partitions : part[p].task = "merged"
        /\ rowsLeft' = rowsLeft /\ aggregate' = aggregate /\ buffer' = buffer
    BY <1>3 DEF P!EndMerge
  <2>2. rowsLeft = {}
    BY <2>1 DEF P!TableInv, P!MergeInOrder
  <2>3. {<<KeyOf[e], aggregate[e]>> : e \in P!ToSet(buffer)}
          = {<<KeyOf[r], [x \in Rows |-> IF KeyOf[x] = KeyOf[r] THEN 1 ELSE 0]>> : r \in Rows}
    BY <2>1, PartitionGroups
  <2>4. groups = Null /\ groups' = {<<KeyOf[e], aggregate[e]>> : e \in P!ToSet(buffer)}
    BY <2>1
  <2>5. P!Abstract!Finish
    BY <2>1, <2>2, <2>3, <2>4 DEF P!Abstract!Finish, P!Abstract!Aggregate
  <2> QED
    BY <2>5 DEF P!Abstract!Next
<1>4. CASE (\E k \in Keys : P!Lookup(k)) \/ UNCHANGED P!vars
  <2>1. stage' = stage /\ rowsLeft' = rowsLeft /\ aggregate' = aggregate /\ buffer' = buffer
    BY <1>4 DEF P!Lookup, P!vars
  <2> QED
    BY <2>1 DEF P!Abstract!vars
<1> QED
  BY <1>1, <1>2, <1>3, <1>4 DEF P!Next

-----------------------------------------------------------------------------
(* Both tables *)

LEMMA AggregationInvInit == AggregationInit => TableInv /\ P!TableInv
BY TableInvInit, PreInvInit DEF AggregationInit

(* A step of the one table leaves the other alone *)
LEMMA AggregationSteps ==
    [AggregationNext]_<<table, vars, preVars>> => [Next]_vars /\ [P!Next]_(P!vars)
BY DEF AggregationNext, preVars, P!vars

LEMMA AggregationInv == AggregationSpec => [](TableInv /\ P!TableInv)
<1>1. AggregationInit => TableInv /\ P!TableInv
  BY AggregationInvInit
<1>2. (TableInv /\ P!TableInv) /\ [AggregationNext]_<<table, vars, preVars>> => (TableInv /\ P!TableInv)'
  BY AggregationSteps, TableInvStep, PreInvStep
<1> QED
  BY <1>1, <1>2, PTL DEF AggregationSpec

(* In every table of a worker, at any time of the build and of the merge, the *)
(* chain walk of Hashtable::lookup finds an entry under its own key: resize   *)
(* relinks all entries and leaves no chain broken or circular.                *)
THEOREM EntriesStayFindable == AggregationSpec => []EntriesFindable
BY AggregationInv, TableInvFindable, PTL

(* After the merge a lookup returns the group of the key if some row has the  *)
(* key and nothing otherwise, in the merged Hashtable and in the partitioned  *)
(* tables of a PreAggregationHashtable, whatever hashes and tags collide.     *)
THEOREM LookupsStayRight == AggregationSpec => []LookupsRight
<1>1. TableInv /\ P!TableInv => LookupsRight
  BY DEF TableInv, P!TableInv, LookupsRight
<1> QED
  BY <1>1, AggregationInv, PTL

(* The buffer that PreAggregationHashtable::merge puts together from the      *)
(* partitions has no second entry of a group, in whatever order tasks end.    *)
THEOREM GroupsStayListedOnce == AggregationSpec => []GroupsListedOnce
<1>1. P!TableInv => GroupsListedOnce
  BY DEF P!TableInv, P!Listed, P!OneEach, GroupsListedOnce, P!GroupsListedOnce
<1> QED
  BY <1>1, AggregationInv, PTL

(* Both tables implement the group-by: a row is counted once in the group of  *)
(* its key, however rows fall to workers, caches evict and tasks interleave.  *)
THEOREM TablesImplementGroupBy == AggregationSpec => BothImplementGroupBy
<1>1. AggregationInit => Abstract!Init /\ P!Abstract!Init
  <2> SUFFICES ASSUME AggregationInit PROVE Abstract!Init /\ P!Abstract!Init
    OBVIOUS
  <2>1. todo = Rows /\ phase = "build"
    BY DEF AggregationInit, Init
  <2>2. rowsLeft = Rows /\ stage = "build"
    BY DEF AggregationInit, P!Init
  <2> QED
    BY <2>1, <2>2 DEF Abstract!Init, P!Abstract!Init
<1>2. (TableInv /\ P!TableInv) /\ [AggregationNext]_<<table, vars, preVars>>
        => [Abstract!Next]_(Abstract!vars) /\ [P!Abstract!Next]_(P!Abstract!vars)
  BY AggregationSteps, GroupByStep, PreGroupByStep
<1> QED
  BY <1>1, <1>2, AggregationInv, PTL
     DEF AggregationSpec, BothImplementGroupBy, ImplementsGroupBy, P!ImplementsGroupBy, Abstract!Spec, P!Abstract!Spec
=============================================================================
