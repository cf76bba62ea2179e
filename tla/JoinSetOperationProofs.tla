----------------------- MODULE JoinSetOperationProofs -----------------------
(***************************************************************************)
(* The operators with two inputs.  For any tables, predicates and hash     *)
(* values, under every implementation the optimizer may pick and every     *)
(* order of the rows, a join returns what SQL gives it, provided that its  *)
(* keys are apart (JoinCovered).  The set operations are right for every   *)
(* set of rows and any number of copies.                                   *)
(***************************************************************************)
EXTENDS Join, SetOperation, FiniteSetTheorems, WellFoundedInduction, TLAPS

(* Induction over the naturals, in the form of a least counterexample *)
LEMMA LeastNat == ASSUME NEW S, S \subseteq Nat, S # {} PROVE \E n \in S : \A m \in S : n <= m
<1> DEFINE R == {ss \in Nat \X Nat : ss[1] < ss[2]}
<1>0. OpToRel(<, Nat) = R
  BY DEF OpToRel
<1>1. IsWellFoundedOn(R, Nat)
  BY <1>0, NatLessThanWellFounded
<1>2. IsWellFoundedOn(R, S)
  BY <1>1, IsWellFoundedOnSubset
<1>3. \A a, b \in Nat : <<a, b>> \in R <=> a < b
  OBVIOUS
<1> HIDE DEF R
<1>4. PICK n \in S : \A m \in S : ~(<<m, n>> \in R)
  BY <1>2, WFMin
<1>5. \A m \in S : ~(m < n)
  BY <1>3, <1>4
<1> QED
  BY <1>5

-----------------------------------------------------------------------------
(* Keys of a predicate                                                     *)

\* An operand once it is the key of a side: a column of that side.
Key(o, ks) == [o EXCEPT !.sides = IF o.plain THEN @ ELSE {ks}, !.plain = TRUE]

SameValue(o, p) == o.of = p.of /\ o.col = p.col /\ o.val = p.val

LEMMA KeyFields ==
    ASSUME NEW o \in Operand, NEW ks \in Sides
    PROVE  /\ Key(o, ks) \in Operand /\ SameValue(Key(o, ks), o)
           /\ Key(o, ks).plain /\ Key(o, ks).sides = IF o.plain THEN o.sides ELSE {ks}
           /\ o.plain => Key(o, ks) = o
BY DEF Key, SameValue, Operand, Sides

LEMMA SidesApart ==
    /\ {} # {"l"} /\ {} # {"r"} /\ {"l"} # {"r"}
    /\ Other("l") = "r" /\ Other("r") = "l"
    /\ \A ks \in Sides : Other(ks) \in Sides /\ Other(Other(ks)) = ks /\ Other(ks) # ks
BY DEF Other, Sides

\* The operands of a comparison that are its keys for either side.
LEMMA KeySides ==
    ASSUME NEW c \in Comparison, c.l.sides # c.r.sides, NEW ks \in Sides
    PROVE  /\ \/ KeyFor(c, ks) = c.l /\ KeyFor(c, Other(ks)) = c.r
              \/ KeyFor(c, ks) = c.r /\ KeyFor(c, Other(ks)) = c.l
           /\ KeyFor(c, ks) \in Operand /\ KeyFor(c, ks).sides \in {{}, {ks}}
<1>1. /\ c.l \in Operand /\ c.r \in Operand
      /\ c.l.sides \in {{}, {"l"}, {"r"}} /\ c.r.sides \in {{}, {"l"}, {"r"}}
  BY DEF Comparison, Operand
<1>2. CASE ks = "l"
  BY <1>1, <1>2, SidesApart DEF KeyFor
<1>3. CASE ks = "r"
  BY <1>1, <1>3, SidesApart DEF KeyFor
<1> QED
  BY <1>2, <1>3 DEF Sides

\* The operands outside of ORs.  What extracting keys relies on and keeps:
\* operands with the same value are one operand, and the keys are apart.
Compared(pred) == {j \in DOMAIN pred : pred[j].op # "or"}
Operands(pred) == UNION {{pred[j].l, pred[j].r} : j \in Compared(pred)}
Good(pred) ==
    /\ pred \in Seq(Conjunct)
    /\ \A o, p \in Operands(pred) : SameValue(o, p) => o = p
    /\ KeysApart(pred)

LEMMA GoodTypes ==
    ASSUME NEW pred \in Seq(Conjunct)
    PROVE  /\ DOMAIN pred = 1 .. Len(pred) /\ Len(pred) \in Nat
           /\ \A j \in Compared(pred) : pred[j] \in Comparison /\ pred[j].l \in Operand /\ pred[j].r \in Operand
           /\ \A j \in DOMAIN pred \ Compared(pred) : pred[j].op = "or"
           /\ Operands(pred) \subseteq Operand
           /\ Keyed(pred) \subseteq Compared(pred) /\ Compared(pred) \subseteq DOMAIN pred
           /\ \A j \in DOMAIN pred : IsEqualityPred(pred[j]) => j \in Compared(pred)
<1>1. DOMAIN pred = 1 .. Len(pred) /\ Len(pred) \in Nat /\ \A j \in DOMAIN pred : pred[j] \in Conjunct
  OBVIOUS
<1>2. \A j \in Compared(pred) : pred[j] \in Comparison
  BY <1>1 DEF Compared, Conjunct
<1>3. \A j \in Compared(pred) : pred[j].l \in Operand /\ pred[j].r \in Operand
  BY <1>2 DEF Comparison
<1> QED
  BY <1>1, <1>2, <1>3 DEF Compared, Operands, Keyed, IsEqualityPred

\* The predicate when the walk for a side has passed the first n conjuncts:
\* the keys taken so far are replaced wherever they are compared.
Taken(pred, ks, n) == {KeyFor(pred[j], ks) : j \in {j \in Keyed(pred) : j <= n}}
Fresh(pred, ks, n) == {Key(o, ks) : o \in {o \in Taken(pred, ks, n) : ~o.plain}}
Now(pred, ks, n, o) == IF o \in Taken(pred, ks, n) THEN Key(o, ks) ELSE o
Replaced(pred, ks, n) ==
    [j \in DOMAIN pred |->
        IF pred[j].op = "or" THEN pred[j]
        ELSE [pred[j] EXCEPT !.l = Now(pred, ks, n, @), !.r = Now(pred, ks, n, @)]]

LEMMA TakenOperands ==
    ASSUME NEW pred \in Seq(Conjunct), NEW ks \in Sides, NEW n
    PROVE  Taken(pred, ks, n) \subseteq Operands(pred)
<1>1. ASSUME NEW j \in Keyed(pred) PROVE KeyFor(pred[j], ks) \in Operands(pred)
  <2>1. j \in Compared(pred)
    BY <1>1, GoodTypes
  <2> QED
    BY <2>1 DEF Operands, KeyFor
<1> QED
  BY <1>1 DEF Taken

LEMMA NowFields ==
    ASSUME NEW pred, Good(pred), NEW ks \in Sides, NEW n, NEW o \in Operands(pred)
    PROVE  /\ Now(pred, ks, n, o) \in Operand
           /\ SameValue(Now(pred, ks, n, o), o)
           /\ Now(pred, ks, n, o) \in Fresh(pred, ks, n) <=> o \in Taken(pred, ks, n) /\ ~o.plain
           /\ Now(pred, ks, n, o).sides =
                IF o \in Taken(pred, ks, n) /\ ~o.plain THEN {ks} ELSE o.sides
           /\ Now(pred, ks, n, o).plain <=> o.plain \/ o \in Taken(pred, ks, n)
<1>1. pred \in Seq(Conjunct) /\ Taken(pred, ks, n) \subseteq Operands(pred) /\ Operands(pred) \subseteq Operand
  BY TakenOperands, GoodTypes DEF Good
<1>2. /\ Now(pred, ks, n, o) \in Operand /\ SameValue(Now(pred, ks, n, o), o)
      /\ Now(pred, ks, n, o).sides = IF o \in Taken(pred, ks, n) /\ ~o.plain THEN {ks} ELSE o.sides
      /\ Now(pred, ks, n, o).plain <=> o.plain \/ o \in Taken(pred, ks, n)
  BY <1>1, KeyFields DEF Now, SameValue, Operand
<1>3. ASSUME o \in Taken(pred, ks, n), ~o.plain PROVE Now(pred, ks, n, o) \in Fresh(pred, ks, n)
  BY <1>3 DEF Now, Fresh
<1>4. ASSUME Now(pred, ks, n, o) \in Fresh(pred, ks, n) PROVE o \in Taken(pred, ks, n) /\ ~o.plain
  <2>1. PICK p \in Taken(pred, ks, n) : ~p.plain /\ Now(pred, ks, n, o) = Key(p, ks)
    BY <1>4 DEF Fresh
  <2>2. SameValue(o, p)
    <3>1. p \in Operand /\ SameValue(Key(p, ks), p)
      BY <1>1, <2>1, KeyFields
    <3> QED
      BY <1>2, <2>1, <3>1 DEF SameValue
  <2>3. o = p
    BY <1>1, <2>1, <2>2 DEF Good
  <2> QED
    BY <2>1, <2>3
<1> QED
  BY <1>2, <1>3, <1>4

LEMMA NowInjective ==
    ASSUME NEW pred, Good(pred), NEW ks \in Sides, NEW n, NEW o \in Operands(pred), NEW p \in Operands(pred)
    PROVE  Now(pred, ks, n, o) = Now(pred, ks, n, p) => o = p
<1>1. SameValue(Now(pred, ks, n, o), o) /\ SameValue(Now(pred, ks, n, p), p)
  BY NowFields
<1> QED
  BY <1>1 DEF Good, SameValue

LEMMA ReplacedFields ==
    ASSUME NEW pred, Good(pred), NEW ks \in Sides, NEW n
    PROVE  /\ Replaced(pred, ks, n) \in Seq(Conjunct)
           /\ Len(Replaced(pred, ks, n)) = Len(pred) /\ DOMAIN Replaced(pred, ks, n) = DOMAIN pred
           /\ \A j \in DOMAIN pred : Replaced(pred, ks, n)[j].op = pred[j].op
           /\ \A j \in DOMAIN pred : pred[j].op = "or" => Replaced(pred, ks, n)[j] = pred[j]
           /\ \A j \in Compared(pred) :
                 /\ Replaced(pred, ks, n)[j] = [op |-> pred[j].op, l |-> Now(pred, ks, n, pred[j].l),
                                                                   r |-> Now(pred, ks, n, pred[j].r)]
                 /\ pred[j].l \in Operands(pred) /\ pred[j].r \in Operands(pred)
<1> DEFINE R == Replaced(pred, ks, n)
<1>1. pred \in Seq(Conjunct) /\ DOMAIN pred = 1 .. Len(pred) /\ Len(pred) \in Nat
      /\ \A j \in DOMAIN pred : pred[j] \in Conjunct
  BY DEF Good
<1>2. ASSUME NEW j \in Compared(pred)
      PROVE  /\ R[j] = [op |-> pred[j].op, l |-> Now(pred, ks, n, pred[j].l), r |-> Now(pred, ks, n, pred[j].r)]
             /\ R[j] \in Conjunct /\ R[j].op = pred[j].op
             /\ pred[j].l \in Operands(pred) /\ pred[j].r \in Operands(pred)
  <2>1. pred[j] \in Comparison /\ j \in DOMAIN pred /\ pred[j].op # "or"
    BY <1>1, GoodTypes DEF Compared
  <2>2. pred[j].l \in Operands(pred) /\ pred[j].r \in Operands(pred)
    BY DEF Operands
  <2>3. Now(pred, ks, n, pred[j].l) \in Operand /\ Now(pred, ks, n, pred[j].r) \in Operand
    BY <2>2, NowFields
  <2>4. R[j] = [pred[j] EXCEPT !.l = Now(pred, ks, n, @), !.r = Now(pred, ks, n, @)]
    BY <2>1 DEF Replaced
  <2>5. R[j] = [op |-> pred[j].op, l |-> Now(pred, ks, n, pred[j].l), r |-> Now(pred, ks, n, pred[j].r)]
    <3> HIDE DEF R
    <3> QED
      BY <2>1, <2>4 DEF Comparison
  <2> HIDE DEF R
  <2>6. R[j].op = pred[j].op
    BY <2>5
  <2> QED
    BY <2>1, <2>2, <2>3, <2>5, <2>6 DEF Conjunct, Comparison
<1>3. ASSUME NEW j \in DOMAIN pred, pred[j].op = "or" PROVE R[j] = pred[j]
  BY <1>3 DEF Replaced
<1>4. DOMAIN R = DOMAIN pred
  BY DEF Replaced
<1>5. ASSUME NEW j \in DOMAIN pred PROVE R[j].op = pred[j].op /\ R[j] \in Conjunct
  <2> HIDE DEF R
  <2>1. CASE pred[j].op = "or"
    BY <1>1, <1>3, <2>1
  <2>2. CASE pred[j].op # "or"
    <3>1. j \in Compared(pred)
      BY <2>2 DEF Compared
    <3> QED
      BY <1>2, <3>1
  <2> QED
    BY <2>1, <2>2
<1>6. R \in Seq(Conjunct) /\ Len(R) = Len(pred)
  <2>1. R = [j \in 1 .. Len(pred) |-> R[j]]
    BY <1>1 DEF Replaced
  <2> HIDE DEF R
  <2> QED
    BY <1>1, <1>4, <1>5, <2>1
<1> QED
  BY <1>2, <1>3, <1>4, <1>5, <1>6

\* What the walk takes from a conjunct, given what it took before: the key of
\* an equality between the sides, from other conjuncts nothing.
LEMMA KeyValTaken ==
    ASSUME NEW pred, Good(pred), NEW ks \in Sides, NEW i \in DOMAIN pred
    PROVE  KeyVal(Replaced(pred, ks, i - 1)[i], ks, Fresh(pred, ks, i - 1)) =
             IF i \in Keyed(pred) THEN <<Now(pred, ks, i - 1, KeyFor(pred[i], ks))>> ELSE <<>>
<1> DEFINE n == i - 1
           c == Replaced(pred, ks, n)[i]
           F == Fresh(pred, ks, n)
           required(o) == IF o \in F THEN {} ELSE o.sides
           fits(k, o) == required(k) \subseteq {ks} /\ required(o) \subseteq {Other(ks)}
<1>0. pred \in Seq(Conjunct) /\ KeysApart(pred) /\ i \in Nat /\ n < i /\ n \in Int
  BY DEF Good
<1>1. c.op = pred[i].op
  BY ReplacedFields
<1>2. CASE ~IsEqualityPred(pred[i])
  <2>1. ~IsEqualityPred(c) /\ i \notin Keyed(pred)
    BY <1>1, <1>2 DEF IsEqualityPred, Keyed
  <2> HIDE DEF c
  <2>2. KeyVal(c, ks, F) = <<>>
    BY <2>1 DEF KeyVal
  <2> QED
    BY <2>1, <2>2 DEF c
<1>3. CASE IsEqualityPred(pred[i])
  <2>0. IsEqualityPred(c)
    BY <1>1, <1>3 DEF IsEqualityPred
  <2>1. i \in Compared(pred) /\ pred[i] \in Comparison
    BY <1>0, <1>3, GoodTypes
  <2>2. /\ c.l = Now(pred, ks, n, pred[i].l) /\ c.r = Now(pred, ks, n, pred[i].r)
        /\ pred[i].l \in Operands(pred) /\ pred[i].r \in Operands(pred)
    <3>1. /\ c = [op |-> pred[i].op, l |-> Now(pred, ks, n, pred[i].l), r |-> Now(pred, ks, n, pred[i].r)]
          /\ pred[i].l \in Operands(pred) /\ pred[i].r \in Operands(pred)
      <4> HIDE DEF n
      <4> QED
        BY <2>1, ReplacedFields
    <3> HIDE DEF c
    <3> QED
      BY <3>1
  <2>3. KeyVal(c, ks, F) = IF fits(c.l, c.r) THEN <<c.l>> ELSE IF fits(c.r, c.l) THEN <<c.r>> ELSE <<>>
    BY <2>0 DEF KeyVal
  <2>4. \A o \in Operands(pred) : required(Now(pred, ks, n, o)) =
            IF o \in Taken(pred, ks, n) /\ ~o.plain THEN {} ELSE o.sides
    BY NowFields
  <2>5. ASSUME NEW o \in Operands(pred), o \in Taken(pred, ks, n), ~o.plain, o \in {pred[i].l, pred[i].r}
        PROVE  i \in Keyed(pred) /\ KeyFor(pred[i], Other(ks)).sides # {}
    <3>1. PICK j \in Keyed(pred) : j <= n /\ o = KeyFor(pred[j], ks)
      BY <2>5 DEF Taken
    <3>2. j # i /\ i \in DOMAIN pred \ {j}
      BY <1>0, <3>1, GoodTypes
    <3> QED
      BY <1>0, <1>3, <2>5, <3>1, <3>2 DEF KeysApart
  <2> HIDE DEF c, F, n
  <2>6. CASE i \notin Keyed(pred)
    <3>1. pred[i].l.sides = pred[i].r.sides
      BY <1>3, <2>6 DEF Keyed
    <3>2. pred[i].l.sides # {} /\ pred[i].l \in Operand
      BY <1>0, <1>3, <2>1, <3>1 DEF KeysApart, Comparison
    <3>3. required(c.l) = pred[i].l.sides /\ required(c.r) = pred[i].r.sides
      BY <2>2, <2>4, <2>5, <2>6
    <3>4. pred[i].l.sides = {"l"} \/ pred[i].l.sides = {"r"}
      BY <3>2 DEF Operand
    <3> HIDE DEF required
    <3>5. ~fits(c.l, c.r) /\ ~fits(c.r, c.l)
      BY <3>1, <3>3, <3>4, SidesApart
    <3> QED
      BY <2>3, <2>6, <3>5 DEF c, F, n
  <2>7. CASE i \in Keyed(pred)
    <3> DEFINE K == KeyFor(pred[i], ks)
               O == KeyFor(pred[i], Other(ks))
    <3>1. /\ \/ K = pred[i].l /\ O = pred[i].r
             \/ K = pred[i].r /\ O = pred[i].l
          /\ K.sides \in {{}, {ks}} /\ O.sides \in {{}, {Other(ks)}}
          /\ K.sides # O.sides
      <4>1. pred[i].l.sides # pred[i].r.sides /\ Other(ks) \in Sides /\ Other(Other(ks)) = ks
        BY <2>7, SidesApart DEF Keyed
      <4>2. /\ \/ K = pred[i].l /\ O = pred[i].r
               \/ K = pred[i].r /\ O = pred[i].l
            /\ K.sides \in {{}, {ks}}
        BY <2>1, <4>1, KeySides
      <4>3. O.sides \in {{}, {Other(ks)}}
        BY <2>1, <4>1, KeySides
      <4> QED
        BY <4>1, <4>2, <4>3
    <3>2. K \in Operands(pred) /\ O \in Operands(pred)
      BY <2>2, <3>1
    <3>3. O \notin Taken(pred, ks, n)
      <4>1. \A j \in Keyed(pred) : KeyFor(pred[j], ks) # O
        <5>1. CASE ks = "l"
          BY <1>0, <2>7, <5>1, SidesApart DEF KeysApart
        <5>2. CASE ks = "r"
          BY <1>0, <2>7, <5>2, SidesApart DEF KeysApart
        <5> QED
          BY <5>1, <5>2 DEF Sides
      <4> QED
        BY <4>1 DEF Taken
    <3> DEFINE NK == Now(pred, ks, n, K)
               NO == Now(pred, ks, n, O)
    <3>4. required(NO) = O.sides /\ required(NK) \in {{}, K.sides}
      BY <2>4, <3>2, <3>3
    <3>5. O.sides = {} => required(NK) = {ks}
      BY <2>4, <2>5, <3>1, <3>2
    <3>6. /\ \/ c.l = NK /\ c.r = NO
             \/ c.r = NK /\ c.l = NO
      BY <2>2, <3>1
    <3> HIDE DEF required, K, O, NK, NO
    <3>7. fits(NK, NO) /\ ~fits(NO, NK)
      <4>1. {ks} # {Other(ks)} /\ ks # Other(ks)
        BY SidesApart
      <4>2. {Other(ks)} \subseteq {ks} <=> FALSE
        BY <4>1
      <4>3. {ks} \subseteq {Other(ks)} <=> FALSE
        BY <4>1
      <4>4. required(NK) \in {{}, {ks}} /\ required(NO) \in {{}, {Other(ks)}}
        BY <3>1, <3>4
      <4>5. fits(NK, NO)
        BY <4>4
      <4>6. ~fits(NO, NK)
        BY <3>1, <3>4, <3>5, <4>2, <4>3
      <4> QED
        BY <4>5, <4>6
    <3>8. KeyVal(c, ks, F) = <<NK>>
      BY <2>3, <3>6, <3>7
    <3> QED
      BY <2>7, <3>8 DEF c, F, n, NK, K
  <2> QED
    BY <2>6, <2>7
<1> QED
  BY <1>2, <1>3

\* The place of a comparison's key in the list of keys, and back.
LEMMA RankType ==
    ASSUME NEW pred \in Seq(Conjunct), NEW n \in Nat
    PROVE  /\ IsFiniteSet({j \in Keyed(pred) : j <= n}) /\ Rank(pred, n) \in Nat
           /\ IsFiniteSet(Keyed(pred)) /\ Keyed(pred) \subseteq 1 .. Len(pred)
<1>1. Keyed(pred) \subseteq 1 .. Len(pred) /\ Len(pred) \in Nat
  BY GoodTypes
<1>2. IsFiniteSet(1 .. Len(pred))
  BY <1>1, FS_Interval
<1>3. IsFiniteSet(Keyed(pred))
  BY <1>1, <1>2, FS_Subset
<1>4. {j \in Keyed(pred) : j <= n} \in SUBSET Keyed(pred)
  OBVIOUS
<1>5. IsFiniteSet({j \in Keyed(pred) : j <= n})
  BY <1>3, <1>4, FS_Subset
<1> QED
  BY <1>1, <1>3, <1>5, FS_CardinalityType DEF Rank

LEMMA RankStep ==
    ASSUME NEW pred \in Seq(Conjunct), NEW i \in 1 .. Len(pred)
    PROVE  Rank(pred, i) = IF i \in Keyed(pred) THEN Rank(pred, i - 1) + 1 ELSE Rank(pred, i - 1)
<1> DEFINE S == {j \in Keyed(pred) : j <= i - 1}
<1>1. i - 1 \in Nat /\ i \in Nat /\ Keyed(pred) \subseteq Nat
  BY GoodTypes
<1>2. IsFiniteSet(S) /\ i \notin S
  BY <1>1, RankType
<1>3. CASE i \in Keyed(pred)
  <2>1. {j \in Keyed(pred) : j <= i} = S \cup {i}
    BY <1>1, <1>3
  <2> HIDE DEF S
  <2>2. Cardinality(S \cup {i}) = Cardinality(S) + 1
    BY <1>2, FS_AddElement
  <2> QED
    <3>1. Rank(pred, i) = Cardinality(S \cup {i}) /\ Rank(pred, i - 1) = Cardinality(S)
      BY <2>1 DEF Rank, S
    <3> QED
      BY <1>3, <2>2, <3>1
<1>4. CASE i \notin Keyed(pred)
  <2>1. {j \in Keyed(pred) : j <= i} = S
    BY <1>1, <1>4
  <2> QED
    BY <1>4, <2>1 DEF Rank
<1> QED
  BY <1>3, <1>4

LEMMA RankEnds ==
    ASSUME NEW pred \in Seq(Conjunct)
    PROVE  Rank(pred, 0) = 0 /\ Rank(pred, Len(pred)) = Cardinality(Keyed(pred))
<1>1. Keyed(pred) \subseteq 1 .. Len(pred) /\ Len(pred) \in Nat
  BY GoodTypes
<1>2. {j \in Keyed(pred) : j <= 0} = {} /\ {j \in Keyed(pred) : j <= Len(pred)} = Keyed(pred)
  BY <1>1
<1> QED
  BY <1>2, FS_EmptySet DEF Rank

LEMMA RankOrder ==
    ASSUME NEW pred \in Seq(Conjunct), NEW i \in Keyed(pred)
    PROVE  /\ \A n \in Nat : i <= n => Rank(pred, i) \in 1 .. Rank(pred, n)
           /\ \A j \in Keyed(pred) : Rank(pred, i) = Rank(pred, j) => i = j
<1>1. Keyed(pred) \subseteq Nat /\ \A j \in Keyed(pred) : j \in 1 .. Len(pred) /\ j \in Nat
  BY GoodTypes
<1>2. ASSUME NEW m \in Nat, NEW n \in Nat, m <= n
      PROVE  Rank(pred, m) <= Rank(pred, n)
                /\ (Rank(pred, m) = Rank(pred, n) => {j \in Keyed(pred) : j <= m} = {j \in Keyed(pred) : j <= n})
  <2>1. {j \in Keyed(pred) : j <= m} \in SUBSET {j \in Keyed(pred) : j <= n}
    BY <1>1, <1>2
  <2>2. IsFiniteSet({j \in Keyed(pred) : j <= n})
    BY RankType
  <2> QED
    BY <2>1, <2>2, FS_Subset DEF Rank
<1>3. ASSUME NEW n \in Nat, i <= n PROVE Rank(pred, i) \in 1 .. Rank(pred, n)
  <2>1. i \in Nat /\ i \in 1 .. Len(pred) /\ i - 1 \in Nat
    BY <1>1
  <2>2. Rank(pred, i) = Rank(pred, i - 1) + 1
    BY <2>1, RankStep
  <2>3. Rank(pred, i) \in Nat /\ Rank(pred, n) \in Nat /\ Rank(pred, i - 1) \in Nat
    BY <2>1, RankType
  <2>4. Rank(pred, i) <= Rank(pred, n)
    BY <1>2, <1>3, <2>1
  <2> QED
    BY <2>2, <2>3, <2>4
<1>4. ASSUME NEW j \in Keyed(pred), NEW k \in Keyed(pred), j < k, Rank(pred, j) = Rank(pred, k) PROVE FALSE
  <2>1. {x \in Keyed(pred) : x <= j} = {x \in Keyed(pred) : x <= k}
    BY <1>1, <1>2, <1>4
  <2>2. k \in {x \in Keyed(pred) : x <= k} /\ k \notin {x \in Keyed(pred) : x <= j}
    BY <1>1, <1>4
  <2> QED
    BY <2>1, <2>2
<1>5. ASSUME NEW j \in Keyed(pred), Rank(pred, i) = Rank(pred, j) PROVE i = j
  <2>1. i \in Nat /\ j \in Nat
    BY <1>1
  <2> QED
    BY <1>4, <1>5, <2>1
<1> QED
  BY <1>3, <1>5

LEMMA RankOnto ==
    ASSUME NEW pred \in Seq(Conjunct), NEW k \in 1 .. Rank(pred, Len(pred))
    PROVE  \E j \in Keyed(pred) : Rank(pred, j) = k
<1> DEFINE S == {n \in 0 .. Len(pred) : Rank(pred, n) >= k}
<1>0. Len(pred) \in Nat /\ \A n \in Nat : Rank(pred, n) \in Nat
  BY RankType, GoodTypes
<1>1. S \subseteq Nat /\ Len(pred) \in S
  BY <1>0
<1>2. PICK n \in S : \A m \in S : n <= m
  <2> HIDE DEF S
  <2> QED
    BY <1>1, LeastNat
<1>3. n # 0
  BY <1>0, <1>2, RankEnds
<1>4. n \in 1 .. Len(pred) /\ n \in Nat /\ n - 1 \in 0 .. Len(pred) /\ n - 1 \in Nat
  BY <1>0, <1>2, <1>3
<1>5. n - 1 \notin S
  BY <1>2, <1>4
<1>6. Rank(pred, n - 1) < k /\ Rank(pred, n) >= k
  BY <1>0, <1>2, <1>4, <1>5
<1>7. n \in Keyed(pred) /\ Rank(pred, n) = k
  <2>1. Rank(pred, n) = IF n \in Keyed(pred) THEN Rank(pred, n - 1) + 1 ELSE Rank(pred, n - 1)
    BY <1>4, RankStep
  <2>2. Rank(pred, n) \in Nat /\ Rank(pred, n - 1) \in Nat
    BY <1>4, RankType
  <2>3. k \in Int
    OBVIOUS
  <2> QED
    BY <1>6, <2>1, <2>2, <2>3
<1> QED
  BY <1>7

Nth(pred, k) == CHOOSE j \in Keyed(pred) : Rank(pred, j) = k

LEMMA NthOfRank ==
    ASSUME NEW pred \in Seq(Conjunct), NEW i \in Keyed(pred)
    PROVE  Nth(pred, Rank(pred, i)) = i
BY RankOrder DEF Nth

\* The state of the walk for a side when it has passed n conjuncts.
KeyList(pred, ks, n) == [k \in 1 .. Rank(pred, n) |-> Key(KeyFor(pred[Nth(pred, k)], ks), ks)]
NullsList(pred, n) == [k \in 1 .. Rank(pred, n) |-> pred[Nth(pred, k)].op = "isa"]
Walked(pred, ks, t, n) ==
    [pred |-> Replaced(pred, ks, n),
     true |-> t \cup {j \in Keyed(pred) : j <= n},
     fresh |-> Fresh(pred, ks, n),
     keys |-> KeyList(pred, ks, n),
     nullsEqual |-> NullsList(pred, n)]

\* A comparison with other operands
LEMMA OperandsReplaced ==
    ASSUME NEW c \in Comparison, NEW v, NEW w
    PROVE  [c EXCEPT !.l = v, !.r = w] = [op |-> c.op, l |-> v, r |-> w]
<1> DEFINE d == [c EXCEPT !.l = v, !.r = w]
<1>1. d = [c EXCEPT !.l = v, !.r = w]
  OBVIOUS
<1> HIDE DEF d
<1>2. d = [op |-> c.op, l |-> v, r |-> w]
  BY <1>1 DEF Comparison
<1> QED
  BY <1>2 DEF d

\* Replacing the next key is taking it.
LEMMA ReplaceUsesTakes ==
    ASSUME NEW pred, Good(pred), NEW ks \in Sides, NEW i \in Keyed(pred)
    PROVE  LET K == KeyFor(pred[i], ks)
           IN  ReplaceUses(Replaced(pred, ks, i - 1), Now(pred, ks, i - 1, K), Key(K, ks)) = Replaced(pred, ks, i)
<1> DEFINE K == KeyFor(pred[i], ks)
           R == Replaced(pred, ks, i - 1)
           old == Now(pred, ks, i - 1, K)
           new == Key(K, ks)
           use(o) == IF o = old THEN new ELSE o
           U == ReplaceUses(R, old, new)
<1>1. pred \in Seq(Conjunct) /\ i \in Nat /\ Keyed(pred) \subseteq Nat
  BY GoodTypes DEF Good
<1>2. Taken(pred, ks, i) = Taken(pred, ks, i - 1) \cup {K}
  <2>1. {j \in Keyed(pred) : j <= i} = {j \in Keyed(pred) : j <= i - 1} \cup {i}
    BY <1>1
  <2> QED
    BY <2>1 DEF Taken
<1>3. K \in Operands(pred)
  BY <1>1, <1>2, TakenOperands
<1>4. ASSUME NEW o \in Operands(pred)
      PROVE  use(Now(pred, ks, i - 1, o)) = Now(pred, ks, i, o)
  <2>1. CASE o = K
    BY <1>2, <2>1 DEF Now
  <2>2. CASE o # K
    <3>1. Now(pred, ks, i - 1, o) # old
      BY <1>3, <2>2, NowInjective
    <3> QED
      BY <1>2, <2>2, <3>1 DEF Now
  <2> QED
    BY <2>1, <2>2
<1>5. /\ DOMAIN R = DOMAIN pred /\ \A j \in DOMAIN pred : R[j].op = pred[j].op
      /\ DOMAIN Replaced(pred, ks, i) = DOMAIN pred
  BY ReplacedFields
<1>6. ASSUME NEW j \in DOMAIN pred
      PROVE  (IF R[j].op = "or" THEN R[j]
              ELSE [R[j] EXCEPT !.l = use(@), !.r = use(@)])
             = Replaced(pred, ks, i)[j]
  <2>1. CASE pred[j].op = "or"
    BY <1>5, <2>1, ReplacedFields
  <2>2. CASE pred[j].op # "or"
    <3> DEFINE n == i - 1
    <3>1. j \in Compared(pred)
      BY <2>2 DEF Compared
    <3>2. /\ R[j] = [op |-> pred[j].op, l |-> Now(pred, ks, n, pred[j].l), r |-> Now(pred, ks, n, pred[j].r)]
          /\ pred[j].l \in Operands(pred) /\ pred[j].r \in Operands(pred)
      <4> HIDE DEF n
      <4> QED
        BY <3>1, ReplacedFields DEF n
    <3>3. Replaced(pred, ks, i)[j] = [op |-> pred[j].op, l |-> Now(pred, ks, i, pred[j].l), r |-> Now(pred, ks, i, pred[j].r)]
      BY <3>1, ReplacedFields
    <3>4. /\ use(Now(pred, ks, n, pred[j].l)) = Now(pred, ks, i, pred[j].l)
          /\ use(Now(pred, ks, n, pred[j].r)) = Now(pred, ks, i, pred[j].r)
      BY <1>4, <3>2
    <3>5. R[j].op # "or"
      BY <1>5, <2>2
    <3> DEFINE x == Now(pred, ks, n, pred[j].l)
               y == Now(pred, ks, n, pred[j].r)
               v == Now(pred, ks, i, pred[j].l)
               w == Now(pred, ks, i, pred[j].r)
    <3> HIDE DEF R, old, new, n, use, x, y, v, w
    <3>6. R[j].l = x /\ R[j].r = y
      BY <3>2 DEF x, y
    <3>7. use(R[j].l) = v /\ use(R[j].r) = w
      BY <3>4, <3>6 DEF x, y, v, w
    <3>8. R[j] = [op |-> pred[j].op, l |-> x, r |-> y]
      BY <3>2 DEF x, y
    <3>9. [R[j] EXCEPT !.l = v, !.r = w] = [op |-> pred[j].op, l |-> v, r |-> w]
      <4>1. R[j] \in Comparison
        <5>1. R \in Seq(Conjunct) /\ j \in DOMAIN R
          BY <1>5, ReplacedFields DEF R
        <5>2. j \in Compared(R)
          BY <3>5, <5>1 DEF Compared
        <5> QED
          BY <5>1, <5>2, GoodTypes
      <4>2. R[j].op = pred[j].op
        BY <1>5
      <4> QED
        BY <4>1, <4>2, OperandsReplaced
    <3>10. [R[j] EXCEPT !.l = use(@), !.r = use(@)] = [R[j] EXCEPT !.l = v, !.r = w]
      BY <3>7
    <3>11. [R[j] EXCEPT !.l = use(@), !.r = use(@)] = Replaced(pred, ks, i)[j]
      BY <3>3, <3>9, <3>10 DEF v, w
    <3> QED
      BY <3>5, <3>11
  <2> QED
    BY <2>1, <2>2
<1>7. U = [j \in DOMAIN pred |-> Replaced(pred, ks, i)[j]]
  <2>1. U = [j \in DOMAIN R |->
              IF R[j].op = "or" THEN R[j]
              ELSE [R[j] EXCEPT !.l = use(@), !.r = use(@)]]
    BY DEF ReplaceUses
  <2> HIDE DEF U, R, old, new, use
  <2> QED
    BY <1>5, <1>6, <2>1
<1>8. Replaced(pred, ks, i) = [j \in DOMAIN pred |-> Replaced(pred, ks, i)[j]]
  BY DEF Replaced
<1> QED
  BY <1>7, <1>8

LEMMA ExtractKeyStep ==
    ASSUME NEW pred, Good(pred), NEW ks \in Sides, NEW t, NEW i \in DOMAIN pred
    PROVE  ExtractKey(ks, Walked(pred, ks, t, i - 1), i) = Walked(pred, ks, t, i)
<1> DEFINE n == i - 1
           a == Walked(pred, ks, t, n)
           k == KeyVal(a.pred[i], ks, a.fresh)
           K == KeyFor(pred[i], ks)
           NK == Now(pred, ks, n, K)
<1>0. /\ pred \in Seq(Conjunct) /\ DOMAIN pred = 1 .. Len(pred) /\ Keyed(pred) \subseteq Nat
      /\ Keyed(pred) \subseteq DOMAIN pred
      /\ i \in Nat /\ n \in Nat /\ i = n + 1
  BY GoodTypes DEF Good
<1>1. /\ a.pred = Replaced(pred, ks, n) /\ a.true = t \cup {j \in Keyed(pred) : j <= n}
      /\ a.fresh = Fresh(pred, ks, n) /\ a.keys = KeyList(pred, ks, n) /\ a.nullsEqual = NullsList(pred, n)
  BY DEF Walked
<1>2. k = IF i \in Keyed(pred) THEN <<NK>> ELSE <<>>
  BY <1>1, KeyValTaken
<1>3. Rank(pred, i) = IF i \in Keyed(pred) THEN Rank(pred, n) + 1 ELSE Rank(pred, n)
  BY <1>0, RankStep
<1>4. Rank(pred, n) \in Nat
  BY <1>0, RankType
<1>5. CASE i \notin Keyed(pred)
  <2>1. {j \in Keyed(pred) : j <= i} = {j \in Keyed(pred) : j <= n}
    BY <1>0, <1>5
  <2>2. Taken(pred, ks, i) = Taken(pred, ks, n)
    BY <2>1 DEF Taken
  <2>3. Replaced(pred, ks, i) = Replaced(pred, ks, n) /\ Fresh(pred, ks, i) = Fresh(pred, ks, n)
    BY <2>2 DEF Replaced, Fresh, Now
  <2>4. KeyList(pred, ks, i) = KeyList(pred, ks, n) /\ NullsList(pred, i) = NullsList(pred, n)
    BY <1>3, <1>5 DEF KeyList, NullsList
  <2>5. Walked(pred, ks, t, i) = a
    BY <2>1, <2>3, <2>4 DEF Walked
  <2>6. k = <<>>
    BY <1>2, <1>5
  <2> HIDE DEF a
  <2>7. ExtractKey(ks, a, i) = a
    BY <2>6 DEF ExtractKey
  <2> QED
    BY <2>5, <2>7 DEF a, n
<1>6. CASE i \in Keyed(pred)
  <2>1. {j \in Keyed(pred) : j <= i} = {j \in Keyed(pred) : j <= n} \cup {i}
    BY <1>0, <1>6
  <2>2. Taken(pred, ks, i) = Taken(pred, ks, n) \cup {K}
    BY <2>1 DEF Taken
  <2>3. K \in Operands(pred) /\ K \in Operand
    BY <1>0, <2>2, TakenOperands, GoodTypes
  <2>4. /\ NK \in Operand /\ Key(NK, ks) = Key(K, ks)
        /\ NK.plain <=> K.plain \/ K \in Taken(pred, ks, n)
    <3>1. Key(K, ks) \in Operand /\ Key(K, ks).plain
      BY <2>3, KeyFields
    <3>2. Key(Key(K, ks), ks) = Key(K, ks)
      BY <3>1, KeyFields
    <3>3. NK \in Operand /\ (NK.plain <=> K.plain \/ K \in Taken(pred, ks, n))
      BY <2>3, NowFields
    <3>4. NK = IF K \in Taken(pred, ks, n) THEN Key(K, ks) ELSE K
      BY DEF Now
    <3> HIDE DEF NK, K
    <3> QED
      BY <3>2, <3>3, <3>4
  <2>5. Fresh(pred, ks, i) = IF NK.plain THEN Fresh(pred, ks, n) ELSE Fresh(pred, ks, n) \cup {Key(K, ks)}
    <3> HIDE DEF NK, K, n
    <3> QED
      BY <2>2, <2>4 DEF Fresh
  <2>6. KeyList(pred, ks, i) = Append(KeyList(pred, ks, n), Key(K, ks))
    <3>1. Nth(pred, Rank(pred, i)) = i
      BY <1>0, <1>6, NthOfRank
    <3>2. Rank(pred, i) = Rank(pred, n) + 1
      BY <1>3, <1>6
    <3> DEFINE m == Rank(pred, n)
               f(x) == Key(KeyFor(pred[Nth(pred, x)], ks), ks)
    <3>3. f(m + 1) = Key(K, ks)
      BY <3>1, <3>2
    <3>4. KeyList(pred, ks, n) = [x \in 1 .. m |-> f(x)] /\ KeyList(pred, ks, i) = [x \in 1 .. m + 1 |-> f(x)]
      BY <3>2 DEF KeyList
    <3>5. m \in Nat
      BY <1>4
    <3> HIDE DEF f, m, n, K
    <3> QED
      BY <3>3, <3>4, <3>5
  <2>7. NullsList(pred, i) = Append(NullsList(pred, n), a.pred[i].op = "isa")
    <3>0. a.pred[i].op = pred[i].op
      BY <1>1, ReplacedFields
    <3>1. Nth(pred, Rank(pred, i)) = i
      BY <1>0, <1>6, NthOfRank
    <3>2. Rank(pred, i) = Rank(pred, n) + 1
      BY <1>3, <1>6
    <3> DEFINE m == Rank(pred, n)
               f(x) == pred[Nth(pred, x)].op = "isa"
               v == a.pred[i].op = "isa"
    <3>3. f(m + 1) = v
      BY <3>0, <3>1, <3>2
    <3>4. NullsList(pred, n) = [x \in 1 .. m |-> f(x)] /\ NullsList(pred, i) = [x \in 1 .. m + 1 |-> f(x)]
      BY <3>2 DEF NullsList
    <3>5. m \in Nat
      BY <1>4
    <3>6. NullsList(pred, i) = Append(NullsList(pred, n), v)
      <4> HIDE DEF f, m, n, v
      <4> QED
        BY <3>3, <3>4, <3>5
    <3> QED
      BY <3>6
  <2>8. ReplaceUses(a.pred, NK, Key(K, ks)) = Replaced(pred, ks, i)
    BY <1>1, <1>6, ReplaceUsesTakes
  <2>9. t \cup {j \in Keyed(pred) : j <= i} = a.true \cup {i}
    BY <1>1, <2>1
  <2>10. k = <<NK>> /\ k[1] = NK /\ k # <<>>
    BY <1>2, <1>6
  <2>11. ExtractKey(ks, a, i) =
           [pred |-> ReplaceUses(a.pred, NK, Key(NK, ks)),
            true |-> a.true \cup {i},
            fresh |-> IF NK.plain THEN a.fresh ELSE a.fresh \cup {Key(NK, ks)},
            keys |-> Append(a.keys, Key(NK, ks)),
            nullsEqual |-> Append(a.nullsEqual, a.pred[i].op = "isa")]
    <3>1. ExtractKey(ks, a, i) =
           IF k = <<>> THEN a
           ELSE [pred |-> ReplaceUses(a.pred, k[1], Key(k[1], ks)),
                 true |-> a.true \cup {i},
                 fresh |-> IF k[1].plain THEN a.fresh ELSE a.fresh \cup {Key(k[1], ks)},
                 keys |-> Append(a.keys, Key(k[1], ks)),
                 nullsEqual |-> Append(a.nullsEqual, a.pred[i].op = "isa")]
      <4> HIDE DEF a, NK, K
      <4> QED
        BY DEF ExtractKey, Key
    <3> HIDE DEF a, k, NK, K
    <3> QED
      BY <2>10, <3>1
  <2>12. Walked(pred, ks, t, i) =
           [pred |-> Replaced(pred, ks, i),
            true |-> t \cup {j \in Keyed(pred) : j <= i},
            fresh |-> Fresh(pred, ks, i),
            keys |-> KeyList(pred, ks, i),
            nullsEqual |-> NullsList(pred, i)]
    BY DEF Walked
  <2>13. ExtractKey(ks, a, i) = Walked(pred, ks, t, i)
    <3> HIDE DEF a, k, NK, K, n
    <3> QED
      BY <1>1, <2>4, <2>5, <2>6, <2>7, <2>8, <2>9, <2>11, <2>12
  <2> QED
    BY <2>13
<1> QED
  BY <1>5, <1>6

\* Before the first conjunct, nothing is taken.
LEMMA WalkedStart ==
    ASSUME NEW pred, Good(pred), NEW ks \in Sides, NEW t
    PROVE  Walked(pred, ks, t, 0) = [pred |-> pred, true |-> t, fresh |-> {}, keys |-> <<>>, nullsEqual |-> <<>>]
<1>1. pred \in Seq(Conjunct) /\ DOMAIN pred = 1 .. Len(pred) /\ Keyed(pred) \subseteq 1 .. Len(pred) /\ Len(pred) \in Nat
  BY GoodTypes DEF Good
<1>2. {j \in Keyed(pred) : j <= 0} = {}
  BY <1>1
<1>3. Taken(pred, ks, 0) = {} /\ Fresh(pred, ks, 0) = {}
  BY <1>2 DEF Taken, Fresh
<1>4. Replaced(pred, ks, 0) = pred
  <2>1. ASSUME NEW j \in DOMAIN pred PROVE Replaced(pred, ks, 0)[j] = pred[j]
    <3>1. CASE pred[j].op = "or"
      BY <3>1, ReplacedFields
    <3>2. CASE pred[j].op # "or"
      <4>1. j \in Compared(pred) /\ pred[j] \in Comparison
        BY <1>1, <3>2, GoodTypes DEF Compared
      <4>2. Replaced(pred, ks, 0)[j] = [op |-> pred[j].op, l |-> pred[j].l, r |-> pred[j].r]
        BY <1>3, <4>1, ReplacedFields DEF Now
      <4>3. pred[j] = [op |-> pred[j].op, l |-> pred[j].l, r |-> pred[j].r]
        BY <4>1 DEF Comparison
      <4> QED
        BY <4>2, <4>3
    <3> QED
      BY <3>1, <3>2
  <2>2. Replaced(pred, ks, 0) = [j \in DOMAIN pred |-> Replaced(pred, ks, 0)[j]]
    BY DEF Replaced
  <2>3. pred = [j \in DOMAIN pred |-> pred[j]]
    BY <1>1
  <2> QED
    BY <2>1, <2>2, <2>3
<1>5. KeyList(pred, ks, 0) = <<>> /\ NullsList(pred, 0) = <<>>
  <2>1. Rank(pred, 0) = 0
    BY <1>1, RankEnds
  <2>2. 1 .. 0 = {}
    OBVIOUS
  <2> QED
    BY <2>1, <2>2 DEF KeyList, NullsList
<1>6. t \cup {j \in Keyed(pred) : j <= 0} = t
  BY <1>2
<1> QED
  BY <1>3, <1>4, <1>5, <1>6 DEF Walked

LEMMA ExtractKeysWalked ==
    ASSUME NEW p, Good(p.pred), NEW ks \in Sides
    PROVE  extractKeys(p, ks) = Walked(p.pred, ks, p.true, Len(p.pred))
<1> DEFINE n == Len(p.pred)
           start == [pred |-> p.pred, true |-> p.true, fresh |-> {}, keys |-> <<>>, nullsEqual |-> <<>>]
           W(i) == Walked(p.pred, ks, p.true, i)
           g == [i \in 0 .. n |-> W(i)]
           Body(h) == [i \in 0 .. n |-> IF i = 0 THEN start ELSE ExtractKey(ks, h[i - 1], i)]
<1>0. n \in Nat /\ DOMAIN p.pred = 1 .. n
  BY GoodTypes DEF Good
<1>1. g = Body(g)
  <2>1. ASSUME NEW i \in 0 .. n PROVE g[i] = Body(g)[i]
    <3>1. CASE i = 0
      BY <3>1, WalkedStart
    <3>2. CASE i # 0
      <4>1. i \in DOMAIN p.pred /\ i - 1 \in 0 .. n
        BY <1>0, <3>2
      <4>2. ExtractKey(ks, W(i - 1), i) = W(i)
        BY <4>1, ExtractKeyStep
      <4> HIDE DEF W
      <4> QED
        BY <3>2, <4>1, <4>2
    <3> QED
      BY <3>1, <3>2
  <2> HIDE DEF W, start
  <2> QED
    BY <2>1
<1> DEFINE w == CHOOSE h : h = Body(h)
<1>2. w = Body(w)
  <2> HIDE DEF g, Body
  <2> QED
    BY <1>1
<1>3. extractKeys(p, ks) = w[n]
  BY DEF extractKeys
<1> HIDE DEF w, W, start
<1>4. w[0] = W(0)
  <2>1. W(0) = start
    BY WalkedStart DEF W, start
  <2> QED
    BY <1>0, <1>2, <2>1
<1>5. \A i \in 1 .. n : w[i] = ExtractKey(ks, w[i - 1], i)
  BY <1>0, <1>2
<1> DEFINE Bad == {i \in 0 .. n : w[i] # W(i)}
<1>6. Bad = {}
  <2>1. SUFFICES ASSUME Bad # {} PROVE FALSE
    OBVIOUS
  <2>2. Bad \subseteq Nat
    BY <1>0
  <2>3. PICK i \in Bad : \A m \in Bad : i <= m
    BY <2>1, <2>2, LeastNat
  <2>4. i \in 0 .. n /\ i # 0 /\ w[i] # W(i)
    BY <1>4
  <2>5. i \in 1 .. n /\ i - 1 \in 0 .. n /\ i - 1 < i
    BY <1>0, <2>4
  <2>6. w[i - 1] = W(i - 1)
    BY <2>3, <2>5
  <2>7. ExtractKey(ks, W(i - 1), i) = W(i)
    BY <1>0, <2>5, ExtractKeyStep DEF W
  <2> QED
    BY <1>5, <2>4, <2>5, <2>6, <2>7
<1>7. w[n] = W(n)
  BY <1>0, <1>6
<1> QED
  BY <1>3, <1>7 DEF W

-----------------------------------------------------------------------------
(* What extracting keys keeps                                              *)

\* The predicate Q is P with some operands replaced by columns of the same
\* value; the equalities between the sides are the same ones.
Related(P, Q) ==
    /\ Q \in Seq(Conjunct) /\ DOMAIN Q = DOMAIN P /\ Keyed(Q) = Keyed(P)
    /\ \A j \in DOMAIN P : Q[j].op = P[j].op
    /\ \A j \in DOMAIN P \ Compared(P) : Q[j] = P[j]
    /\ \A j \in Compared(P) : SameValue(Q[j].l, P[j].l) /\ SameValue(Q[j].r, P[j].r)
    /\ \A j \in Keyed(P) : \A s \in Sides : SameValue(KeyFor(Q[j], s), KeyFor(P[j], s))

LEMMA RelatedTrans ==
    ASSUME NEW P, NEW Q, NEW R, P \in Seq(Conjunct), Related(P, Q), Related(Q, R)
    PROVE  Related(P, R)
<1>1. Compared(P) = Compared(Q) /\ Keyed(P) = Keyed(Q)
  BY DEF Related, Compared
<1> QED
  BY <1>1 DEF Related, SameValue

LEMMA RelatedRefl ==
    ASSUME NEW P, P \in Seq(Conjunct)
    PROVE  Related(P, P)
BY DEF Related, SameValue

LEMMA NowSides ==
    ASSUME NEW pred, Good(pred), NEW ks \in Sides, NEW n, NEW o \in Operands(pred)
    PROVE  /\ o \in Taken(pred, ks, n) /\ ~o.plain => Now(pred, ks, n, o).sides = {ks}
           /\ o \notin Taken(pred, ks, n) \/ o.plain => Now(pred, ks, n, o).sides = o.sides
<1>1. o \in Operand
  BY GoodTypes DEF Good
<1>2. CASE o \in Taken(pred, ks, n)
  BY <1>1, <1>2, KeyFields DEF Now
<1>3. CASE o \notin Taken(pred, ks, n)
  BY <1>3 DEF Now
<1> QED
  BY <1>2, <1>3

\* A conjunct once the walk for a side is over
LEMMA ReplacedConjunct ==
    ASSUME NEW pred, Good(pred), NEW ks \in Sides, NEW i \in Compared(pred)
    PROVE  LET n == Len(pred)
               c == Replaced(pred, ks, n)[i]
           IN  /\ c.l = Now(pred, ks, n, pred[i].l) /\ c.r = Now(pred, ks, n, pred[i].r)
               /\ c.op = pred[i].op /\ c \in Comparison
               /\ pred[i].l \in Operands(pred) /\ pred[i].r \in Operands(pred)
               /\ IsEqualityPred(pred[i]) => (i \in Keyed(Replaced(pred, ks, n)) <=> i \in Keyed(pred))
               /\ i \in Keyed(pred) => \A s \in Sides : KeyFor(c, s) = Now(pred, ks, n, KeyFor(pred[i], s))
<1> DEFINE n == Len(pred)
           R == Replaced(pred, ks, n)
           c == R[i]
           N(o) == Now(pred, ks, n, o)
<1>0. /\ pred \in Seq(Conjunct) /\ DOMAIN pred = 1 .. n /\ Keyed(pred) \subseteq 1 .. n /\ n \in Nat
      /\ KeysApart(pred) /\ i \in DOMAIN pred /\ pred[i] \in Comparison /\ pred[i].op # "or"
  BY GoodTypes DEF Good, Compared
<1>1. /\ c = [op |-> pred[i].op, l |-> N(pred[i].l), r |-> N(pred[i].r)]
      /\ pred[i].l \in Operands(pred) /\ pred[i].r \in Operands(pred)
      /\ R \in Seq(Conjunct) /\ DOMAIN R = DOMAIN pred /\ c.op = pred[i].op
  <2>1. c = [op |-> pred[i].op, l |-> N(pred[i].l), r |-> N(pred[i].r)]
    BY ReplacedFields
  <2>2. pred[i].l \in Operands(pred) /\ pred[i].r \in Operands(pred)
    BY ReplacedFields
  <2>3. R \in Seq(Conjunct) /\ DOMAIN R = DOMAIN pred
    BY ReplacedFields
  <2>4. c.op = pred[i].op
    BY <1>0, ReplacedFields
  <2> QED
    BY <2>1, <2>2, <2>3, <2>4
<1>2. c.l = N(pred[i].l) /\ c.r = N(pred[i].r) /\ c \in Comparison
  <2>1. c \in Comparison
    <3>1. i \in Compared(R)
      BY <1>0, <1>1 DEF Compared
    <3> HIDE DEF R
    <3> QED
      BY <1>1, <3>1, GoodTypes
  <2> HIDE DEF c, N
  <2> QED
    BY <1>1, <2>1
<1>3. \A o \in Operands(pred) : N(o).sides = IF o \in Taken(pred, ks, n) /\ ~o.plain THEN {ks} ELSE o.sides
  <2>1. ASSUME NEW m, NEW o \in Operands(pred)
        PROVE  Now(pred, ks, m, o).sides = IF o \in Taken(pred, ks, m) /\ ~o.plain THEN {ks} ELSE o.sides
    BY NowSides
  <2> HIDE DEF n
  <2> QED
    BY <2>1
<1>4. ASSUME IsEqualityPred(pred[i]), i \notin Keyed(pred) PROVE c.l.sides = c.r.sides
  <2>1. pred[i].l.sides = pred[i].r.sides
    BY <1>0, <1>4 DEF Keyed
  <2>2. ASSUME NEW o \in Taken(pred, ks, n), ~o.plain, o \in {pred[i].l, pred[i].r} PROVE FALSE
    <3>1. PICK j \in Keyed(pred) : o = KeyFor(pred[j], ks)
      BY DEF Taken
    <3>2. i \in DOMAIN pred \ {j}
      BY <1>0, <1>4
    <3> QED
      BY <1>0, <1>4, <2>2, <3>1, <3>2 DEF KeysApart
  <2> HIDE DEF c, N, n, R
  <2> QED
    BY <1>1, <1>2, <1>3, <2>1, <2>2
<1>5. ASSUME i \in Keyed(pred)
      PROVE  /\ c.l.sides # c.r.sides
             /\ KeyFor(c, ks) = N(KeyFor(pred[i], ks))
             /\ KeyFor(c, Other(ks)) = N(KeyFor(pred[i], Other(ks)))
  <2> DEFINE K == KeyFor(pred[i], ks)
             O == KeyFor(pred[i], Other(ks))
  <2>1. /\ \/ K = pred[i].l /\ O = pred[i].r
           \/ K = pred[i].r /\ O = pred[i].l
        /\ K.sides \in {{}, {ks}} /\ O.sides \in {{}, {Other(ks)}}
        /\ K.sides # O.sides
    <3>1. pred[i].l.sides # pred[i].r.sides /\ Other(ks) \in Sides /\ Other(Other(ks)) = ks
      BY <1>5, SidesApart DEF Keyed
    <3>2. /\ \/ K = pred[i].l /\ O = pred[i].r
             \/ K = pred[i].r /\ O = pred[i].l
          /\ K.sides \in {{}, {ks}}
      BY <1>0, <3>1, KeySides
    <3>3. O.sides \in {{}, {Other(ks)}}
      BY <1>0, <3>1, KeySides
    <3> QED
      BY <3>1, <3>2, <3>3
  <2>2. K \in Operands(pred) /\ O \in Operands(pred)
    BY <1>1, <2>1
  <2>3. O \notin Taken(pred, ks, n)
    <3>1. \A j \in Keyed(pred) : KeyFor(pred[j], ks) # O
      <4>1. CASE ks = "l"
        BY <1>0, <1>5, <4>1, SidesApart DEF KeysApart
      <4>2. CASE ks = "r"
        BY <1>0, <1>5, <4>2, SidesApart DEF KeysApart
      <4> QED
        BY <4>1, <4>2 DEF Sides
    <3> QED
      BY <3>1 DEF Taken
  <2> DEFINE NK == N(K)
             NO == N(O)
  <2>4. NK.sides \in {K.sides, {ks}} /\ NO.sides = O.sides
    BY <1>3, <2>2, <2>3
  <2>5. \/ c.l = NK /\ c.r = NO
        \/ c.l = NO /\ c.r = NK
    BY <1>2, <2>1
  <2>6. ks # Other(ks) /\ {ks} # {Other(ks)} /\ Other(Other(ks)) = ks /\ {ks} # {} /\ {Other(ks)} # {}
    BY SidesApart
  <2> HIDE DEF c, N, n, R, K, O, NK, NO
  <2>7. NK.sides \in {{}, {ks}} /\ NO.sides \in {{}, {Other(ks)}} /\ NK.sides # NO.sides
    <3>1. NK.sides \in {{}, {ks}} /\ NO.sides \in {{}, {Other(ks)}}
      BY <2>1, <2>4
    <3>2. CASE NK.sides = {ks}
      BY <2>6, <3>1, <3>2
    <3>3. CASE NK.sides = K.sides
      BY <2>1, <2>4, <3>3
    <3> QED
      BY <2>4, <3>1, <3>2, <3>3
  <2>8. KeyFor(c, ks) = NK
    BY <2>5, <2>6, <2>7 DEF KeyFor
  <2>9. KeyFor(c, Other(ks)) = NO
    BY <2>5, <2>6, <2>7 DEF KeyFor
  <2>10. c.l.sides # c.r.sides
    BY <2>5, <2>7
  <2> QED
    BY <2>8, <2>9, <2>10 DEF NK, NO, K, O
<1>6. IsEqualityPred(pred[i]) => (i \in Keyed(R) <=> i \in Keyed(pred))
  <2>1. IsEqualityPred(pred[i]) <=> IsEqualityPred(c)
    BY <1>1 DEF IsEqualityPred
  <2> HIDE DEF R, N
  <2> QED
    BY <1>0, <1>1, <1>4, <1>5, <2>1 DEF Keyed
<1>7. ASSUME i \in Keyed(pred), NEW s \in Sides PROVE KeyFor(c, s) = N(KeyFor(pred[i], s))
  <2>1. s = ks \/ s = Other(ks)
    BY DEF Sides, Other
  <2> HIDE DEF c, N
  <2> QED
    BY <1>5, <1>7, <2>1
<1> QED
  BY <1>1, <1>2, <1>6, <1>7

\* Extracting keys leaves a predicate from which keys can be extracted.
LEMMA ReplacedRelated ==
    ASSUME NEW pred, Good(pred), NEW ks \in Sides
    PROVE  LET R == Replaced(pred, ks, Len(pred)) IN Good(R) /\ Related(pred, R)
<1> DEFINE n == Len(pred)
           R == Replaced(pred, ks, n)
           N(o) == Now(pred, ks, n, o)
<1>0. /\ pred \in Seq(Conjunct) /\ DOMAIN pred = 1 .. n /\ n \in Nat /\ KeysApart(pred)
      /\ \A o, p \in Operands(pred) : SameValue(o, p) => o = p
      /\ Keyed(pred) \subseteq Compared(pred) /\ Compared(pred) \subseteq DOMAIN pred
      /\ \A j \in DOMAIN pred : IsEqualityPred(pred[j]) => j \in Compared(pred)
      /\ \A j \in Keyed(pred) : IsEqualityPred(pred[j])
  BY GoodTypes DEF Good, Keyed
<1>1. R \in Seq(Conjunct) /\ DOMAIN R = DOMAIN pred
  BY ReplacedFields
<1>2. \A j \in DOMAIN pred : R[j].op = pred[j].op
  BY <1>0, ReplacedFields
<1>3. \A j \in DOMAIN pred \ Compared(pred) : R[j] = pred[j]
  BY <1>0, ReplacedFields DEF Compared
<1>4. \A j \in Compared(pred) : /\ R[j].l = N(pred[j].l) /\ R[j].r = N(pred[j].r)
                                /\ pred[j].l \in Operands(pred) /\ pred[j].r \in Operands(pred)
                                /\ IsEqualityPred(pred[j]) => (j \in Keyed(R) <=> j \in Keyed(pred))
  BY ReplacedConjunct
<1>5. \A j \in Keyed(pred) : \A s \in Sides : KeyFor(R[j], s) = N(KeyFor(pred[j], s))
  BY <1>0, ReplacedConjunct
<1>6. Compared(R) = Compared(pred)
  BY <1>1, <1>2 DEF Compared
<1>7. \A j \in DOMAIN pred : IsEqualityPred(R[j]) <=> IsEqualityPred(pred[j])
  BY <1>2 DEF IsEqualityPred
<1>8. Keyed(R) = Keyed(pred)
  <2>1. \A j \in DOMAIN pred : j \in Keyed(R) <=> j \in Keyed(pred)
    <3> HIDE DEF R, N, n
    <3>1. \A j \in Keyed(R) : j \in DOMAIN pred /\ IsEqualityPred(pred[j])
      BY <1>1, <1>7 DEF Keyed
    <3> QED
      BY <1>0, <1>4, <3>1
  <2>2. Keyed(R) \subseteq DOMAIN R /\ Keyed(pred) \subseteq DOMAIN pred
    BY DEF Keyed
  <2> QED
    BY <1>1, <2>1, <2>2
<1>9. \A o \in Operands(pred) : SameValue(N(o), o)
  <2>1. ASSUME NEW m, NEW o \in Operands(pred) PROVE SameValue(Now(pred, ks, m, o), o)
    BY NowFields
  <2> HIDE DEF n
  <2> QED
    BY <2>1
<1>15. \A o \in Operands(pred) : o.sides # {} => N(o).sides # {}
  <2>1. ASSUME NEW m, NEW o \in Operands(pred), o.sides # {} PROVE Now(pred, ks, m, o).sides # {}
    BY <2>1, NowSides
  <2> HIDE DEF n
  <2> QED
    BY <2>1
<1>16. \A o \in Operands(pred) : o.plain => N(o).plain
  <2>1. ASSUME NEW m, NEW o \in Operands(pred), o.plain PROVE Now(pred, ks, m, o).plain
    BY <2>1, NowFields
  <2> HIDE DEF n
  <2> QED
    BY <2>1
<1>10. \A o, p \in Operands(pred) : N(o) = N(p) => o = p
  <2>1. \A m : \A o, p \in Operands(pred) : Now(pred, ks, m, o) = Now(pred, ks, m, p) => o = p
    BY NowInjective
  <2> HIDE DEF n
  <2> QED
    BY <2>1
<1>11. \A j \in Keyed(pred) : \A s \in Sides : KeyFor(pred[j], s) \in Operands(pred)
  BY <1>0, <1>4 DEF KeyFor
<1> HIDE DEF R, N, n
<1>12. Related(pred, R)
  <2>1. \A j \in Compared(pred) : SameValue(R[j].l, pred[j].l) /\ SameValue(R[j].r, pred[j].r)
    BY <1>4, <1>9
  <2>2. \A j \in Keyed(pred) : \A s \in Sides : SameValue(KeyFor(R[j], s), KeyFor(pred[j], s))
    BY <1>5, <1>9, <1>11
  <2> QED
    BY <1>1, <1>2, <1>3, <1>8, <2>1, <2>2 DEF Related
<1>13. \A o, p \in Operands(R) : SameValue(o, p) => o = p
  <2>1. \A o \in Operands(R) : \E p \in Operands(pred) : o = N(p)
    BY <1>4, <1>6 DEF Operands
  <2>2. \A o, p \in Operands(pred) : SameValue(N(o), N(p)) => o = p
    BY <1>0, <1>9 DEF SameValue
  <2> QED
    BY <2>1, <2>2
<1>14. KeysApart(R)
  <2>1. ASSUME NEW i \in DOMAIN R, IsEqualityPred(R[i]) PROVE R[i].l.sides \cup R[i].r.sides # {}
    <3>1. i \in Compared(pred) /\ pred[i].l.sides \cup pred[i].r.sides # {}
      BY <1>0, <1>1, <1>7, <2>1 DEF KeysApart
    <3> QED
      BY <1>4, <1>15, <3>1
  <2>2. ASSUME NEW i \in Keyed(R), NEW j \in Keyed(R) PROVE KeyFor(R[i], "l") # KeyFor(R[j], "r")
    <3>1. KeyFor(pred[i], "l") # KeyFor(pred[j], "r")
      BY <1>0, <1>8 DEF KeysApart
    <3> QED
      BY <1>5, <1>8, <1>10, <1>11, <3>1 DEF Sides
  <2>3. ASSUME NEW s \in Sides, NEW j \in Keyed(R), NEW i \in DOMAIN R \ {j},
               ~KeyFor(R[j], s).plain, IsEqualityPred(R[i]), KeyFor(R[j], s) \in {R[i].l, R[i].r}
        PROVE  i \in Keyed(R) /\ KeyFor(R[i], Other(s)).sides # {}
    <3>1. j \in Keyed(pred) /\ i \in DOMAIN pred \ {j} /\ IsEqualityPred(pred[i]) /\ i \in Compared(pred)
      BY <1>0, <1>1, <1>7, <1>8, <2>3
    <3>2. KeyFor(R[j], s) = N(KeyFor(pred[j], s)) /\ KeyFor(pred[j], s) \in Operands(pred)
      BY <1>5, <1>11, <3>1
    <3>3. ~KeyFor(pred[j], s).plain
      BY <1>16, <2>3, <3>2
    <3>4. KeyFor(pred[j], s) \in {pred[i].l, pred[i].r}
      BY <1>4, <1>10, <2>3, <3>1, <3>2
    <3>5. i \in Keyed(pred) /\ KeyFor(pred[i], Other(s)).sides # {}
      BY <1>0, <3>1, <3>3, <3>4 DEF KeysApart
    <3>6. Other(s) \in Sides
      BY SidesApart
    <3>7. KeyFor(R[i], Other(s)) = N(KeyFor(pred[i], Other(s))) /\ KeyFor(pred[i], Other(s)) \in Operands(pred)
      BY <1>5, <1>11, <3>5, <3>6
    <3> QED
      BY <1>8, <1>15, <3>5, <3>7
  <2> QED
    BY <2>1, <2>2, <2>3 DEF KeysApart
<1> QED
  BY <1>1, <1>12, <1>13, <1>14 DEF Good, R, n

\* The keys of a side, each at the place of its conjunct
KeysAre(pred, ks, keys) ==
    /\ DOMAIN keys = 1 .. Cardinality(Keyed(pred))
    /\ \A i \in Keyed(pred) : SameValue(keys[Rank(pred, i)], KeyFor(pred[i], ks))

LEMMA KeysExtracted ==
    ASSUME NEW p, Good(p.pred), NEW ks \in Sides
    PROVE  LET e == extractKeys(p, ks)
           IN  /\ Good(e.pred) /\ Related(p.pred, e.pred)
               /\ e.true = p.true \cup Keyed(p.pred)
               /\ KeysAre(p.pred, ks, e.keys)
               /\ DOMAIN e.nullsEqual = 1 .. Cardinality(Keyed(p.pred))
               /\ \A i \in Keyed(p.pred) : e.nullsEqual[Rank(p.pred, i)] <=> p.pred[i].op = "isa"
<1> DEFINE P == p.pred
           n == Len(P)
           e == extractKeys(p, ks)
<1>0. /\ P \in Seq(Conjunct) /\ n \in Nat /\ Keyed(P) \subseteq 1 .. n /\ Rank(P, n) = Cardinality(Keyed(P))
      /\ Keyed(P) \subseteq Compared(P)
      /\ \A j \in Compared(P) : P[j].l \in Operand /\ P[j].r \in Operand
  BY GoodTypes, RankEnds DEF Good
<1>1. e = Walked(P, ks, p.true, n)
  BY ExtractKeysWalked
<1>2. /\ e.pred = Replaced(P, ks, n) /\ e.keys = KeyList(P, ks, n) /\ e.nullsEqual = NullsList(P, n)
      /\ e.true = p.true \cup {j \in Keyed(P) : j <= n}
  <2> HIDE DEF e, P, n
  <2> QED
    BY <1>1 DEF Walked
<1>3. {j \in Keyed(P) : j <= n} = Keyed(P)
  BY <1>0
<1>4. Good(e.pred) /\ Related(P, e.pred)
  BY <1>2, ReplacedRelated
<1>5. ASSUME NEW i \in Keyed(P)
      PROVE  /\ e.keys[Rank(P, i)] = Key(KeyFor(P[i], ks), ks)
             /\ e.nullsEqual[Rank(P, i)] = (P[i].op = "isa")
             /\ SameValue(Key(KeyFor(P[i], ks), ks), KeyFor(P[i], ks))
  <2>1. Rank(P, i) \in 1 .. Rank(P, n)
    BY <1>0, RankOrder
  <2>2. Nth(P, Rank(P, i)) = i
    BY <1>0, NthOfRank
  <2>3. KeyFor(P[i], ks) \in Operand
    BY <1>0 DEF KeyFor
  <2>4. SameValue(Key(KeyFor(P[i], ks), ks), KeyFor(P[i], ks))
    BY <2>3, KeyFields
  <2> HIDE DEF e, P, n
  <2> QED
    BY <1>2, <2>1, <2>2, <2>4 DEF KeyList, NullsList
<1>6. DOMAIN e.keys = 1 .. Cardinality(Keyed(P)) /\ DOMAIN e.nullsEqual = 1 .. Cardinality(Keyed(P))
  <2> HIDE DEF e, P, n
  <2> QED
    BY <1>0, <1>2 DEF KeyList, NullsList
<1> QED
  BY <1>2, <1>3, <1>4, <1>5, <1>6 DEF KeysAre

-----------------------------------------------------------------------------
(* Plans                                                                   *)

PlanFields == {"impl", "build", "marker", "pred", "true", "hash", "nullsEqual"}

\* A plan before its keys are extracted, and after.
Preparable(P, pl) ==
    /\ DOMAIN pl = PlanFields
    /\ Good(pl.pred) /\ Related(P, pl.pred) /\ pl.true \subseteq Keyed(P)
Exact(P, pl) ==
    /\ Preparable(P, pl) /\ pl.true = Keyed(P)
    /\ KeysAre(P, "l", pl.hash.l) /\ KeysAre(P, "r", pl.hash.r)
    /\ \A i \in Keyed(P) : pl.nullsEqual[Rank(P, i)] <=> P[i].op = "isa"

LEMMA KeysAreRelated ==
    ASSUME NEW P, NEW Q, P \in Seq(Conjunct), Related(P, Q)
    PROVE  /\ \A i : Rank(Q, i) = Rank(P, i)
           /\ \A ks \in Sides : \A keys : KeysAre(Q, ks, keys) => KeysAre(P, ks, keys)
<1>1. Keyed(Q) = Keyed(P) /\ \A i : Rank(Q, i) = Rank(P, i)
  BY DEF Related, Rank
<1> QED
  BY <1>1 DEF KeysAre, Related, SameValue

LEMMA Prepared ==
    ASSUME NEW P, NEW pl, P \in Seq(Conjunct), Preparable(P, pl)
    PROVE  LET q == prepareForHash(pl)
           IN  Exact(P, q) /\ q.impl = pl.impl /\ q.build = pl.build /\ q.marker = pl.marker
<1> DEFINE L == extractKeys(pl, "l")
           m == [pl EXCEPT !.pred = L.pred, !.true = L.true]
           R == extractKeys(m, "r")
           h == [l |-> L.keys, r |-> R.keys]
           q == [pl EXCEPT !.pred = R.pred, !.true = R.true, !.hash = h, !.nullsEqual = L.nullsEqual]
<1>0. prepareForHash(pl) = q
  BY DEF prepareForHash
<1>1. "l" \in Sides /\ "r" \in Sides
  BY DEF Sides
<1>2. /\ Good(L.pred) /\ Related(pl.pred, L.pred)
      /\ L.true = pl.true \cup Keyed(pl.pred)
      /\ KeysAre(pl.pred, "l", L.keys)
      /\ \A i \in Keyed(pl.pred) : L.nullsEqual[Rank(pl.pred, i)] <=> pl.pred[i].op = "isa"
  BY <1>1, KeysExtracted DEF Preparable
<1> HIDE DEF L
<1>3. m.pred = L.pred /\ m.true = L.true
  BY DEF Preparable, PlanFields
<1> HIDE DEF m
<1>4. /\ Good(R.pred) /\ Related(m.pred, R.pred)
      /\ R.true = m.true \cup Keyed(m.pred)
      /\ KeysAre(m.pred, "r", R.keys)
  BY <1>1, <1>2, <1>3, KeysExtracted
<1> HIDE DEF R, h
<1>5. /\ DOMAIN q = PlanFields /\ q.pred = R.pred /\ q.true = R.true /\ q.hash = h /\ q.nullsEqual = L.nullsEqual
      /\ q.impl = pl.impl /\ q.build = pl.build /\ q.marker = pl.marker
  BY DEF Preparable, PlanFields
<1>6. h.l = L.keys /\ h.r = R.keys
  BY DEF h
<1> HIDE DEF q
<1>7. pl.pred \in Seq(Conjunct) /\ L.pred \in Seq(Conjunct)
  BY <1>2 DEF Preparable, Good
<1>8. Related(P, pl.pred) /\ Related(P, L.pred) /\ Related(P, R.pred)
  <2>1. Related(P, pl.pred)
    BY DEF Preparable
  <2>2. Related(P, L.pred)
    BY <1>2, <2>1, RelatedTrans
  <2> QED
    BY <1>3, <1>4, <2>1, <2>2, RelatedTrans
<1>9. Keyed(pl.pred) = Keyed(P) /\ Keyed(L.pred) = Keyed(P)
  BY <1>8 DEF Related
<1>10. KeysAre(P, "l", L.keys) /\ KeysAre(P, "r", R.keys)
  BY <1>1, <1>2, <1>3, <1>4, <1>8, KeysAreRelated
<1>11. R.true = Keyed(P)
  BY <1>2, <1>3, <1>4, <1>9 DEF Preparable
<1>12. \A i \in Keyed(P) : L.nullsEqual[Rank(P, i)] <=> P[i].op = "isa"
  <2>1. \A i : Rank(pl.pred, i) = Rank(P, i)
    BY <1>8, KeysAreRelated
  <2>2. \A i \in Keyed(P) : pl.pred[i].op = P[i].op
    BY <1>8 DEF Related, Keyed
  <2> QED
    BY <1>2, <1>9, <2>1, <2>2
<1>13. Preparable(P, q)
  BY <1>4, <1>5, <1>8, <1>11 DEF Preparable
<1>14. Exact(P, q)
  BY <1>5, <1>6, <1>10, <1>11, <1>12, <1>13 DEF Exact
<1> QED
  BY <1>0, <1>5, <1>14

\* Of a predicate of SSA values from which keys are apart, keys can be
\* extracted.
LEMMA QueryIsGood ==
    ASSUME NEW pred, PredicateOK(pred), KeysApart(pred)
    PROVE  /\ Good(pred)
           /\ \A o \in Operands(pred) : o.sides = {o.of} \ {"const"} /\ (o.plain <=> o.of # "const" /\ o.val = 0)
<1>0. pred \in Seq(Conjunct)
  BY DEF PredicateOK
<1>1. Operands(pred) \subseteq UNION {{c.l, c.r} : c \in Comparisons(pred)}
  <2>1. ASSUME NEW j \in Compared(pred) PROVE pred[j] \in Comparisons(pred)
    <3>1. pred[j] \in ToSet(pred) /\ pred[j].op # "or"
      BY <1>0 DEF ToSet, Compared
    <3> QED
      BY <3>1 DEF Comparisons
  <2> QED
    BY <2>1 DEF Operands
<1>2. \A o \in Operands(pred) : o \in Operand /\ o.sides = {o.of} \ {"const"} /\ (o.plain <=> o.of # "const" /\ o.val = 0)
  BY <1>0, <1>1, GoodTypes DEF PredicateOK
<1>3. ASSUME NEW o \in Operands(pred), NEW p \in Operands(pred), SameValue(o, p) PROVE o = p
  <2>1. o.sides = p.sides /\ o.of = p.of /\ o.col = p.col /\ o.val = p.val
    BY <1>2, <1>3 DEF SameValue
  <2>2. o.plain = p.plain
    BY <1>2, <2>1 DEF Operand
  <2> QED
    BY <1>2, <2>1, <2>2 DEF Operand
<1> QED
  BY <1>0, <1>2, <1>3 DEF Good

\* What the optimizer may decide for each kind of join
PlanFacts(pl) ==
    /\ pl.impl \in {"nl", "hash", "index", "constant"} /\ pl.build \in Sides /\ pl.marker \in BOOLEAN
    /\ pl.impl = "constant" <=> query.kind = "single" /\ query.pred = <<>>
    /\ pl.impl = "nl" => pl.pred = query.pred /\ pl.true = {}
    /\ pl.impl \in {"hash", "index"} => Exact(query.pred, pl)
    /\ pl.impl = "index" => KeysInOrder(pl.build) /\ query.pk[pl.build] # <<>>
    /\ query.kind \in {"inner", "single"} => ~pl.marker
    /\ query.kind = "fullouter" => pl.build = "l" /\ pl.marker
    /\ query.kind = "single" => pl.build = "r"
    /\ query.kind \in {"semi", "anti", "mark", "outer"} => (pl.marker <=> pl.build = "l")

LEMMA NoPlanPreparable ==
    ASSUME QueryOK(query), JoinCovered
    PROVE  /\ Preparable(query.pred, NoPlan) /\ query.pred \in Seq(Conjunct)
           /\ NoPlan.impl = "nl" /\ NoPlan.build = "r" /\ NoPlan.marker = FALSE
           /\ NoPlan.pred = query.pred /\ NoPlan.true = {}
<1>1. Good(query.pred) /\ query.pred \in Seq(Conjunct)
  BY QueryIsGood DEF QueryOK, JoinCovered, Good
<1>2. Related(query.pred, query.pred)
  BY <1>1, RelatedRefl
<1>3. /\ DOMAIN NoPlan = PlanFields /\ NoPlan.impl = "nl" /\ NoPlan.build = "r" /\ NoPlan.marker = FALSE
      /\ NoPlan.pred = query.pred /\ NoPlan.true = {}
  BY DEF NoPlan, PlanFields
<1> QED
  BY <1>1, <1>2, <1>3 DEF Preparable

\* The decisions that leave the keys alone
LEMMA SameKeys ==
    ASSUME NEW P, NEW pl, NEW q, DOMAIN pl = PlanFields, DOMAIN q = PlanFields,
           q.pred = pl.pred, q.true = pl.true, q.hash = pl.hash, q.nullsEqual = pl.nullsEqual
    PROVE  (Preparable(P, pl) => Preparable(P, q)) /\ (Exact(P, pl) => Exact(P, q))
BY DEF Preparable, Exact

LEMMA PlansAre ==
    ASSUME QueryOK(query), JoinCovered, NEW pl \in Plans
    PROVE  PlanFacts(pl)
<1> DEFINE P == query.pred
<1>0. /\ Preparable(P, NoPlan) /\ P \in Seq(Conjunct) /\ DOMAIN NoPlan = PlanFields
      /\ NoPlan.impl = "nl" /\ NoPlan.build = "r" /\ NoPlan.marker = FALSE
      /\ NoPlan.pred = P /\ NoPlan.true = {}
  BY NoPlanPreparable DEF Preparable
<1>1. query.kind \in {"inner", "semi", "anti", "mark", "outer", "fullouter", "single"}
  BY DEF QueryOK
<1> HIDE DEF P
<1>3. CASE query.kind \in {"inner", "fullouter"}
  <2> DEFINE k == query.kind = "fullouter"
             base == [NoPlan EXCEPT !.build = "l", !.marker = k]
             prepared == prepareForHash(base)
             twice == prepareForHash(prepared)
  <2>1. /\ base.impl = "nl" /\ base.build = "l" /\ base.marker = k /\ base.pred = P /\ base.true = {}
        /\ Preparable(P, base)
    <3> HIDE DEF k
    <3>1. /\ base.impl = NoPlan.impl /\ base.build = "l" /\ base.marker = k /\ DOMAIN base = PlanFields
          /\ base.pred = NoPlan.pred /\ base.true = NoPlan.true /\ base.hash = NoPlan.hash /\ base.nullsEqual = NoPlan.nullsEqual
      BY <1>0 DEF PlanFields
    <3> HIDE DEF base
    <3> QED
      BY <1>0, <3>1, SameKeys
  <2> HIDE DEF base
  <2>2. Exact(P, prepared) /\ prepared.build = "l" /\ prepared.marker = k
    BY <1>0, <2>1, Prepared
  <2> HIDE DEF prepared
  <2>3. Exact(P, twice) /\ twice.build = "l" /\ twice.marker = k
    <3>1. Preparable(P, prepared)
      BY <2>2 DEF Exact
    <3> QED
      BY <1>0, <2>2, <3>1, Prepared
  <2> HIDE DEF twice, k
  <2>4. \/ pl = base
        \/ pl = [twice EXCEPT !.impl = "hash"]
        \/ \E s \in {"l", "r"} : /\ query.kind = "inner" /\ containsExactlyPrimaryKey(s)
                                 /\ pl = [prepared EXCEPT !.impl = "index", !.build = s]
    <3>1. pl \in PlansOfInner
      BY <1>3 DEF Plans
    <3> QED
      BY <3>1 DEF PlansOfInner, base, prepared, twice, k, P
  <2>5. CASE pl = base
    <3>1. PlanFacts(base)
      BY <1>3, <2>1 DEF PlanFacts, Sides, k, P
    <3> QED
      BY <2>5, <3>1
  <2>6. CASE pl = [twice EXCEPT !.impl = "hash"]
    <3>1. DOMAIN twice = PlanFields
      BY <2>3 DEF Exact, Preparable
    <3>2. pl.impl = "hash" /\ pl.build = "l" /\ pl.marker = k /\ Exact(P, pl)
      <4>1. /\ DOMAIN pl = PlanFields /\ pl.impl = "hash" /\ pl.build = twice.build /\ pl.marker = twice.marker
          /\ pl.pred = twice.pred /\ pl.true = twice.true /\ pl.hash = twice.hash /\ pl.nullsEqual = twice.nullsEqual
        BY <2>6, <3>1 DEF PlanFields
      <4> QED
        BY <2>3, <3>1, <4>1, SameKeys
    <3> QED
      BY <1>3, <3>2 DEF PlanFacts, Sides, k, P
  <2>7. ASSUME NEW s \in {"l", "r"}, query.kind = "inner", containsExactlyPrimaryKey(s),
               pl = [prepared EXCEPT !.impl = "index", !.build = s]
        PROVE  PlanFacts(pl)
    <3>1. DOMAIN prepared = PlanFields
      BY <2>2 DEF Exact, Preparable
    <3>2. pl.impl = "index" /\ pl.build = s /\ pl.marker = k /\ Exact(P, pl)
      <4>1. /\ DOMAIN pl = PlanFields /\ pl.impl = "index" /\ pl.build = s /\ pl.marker = prepared.marker
          /\ pl.pred = prepared.pred /\ pl.true = prepared.true /\ pl.hash = prepared.hash /\ pl.nullsEqual = prepared.nullsEqual
        BY <2>7, <3>1 DEF PlanFields
      <4> QED
        BY <2>2, <3>1, <4>1, SameKeys
    <3>3. KeysInOrder(s) /\ query.pk[s] # <<>>
      BY <2>7 DEF JoinCovered, Sides, containsExactlyPrimaryKey
    <3> QED
      BY <2>7, <3>2, <3>3 DEF PlanFacts, Sides, k, P
  <2> QED
    BY <2>4, <2>5, <2>6, <2>7
<1>4. CASE query.kind \notin {"inner", "fullouter"}
  <2> DEFINE prepared == prepareForHash(NoPlan)
             hashed == IF hashImplPossible(P) THEN [prepared EXCEPT !.impl = "hash"] ELSE NoPlan
  <2>1. Exact(P, prepared) /\ prepared.build = "r" /\ prepared.marker = FALSE
    BY <1>0, Prepared
  <2> HIDE DEF prepared
  <2>2. \/ query.kind = "single" /\ P = <<>> /\ pl = [NoPlan EXCEPT !.impl = "constant"]
        \/ ~(query.kind = "single" /\ P = <<>>) /\ pl = hashed
        \/ ~(query.kind = "single" /\ P = <<>>) /\ query.kind # "single" /\ pl = [hashed EXCEPT !.build = "l", !.marker = TRUE]
    <3>1. pl \in PlansOfOthers
      BY <1>4 DEF Plans
    <3> QED
      BY <3>1 DEF PlansOfOthers, prepared, P
  <2>3. /\ hashed.build = "r" /\ hashed.marker = FALSE /\ DOMAIN hashed = PlanFields
        /\ \/ hashed.impl = "nl" /\ hashed.pred = P /\ hashed.true = {}
           \/ hashed.impl = "hash" /\ Exact(P, hashed)
    <3>1. CASE hashImplPossible(P)
      <4>1. DOMAIN prepared = PlanFields
        BY <2>1 DEF Exact, Preparable
      <4>2. Exact(P, hashed) /\ hashed.impl = "hash" /\ hashed.build = "r" /\ hashed.marker = FALSE
        <5>1. /\ DOMAIN hashed = PlanFields /\ hashed.impl = "hash" /\ hashed.build = prepared.build
              /\ hashed.marker = prepared.marker
              /\ hashed.pred = prepared.pred /\ hashed.true = prepared.true /\ hashed.hash = prepared.hash /\ hashed.nullsEqual = prepared.nullsEqual
          BY <3>1, <4>1 DEF PlanFields
        <5> HIDE DEF hashed
        <5> QED
          BY <2>1, <4>1, <5>1, SameKeys
      <4> HIDE DEF hashed
      <4> QED
        BY <4>2 DEF Exact, Preparable
    <3>2. CASE ~hashImplPossible(P)
      BY <1>0, <3>2
    <3> QED
      BY <3>1, <3>2
  <2> HIDE DEF hashed
  <2>4. CASE query.kind = "single" /\ P = <<>> /\ pl = [NoPlan EXCEPT !.impl = "constant"]
    <3>1. pl.impl = "constant" /\ pl.build = "r" /\ pl.marker = FALSE
      BY <1>0, <2>4 DEF PlanFields
    <3> QED
      BY <2>4, <3>1 DEF PlanFacts, Sides, P
  <2>5. CASE ~(query.kind = "single" /\ P = <<>>) /\ pl = hashed
    <3>1. PlanFacts(hashed)
      BY <1>1, <1>4, <2>3, <2>5 DEF PlanFacts, Sides, P
    <3> QED
      BY <2>5, <3>1
  <2>6. CASE ~(query.kind = "single" /\ P = <<>>) /\ query.kind # "single" /\ pl = [hashed EXCEPT !.build = "l", !.marker = TRUE]
    <3>1. /\ pl.impl = hashed.impl /\ pl.build = "l" /\ pl.marker = TRUE
          /\ \/ pl.impl = "nl" /\ pl.pred = P /\ pl.true = {}
             \/ pl.impl = "hash" /\ Exact(P, pl)
      <4>1. /\ DOMAIN pl = PlanFields /\ pl.impl = hashed.impl /\ pl.build = "l" /\ pl.marker = TRUE
          /\ pl.pred = hashed.pred /\ pl.true = hashed.true /\ pl.hash = hashed.hash /\ pl.nullsEqual = hashed.nullsEqual
        BY <2>3, <2>6 DEF PlanFields
      <4> QED
        BY <2>3, <4>1, SameKeys
    <3> QED
      BY <1>1, <1>4, <2>6, <3>1 DEF PlanFacts, Sides, P
  <2> QED
    BY <2>2, <2>4, <2>5, <2>6
<1> QED
  BY <1>3, <1>4

-----------------------------------------------------------------------------
(* The rows a plan combines are those that match                           *)

LEMMA TruthRelated ==
    ASSUME NEW P, NEW Q, P \in Seq(Conjunct), Related(P, Q), NEW j \in DOMAIN P, NEW l, NEW r
    PROVE  Truth(Q[j], l, r) <=> Truth(P[j], l, r)
<1>1. CASE j \in Compared(P)
  <2>1. /\ Q[j].op = P[j].op /\ P[j].op # "or"
        /\ SameValue(Q[j].l, P[j].l) /\ SameValue(Q[j].r, P[j].r)
    BY <1>1 DEF Related, Compared
  <2>2. Value(Q[j].l, l, r) = Value(P[j].l, l, r) /\ Value(Q[j].r, l, r) = Value(P[j].r, l, r)
    BY <2>1 DEF SameValue, Value
  <2> QED
    BY <2>1, <2>2 DEF Truth
<1>2. CASE j \notin Compared(P)
  BY <1>2 DEF Related
<1> QED
  BY <1>1, <1>2

LEMMA EqFnKeyed ==
    ASSUME query.pred \in Seq(Conjunct), Exact(query.pred, plan), NEW l, NEW r
    PROVE  /\ EqFn(l, r) <=> \A i \in Keyed(query.pred) : Truth(query.pred[i], l, r)
           /\ EqFn(l, r) => KeysOf("l", l, r) = KeysOf("r", l, r)
<1> DEFINE P == query.pred
           N == Cardinality(Keyed(P))
           kl == KeysOf("l", l, r)
           kr == KeysOf("r", l, r)
           same(k) == Compare(IF plan.nullsEqual[k] THEN "isa" ELSE "eq", kl[k], kr[k])
<1>1. /\ DOMAIN plan.hash.l = 1 .. N /\ DOMAIN plan.hash.r = 1 .. N
      /\ \A i \in Keyed(P) : /\ SameValue(plan.hash.l[Rank(P, i)], KeyFor(P[i], "l"))
                             /\ SameValue(plan.hash.r[Rank(P, i)], KeyFor(P[i], "r"))
                             /\ plan.nullsEqual[Rank(P, i)] <=> P[i].op = "isa"
  BY DEF Exact, KeysAre
<1>2. /\ N \in Nat /\ \A i \in Keyed(P) : Rank(P, i) \in 1 .. N
      /\ \A k \in 1 .. N : \E i \in Keyed(P) : Rank(P, i) = k
  <2>1. Rank(P, Len(P)) = N /\ Len(P) \in Nat /\ Keyed(P) \subseteq 1 .. Len(P)
    BY RankEnds, GoodTypes
  <2>2. \A i \in Keyed(P) : Rank(P, i) \in 1 .. Rank(P, Len(P))
    BY <2>1, RankOrder
  <2>3. Rank(P, Len(P)) \in Nat
    BY <2>1, RankType
  <2>4. \A k \in 1 .. Rank(P, Len(P)) : \E i \in Keyed(P) : Rank(P, i) = k
    BY RankOnto
  <2> HIDE DEF N
  <2> QED
    BY <2>1, <2>2, <2>3, <2>4
<1>3. \A i \in Keyed(P) : P[i] \in Comparison /\ P[i].op \in {"eq", "isa"} /\ P[i].l.sides # P[i].r.sides
  BY GoodTypes DEF Keyed, IsEqualityPred
<1>4. /\ kl = [k \in 1 .. N |-> Value(plan.hash.l[k], l, r)]
      /\ kr = [k \in 1 .. N |-> Value(plan.hash.r[k], l, r)]
  BY <1>1 DEF KeysOf
<1>5. EqFn(l, r) <=> \A k \in 1 .. N : same(k)
  BY <1>1 DEF EqFn
<1> HIDE DEF P, N, kl, kr
<1>6. ASSUME NEW i \in Keyed(P)
      PROVE  /\ same(Rank(P, i)) <=> Truth(P[i], l, r)
             /\ same(Rank(P, i)) => kl[Rank(P, i)] = kr[Rank(P, i)]
  <2> DEFINE c == P[i]
             k == Rank(P, i)
             v == Value(KeyFor(c, "l"), l, r)
             w == Value(KeyFor(c, "r"), l, r)
  <2>1. kl[k] = v /\ kr[k] = w
    <3>1. k \in 1 .. N
      BY <1>2
    <3>2. kl[k] = Value(plan.hash.l[k], l, r) /\ kr[k] = Value(plan.hash.r[k], l, r)
      BY <1>4, <3>1
    <3>3. SameValue(plan.hash.l[k], KeyFor(c, "l")) /\ SameValue(plan.hash.r[k], KeyFor(c, "r"))
      BY <1>1
    <3> HIDE DEF k, c
    <3> QED
      BY <3>2, <3>3 DEF SameValue, Value
  <2>2. \/ KeyFor(c, "l") = c.l /\ KeyFor(c, "r") = c.r
        \/ KeyFor(c, "l") = c.r /\ KeyFor(c, "r") = c.l
    <3>1. "l" \in Sides /\ Other("l") = "r"
      BY SidesApart DEF Sides
    <3> QED
      BY <1>3, <3>1, KeySides
  <2>3. Truth(c, l, r) <=> Compare(c.op, Value(c.l, l, r), Value(c.r, l, r))
    BY <1>3 DEF Truth
  <2>4. (IF plan.nullsEqual[k] THEN "isa" ELSE "eq") = c.op
    BY <1>1, <1>3
  <2>5. c.op = "eq" \/ c.op = "isa"
    BY <1>3
  <2>6. /\ Compare(c.op, v, w) <=> Compare(c.op, w, v)
        /\ Compare(c.op, v, w) => v = w
    <3> HIDE DEF v, w, c
    <3> QED
      BY <2>5 DEF Compare
  <2>7. Truth(c, l, r) <=> Compare(c.op, v, w)
    <3>1. CASE KeyFor(c, "l") = c.l /\ KeyFor(c, "r") = c.r
      BY <2>3, <3>1
    <3>2. CASE KeyFor(c, "l") = c.r /\ KeyFor(c, "r") = c.l
      <4>1. Truth(c, l, r) <=> Compare(c.op, w, v)
        BY <2>3, <3>2
      <4> HIDE DEF v, w, c
      <4> QED
        BY <2>6, <4>1
    <3> QED
      BY <2>2, <3>1, <3>2
  <2>8. same(k) <=> Compare(c.op, v, w)
    BY <2>1, <2>4
  <2> HIDE DEF v, w, same
  <2> QED
    BY <2>1, <2>6, <2>7, <2>8 DEF c, k
<1> HIDE DEF same
<1>7. EqFn(l, r) <=> \A i \in Keyed(P) : Truth(P[i], l, r)
  BY <1>2, <1>5, <1>6
<1>8. ASSUME EqFn(l, r) PROVE kl = kr
  <2>1. \A k \in 1 .. N : kl[k] = kr[k]
    BY <1>2, <1>5, <1>6, <1>8
  <2> QED
    BY <1>4, <2>1
<1> QED
  BY <1>7, <1>8 DEF P, kl, kr

\* The key columns of an index, in its order, are the keys of its side.
LEMMA IndexKeys ==
    ASSUME QueryOK(query), JoinCovered, Exact(query.pred, plan), NEW s \in Sides, KeysInOrder(s), query.pk[s] # <<>>,
           NEW b \in Rows(s), NEW l, NEW r, (IF s = "l" THEN l ELSE r) = Table(s)[b]
    PROVE  KeysOf(s, l, r) = [k \in DOMAIN query.pk[s] |-> Table(s)[b][query.pk[s][k]]]
<1> DEFINE P == query.pred
           N == Cardinality(Keyed(P))
           pk == query.pk[s]
           row == Table(s)[b]
           keys == plan.hash[s]
<1>1. /\ Good(P) /\ P \in Seq(Conjunct)
      /\ \A o \in Operands(P) : o.sides = {o.of} \ {"const"} /\ (o.plain <=> o.of # "const" /\ o.val = 0)
  BY QueryIsGood DEF QueryOK, JoinCovered, Good
<1>2. TableOK(Table(s), pk)
  BY DEF QueryOK, Table, Sides
<1>3. /\ pk \in Seq(STRING) /\ DOMAIN pk = 1 .. N /\ Len(pk) = N /\ N \in Nat
      /\ \A k \in 1 .. N : pk[k] \in ToSet(pk)
  <2>1. pk \in Seq(STRING)
    BY <1>2 DEF TableOK
  <2>2. Len(pk) = N
    BY DEF KeysInOrder
  <2> HIDE DEF pk, N
  <2> QED
    BY <2>1, <2>2 DEF ToSet
<1>4. \A k \in 1 .. N : pk[k] \in DOMAIN row /\ row[pk[k]] # Null /\ row[pk[k]] \in Nat
  <2>1. b \in DOMAIN Table(s) /\ pk # <<>>
    BY DEF Rows
  <2>2. \A c \in DOMAIN row : row[c] \in Nat
    BY <1>2, <2>1 DEF TableOK
  <2>3. \A c \in ToSet(pk) : c \in DOMAIN row /\ row[c] # Null
    BY <1>2, <2>1 DEF TableOK
  <2> HIDE DEF row, pk, N
  <2> QED
    BY <1>3, <2>2, <2>3
<1>5. DOMAIN keys = 1 .. N /\ \A i \in Keyed(P) : SameValue(keys[Rank(P, i)], KeyFor(P[i], s))
  <2>1. KeysAre(P, s, keys)
    BY DEF Exact, Sides
  <2> QED
    BY <2>1 DEF KeysAre
<1>6. KeysOf(s, l, r) = [k \in 1 .. N |-> Value(keys[k], l, r)]
  BY <1>5 DEF KeysOf
<1>7. ASSUME NEW k \in 1 .. N PROVE Value(keys[k], l, r) = row[pk[k]]
  <2>1. PICK i \in Keyed(P) : Rank(P, i) = k
    BY <1>1, RankOnto, RankEnds
  <2> DEFINE o == KeyFor(P[i], s)
  <2>2. o.plain /\ o.col = pk[k]
    BY <2>1 DEF KeysInOrder
  <2>3. i \in Compared(P) /\ P[i] \in Comparison /\ P[i].l.sides # P[i].r.sides
    BY <1>1, GoodTypes DEF Keyed
  <2>4. o.sides \in {{}, {s}}
    BY <2>3, KeySides
  <2>5. o \in Operands(P)
    BY <2>3 DEF Operands, KeyFor
  <2>6. o.of = s /\ o.val = 0 /\ o.of # "const"
    BY <1>1, <2>2, <2>4, <2>5
  <2>7. SameValue(keys[k], o)
    BY <1>5, <2>1
  <2> HIDE DEF o, row, pk, keys, N
  <2>8. keys[k].of = s /\ s # "const" /\ keys[k].col = pk[k] /\ keys[k].val = 0
    BY <2>2, <2>6, <2>7 DEF SameValue
  <2>9. (IF keys[k].of = "l" THEN l ELSE r) = row
    BY <2>8 DEF row
  <2>10. row[pk[k]] # Null /\ row[pk[k]] + 0 = row[pk[k]]
    BY <1>4
  <2> QED
    BY <2>8, <2>9, <2>10 DEF Value
<1> QED
  <2> HIDE DEF row, keys, N
  <2> QED
    BY <1>3, <1>6, <1>7 DEF row

LEMMA FilteredIsMatch ==
    ASSUME QueryOK(query), JoinCovered, plan \in Plans, plan.impl # "constant",
           NEW b \in Rows(plan.build), NEW p
    PROVE  b \in Filtered(p) <=>
             b \in store /\ IF plan.build = "l" THEN Match(b, p) ELSE Match(p, b)
<1> DEFINE P == query.pred
           L == Left(b, p)
           R == Right(b, p)
<1>1. PlanFacts(plan)
  BY PlansAre
<1>2. P \in Seq(Conjunct)
  BY DEF QueryOK, PredicateOK
<1>3. (IF plan.build = "l" THEN Match(b, p) ELSE Match(p, b)) <=> \A i \in DOMAIN P : Truth(P[i], L, R)
  BY <1>1 DEF Match, Left, Right, Table, PlanFacts, Sides
<1>4. translateSelection(b, p) <=> \A i \in DOMAIN plan.pred \ plan.true : Truth(plan.pred[i], L, R)
  BY DEF translateSelection
<1>5. CASE plan.impl = "nl"
  <2>1. plan.pred = P /\ plan.true = {}
    BY <1>1, <1>5 DEF PlanFacts
  <2>2. b \in Filtered(p) <=> b \in store /\ translateSelection(b, p)
    BY <1>5 DEF Filtered, Lookup
  <2> HIDE DEF P, L, R
  <2> QED
    BY <1>3, <1>4, <2>1, <2>2
<1>6. CASE plan.impl # "nl"
  <2>1. Exact(P, plan)
    BY <1>1, <1>6 DEF PlanFacts
  <2>2. Related(P, plan.pred) /\ plan.true = Keyed(P)
    BY <2>1 DEF Exact, Preparable
  <2>3. translateSelection(b, p) <=> \A i \in DOMAIN P \ Keyed(P) : Truth(P[i], L, R)
    <3>1. \A i \in DOMAIN P : Truth(plan.pred[i], L, R) <=> Truth(P[i], L, R)
      BY <1>2, <2>2, TruthRelated
    <3>2. DOMAIN plan.pred = DOMAIN P
      BY <2>2 DEF Related
    <3> HIDE DEF P, L, R
    <3> QED
      BY <1>4, <2>2, <3>1, <3>2
  <2>4. /\ EqFn(L, R) <=> \A i \in Keyed(P) : Truth(P[i], L, R)
        /\ EqFn(L, R) => KeysOf("l", L, R) = KeysOf("r", L, R)
    BY <1>2, <2>1, EqFnKeyed
  <2>5. BuildHash(b, p) = Hash(KeysOf(plan.build, L, R))
    <3>1. CASE plan.impl = "index"
      <4>1. plan.build \in Sides /\ KeysInOrder(plan.build) /\ query.pk[plan.build] # <<>>
        BY <1>1, <3>1 DEF PlanFacts
      <4>2. (IF plan.build = "l" THEN L ELSE R) = Table(plan.build)[b]
        BY <4>1 DEF Left, Right, Sides
      <4>3. KeysOf(plan.build, L, R) =
              [k \in DOMAIN query.pk[plan.build] |-> Table(plan.build)[b][query.pk[plan.build][k]]]
        <5> HIDE DEF L, R
        <5> QED
          BY <2>1, <4>1, <4>2, IndexKeys
      <4>4. BuildHash(b, p) = Hash([k \in DOMAIN query.pk[plan.build] |-> Table(plan.build)[b][query.pk[plan.build][k]]])
        BY <3>1 DEF BuildHash
      <4> QED
        BY <4>3, <4>4
    <3>2. CASE plan.impl # "index"
      BY <3>2 DEF BuildHash
    <3> QED
      BY <3>1, <3>2
  <2>6. EqFn(L, R) => BuildHash(b, p) = Hash(KeysOf(Other(plan.build), L, R))
    <3>1. plan.build \in Sides
      BY <1>1 DEF PlanFacts
    <3>2. EqFn(L, R) => KeysOf(plan.build, L, R) = KeysOf(Other(plan.build), L, R)
      <4> HIDE DEF L, R
      <4> QED
        BY <2>4, <3>1, SidesApart DEF Sides
    <3> HIDE DEF L, R
    <3> QED
      BY <2>5, <3>2
  <2>7. b \in Filtered(p) <=> /\ b \in store /\ BuildHash(b, p) = Hash(KeysOf(Other(plan.build), L, R))
                              /\ EqFn(L, R) /\ translateSelection(b, p)
    BY <1>6 DEF Filtered, Lookup
  <2>8. Keyed(P) \subseteq DOMAIN P
    BY DEF Keyed
  <2>9. EqFn(L, R) /\ translateSelection(b, p) <=> \A i \in DOMAIN P : Truth(P[i], L, R)
    <3> HIDE DEF P, L, R
    <3> QED
      BY <2>3, <2>4, <2>8
  <2> HIDE DEF P, L, R
  <2> QED
    BY <1>3, <2>6, <2>7, <2>9
<1> QED
  BY <1>5, <1>6

-----------------------------------------------------------------------------
(* The rows that have been processed                                       *)

LEMMA BagOfUnion ==
    ASSUME NEW A, NEW B, A \cap B = {}
    PROVE  SetToBag(A) (+) SetToBag(B) = SetToBag(A \cup B)
<1> DEFINE a == [e \in A |-> 1]
           b == [e \in B |-> 1]
           both == [e \in (DOMAIN a) \cup (DOMAIN b) |->
                      (IF e \in DOMAIN a THEN a[e] ELSE 0) + (IF e \in DOMAIN b THEN b[e] ELSE 0)]
<1>1. SetToBag(A) (+) SetToBag(B) = both
  BY DEF SetToBag, (+)
<1>2. DOMAIN a = A /\ DOMAIN b = B /\ (\A e \in A : a[e] = 1) /\ (\A e \in B : b[e] = 1)
  OBVIOUS
<1> HIDE DEF a, b
<1>3. DOMAIN both = A \cup B
  BY <1>2
<1>4. \A e \in A \cup B : both[e] = 1
  BY <1>2
<1>5. both = [e \in A \cup B |-> 1]
  BY <1>3, <1>4
<1> QED
  BY <1>1, <1>5 DEF SetToBag

LEMMA QueryStays ==
    ASSUME query' = query
    PROVE  /\ QueryOK(query') <=> QueryOK(query)
           /\ JoinCovered' <=> JoinCovered
           /\ Plans' = Plans
           /\ Rows("l")' = Rows("l") /\ Rows("r")' = Rows("r")
<1>1. Rows("l")' = Rows("l") /\ Rows("r")' = Rows("r")
  BY DEF Rows, Table
<1>2. containsExactlyPrimaryKey("l")' = containsExactlyPrimaryKey("l")
      /\ containsExactlyPrimaryKey("r")' = containsExactlyPrimaryKey("r")
  BY DEF containsExactlyPrimaryKey
<1>3. (KeysInOrder("l")' <=> KeysInOrder("l")) /\ (KeysInOrder("r")' <=> KeysInOrder("r"))
  BY DEF KeysInOrder
<1>4. JoinCovered' <=> JoinCovered
  BY <1>1, <1>2, <1>3 DEF JoinCovered, Sides, containsExactlyPrimaryKey, KeysInOrder
<1>5. NoPlan' = NoPlan
  BY DEF NoPlan
<1>6. Plans' = Plans
  BY <1>2, <1>5 DEF Plans, PlansOfInner, PlansOfOthers, containsExactlyPrimaryKey
<1> QED
  BY <1>1, <1>4, <1>6

LEMMA FilteredStays ==
    ASSUME query' = query, plan' = plan, store' = store, NEW CONSTANT p
    PROVE  Filtered(p)' = Filtered(p) /\ Emitted(p)' = Emitted(p)
<1>1. Filtered(p)' = Filtered(p)
  BY DEF Filtered, Lookup, translateSelection, EqFn, KeysOf, BuildHash, Left, Right, Table
<1>2. Combined(p)' = Combined(p) /\ anyTuple(p)' = anyTuple(p)
  BY <1>1 DEF Combined, anyTuple, Pair
<1>3. Emitted(p)' = Emitted(p)
  BY <1>2 DEF Emitted
<1> QED
  BY <1>1, <1>3

LEMMA ScannedStays ==
    ASSUME query' = query, flag' = flag, NEW CONSTANT b
    PROVE  Scanned(b)' = Scanned(b)
BY DEF Scanned

\* A pair says which row it was emitted for.
LEMMA EmittedFor ==
    ASSUME QueryOK(query), PlanFacts(plan), plan.impl # "constant", NEW p, NEW e \in Emitted(p)
    PROVE  IF plan.build = "l" THEN e[2] = p ELSE e[1] = p
<1>1. /\ query.kind \in {"inner", "semi", "anti", "mark", "outer", "fullouter", "single"}
      /\ plan.build \in {"l", "r"} /\ plan.marker \in BOOLEAN
      /\ query.kind \in {"inner", "single"} => ~plan.marker
      /\ query.kind = "fullouter" => plan.build = "l" /\ plan.marker
      /\ query.kind = "single" => plan.build = "r"
      /\ query.kind \in {"semi", "anti", "mark", "outer"} => (plan.marker <=> plan.build = "l")
  BY DEF QueryOK, PlanFacts, Sides
<1>2. \A c \in Combined(p) : IF plan.build = "l" THEN c[2] = p ELSE c[1] = p
  BY DEF Combined, Pair
<1>3. CASE query.kind = "inner"
  BY <1>2, <1>3 DEF Emitted
<1>4. CASE query.kind = "fullouter"
  <2>1. e \in Combined(p) \/ e = <<NoRow, p>>
    BY <1>4 DEF Emitted
  <2> QED
    BY <1>1, <1>2, <1>4, <2>1
<1>5. CASE query.kind = "outer"
  <2>1. e \in Combined(p) \/ (~plan.marker /\ e = <<p, NoRow>>)
    BY <1>1, <1>5 DEF Emitted
  <2> QED
    BY <1>1, <1>2, <1>5, <2>1
<1>6. CASE query.kind = "single"
  <2>1. e \in Combined(p) \/ e = <<p, NoRow>>
    BY <1>1, <1>6 DEF Emitted
  <2> QED
    BY <1>1, <1>2, <1>6, <2>1
<1>7. CASE query.kind \in {"semi", "anti"}
  <2>1. ~plan.marker /\ e = <<p, NoRow>>
    BY <1>1, <1>7 DEF Emitted
  <2> QED
    BY <1>1, <1>7, <2>1
<1>8. CASE query.kind = "mark"
  <2>1. ~plan.marker /\ e = <<p, IF anyTuple(p) THEN 1 ELSE 0>>
    BY <1>1, <1>8 DEF Emitted
  <2> QED
    BY <1>1, <1>8, <2>1
<1> QED
  BY <1>1, <1>3, <1>4, <1>5, <1>6, <1>7, <1>8

LEMMA ScannedFor ==
    ASSUME QueryOK(query), PlanFacts(plan), plan.marker, NEW b, NEW e \in Scanned(b)
    PROVE  /\ plan.build = "l" /\ e[1] = b
           /\ query.kind # "mark" => e[2] = NoRow
           /\ query.kind = "mark" => \A p : Emitted(p) = {}
<1>1. /\ query.kind \in {"semi", "anti", "mark", "outer", "fullouter"} /\ plan.build = "l"
  BY DEF QueryOK, PlanFacts, Sides
<1>2. CASE query.kind = "semi"
  <2>1. e = <<b, NoRow>>
    BY <1>2 DEF Scanned
  <2> QED
    BY <1>1, <1>2, <2>1
<1>3. CASE query.kind \in {"anti", "outer", "fullouter"}
  <2>1. e = <<b, NoRow>>
    BY <1>3 DEF Scanned
  <2> QED
    BY <1>1, <1>3, <2>1
<1>4. CASE query.kind = "mark"
  <2>1. e = <<b, IF b \in flag THEN 1 ELSE 0>>
    BY <1>4 DEF Scanned
  <2>2. \A p : Emitted(p) = {}
    BY <1>4 DEF Emitted
  <2> QED
    BY <1>1, <1>4, <2>1, <2>2
<1> QED
  BY <1>1, <1>2, <1>3, <1>4

-----------------------------------------------------------------------------
(* The invariant                                                           *)

LEMMA JoinInitInv ==
    ASSUME JoinInit, JoinCovered
    PROVE  JoinInv
<1>1. /\ QueryOK(query) /\ stage = "plan" /\ rest = {} /\ store = {} /\ flag = {} /\ result = EmptyBag
      /\ plan.impl = "nl"
  BY DEF JoinInit, NoPlan
<1>2. PlanHolds /\ RestHolds /\ StoreHolds
  BY <1>1 DEF PlanHolds, RestHolds, StoreHolds
<1>3. Probed = {} /\ ScannedRows = {}
  BY <1>1 DEF Probed, ScannedRows
<1>4. FlagHolds
  BY <1>1 DEF FlagHolds
<1>5. ResultHolds
  <2>1. AllEmitted \cup AllScanned = {}
    BY <1>3 DEF AllEmitted, AllScanned
  <2> QED
    BY <1>1, <2>1 DEF ResultHolds, EmptyBag
<1> QED
  BY <1>1, <1>2, <1>4, <1>5 DEF JoinInv

\* Nothing is emitted or marked before a row has been probed.
LEMMA NothingProbed ==
    ASSUME Probed = {}, ScannedRows = {}
    PROVE  /\ FlagHolds <=> flag = {}
           /\ ResultHolds <=> result = EmptyBag
<1>1. Probed \X store = {}
  OBVIOUS
<1>2. AllEmitted \cup AllScanned = {}
  BY DEF AllEmitted, AllScanned
<1> QED
  BY <1>1, <1>2 DEF FlagHolds, ResultHolds, EmptyBag

LEMMA OptimizeInv ==
    ASSUME JoinInv, OptimizeImplementation
    PROVE  JoinInv'
<1>1. /\ QueryOK(query') /\ JoinCovered' /\ plan' \in Plans' /\ query' = query
      /\ Rows("l")' = Rows("l") /\ Rows("r")' = Rows("r")
  BY QueryStays DEF JoinInv, OptimizeImplementation
<1>2. plan'.build \in {"l", "r"} /\ plan'.impl # "nothing"
  <2>1. PlanFacts(plan')
    BY PlansAre DEF JoinInv, OptimizeImplementation
  <2> QED
    BY <2>1 DEF PlanFacts, Sides
<1>3. /\ flag' = {} /\ result' = EmptyBag
      /\ \/ plan'.impl = "index" /\ stage' = "probe" /\ store' = Rows(plan'.build) /\ rest' = Rows(Other(plan'.build))
         \/ plan'.impl # "index" /\ stage' = "build" /\ store' = {} /\ rest' = Rows(plan'.build)
  BY DEF JoinInv, PlanHolds, OptimizeImplementation
<1>4. Rows(plan.build)' = Rows(plan'.build) /\ Rows(Other(plan.build))' = Rows(Other(plan'.build))
  BY <1>1, <1>2 DEF Other, Rows, Table
<1>5. PlanHolds'
  BY <1>1, <1>3 DEF PlanHolds
<1>6. RestHolds'
  BY <1>3, <1>4 DEF RestHolds
<1>7. StoreHolds'
  BY <1>3, <1>4 DEF StoreHolds
<1>8. Probed' = {} /\ ScannedRows' = {}
  BY <1>3, <1>4 DEF Probed, ScannedRows
<1>9. FlagHolds' /\ ResultHolds'
  <2>1. (FlagHolds' <=> flag' = {}) /\ (ResultHolds' <=> result' = EmptyBag)
    <3>1. (Probed \X store)' = {}
      BY <1>8
    <3>2. (AllEmitted \cup AllScanned)' = {}
      BY <1>8 DEF AllEmitted, AllScanned
    <3> QED
      BY <1>8, <3>1, <3>2 DEF FlagHolds, ResultHolds, EmptyBag
  <2> QED
    BY <1>3, <2>1
<1> QED
  BY <1>1, <1>5, <1>6, <1>7, <1>9 DEF JoinInv

\* The query and the plan are decided.
LEMMA PlanStays ==
    ASSUME JoinInv, query' = query, plan' = plan, stage # "plan", stage' # "plan"
    PROVE  /\ QueryOK(query)' /\ JoinCovered' /\ PlanHolds'
           /\ Rows(plan.build)' = Rows(plan.build) /\ Rows(Other(plan.build))' = Rows(Other(plan.build))
           /\ PlanFacts(plan) /\ plan \in Plans
<1>1. plan \in Plans /\ QueryOK(query) /\ JoinCovered
  BY DEF JoinInv, PlanHolds
<1>2. QueryOK(query)' /\ JoinCovered' /\ Plans' = Plans
  BY <1>1, QueryStays
<1>3. Rows(plan.build)' = Rows(plan.build) /\ Rows(Other(plan.build))' = Rows(Other(plan.build))
  BY DEF Rows, Table, Other
<1>4. PlanHolds'
  BY <1>1, <1>2 DEF PlanHolds
<1> QED
  BY <1>1, <1>2, <1>3, <1>4, PlansAre

LEMMA BuildInv ==
    ASSUME JoinInv, NEW b \in rest, Build(b)
    PROVE  JoinInv'
<1>1. /\ query' = query /\ plan' = plan /\ stage = "build" /\ stage' = "build" /\ flag' = flag /\ result' = result
      /\ rest' = rest \ {b} /\ store' = IF plan.impl = "constant" THEN {b} ELSE store \cup {b}
  BY DEF Build
<1>2. /\ QueryOK(query)' /\ JoinCovered' /\ PlanHolds'
      /\ Rows(plan.build)' = Rows(plan.build)
  BY <1>1, PlanStays
<1>3. rest \subseteq Rows(plan.build) /\ plan.impl # "index"
  BY <1>1 DEF JoinInv, RestHolds
<1>4. RestHolds'
  BY <1>1, <1>2, <1>3 DEF RestHolds
<1>5. StoreHolds'
  <2> DEFINE built == Rows(plan.build) \ rest
  <2>1. IF plan.impl = "constant"
        THEN IF built = {} THEN store = {} ELSE \E x \in built : store = {x}
        ELSE store = built
    BY <1>1 DEF JoinInv, StoreHolds
  <2>2. Rows(plan.build) \ rest' = built \cup {b}
    BY <1>1, <1>3
  <2> HIDE DEF built
  <2>3. (Rows(plan.build) \ rest)' = built \cup {b}
    BY <1>2, <2>2
  <2> QED
    BY <1>1, <2>1, <2>3 DEF StoreHolds
<1>6. Probed = {} /\ ScannedRows = {} /\ Probed' = {} /\ ScannedRows' = {}
  BY <1>1 DEF Probed, ScannedRows
<1>7. flag = {} /\ result = EmptyBag
  BY <1>6, NothingProbed DEF JoinInv
<1>8. FlagHolds' /\ ResultHolds'
  BY <1>1, <1>6, <1>7 DEF FlagHolds, ResultHolds, AllEmitted, AllScanned, EmptyBag
<1> QED
  BY <1>2, <1>4, <1>5, <1>8 DEF JoinInv

LEMMA EndBuildInv ==
    ASSUME JoinInv, EndBuild
    PROVE  JoinInv'
<1>1. /\ query' = query /\ plan' = plan /\ stage = "build" /\ stage' = "probe" /\ flag' = flag /\ result' = result
      /\ rest = {} /\ rest' = Rows(Other(plan.build)) /\ store' = store
  BY DEF EndBuild
<1>2. /\ QueryOK(query)' /\ JoinCovered' /\ PlanHolds'
      /\ Rows(plan.build)' = Rows(plan.build) /\ Rows(Other(plan.build))' = Rows(Other(plan.build))
  BY <1>1, PlanStays
<1>3. RestHolds'
  BY <1>1, <1>2 DEF RestHolds
<1>4. StoreHolds'
  BY <1>1, <1>2 DEF JoinInv, StoreHolds
<1>5. Probed = {} /\ ScannedRows = {} /\ Probed' = {} /\ ScannedRows' = {}
  BY <1>1, <1>2 DEF Probed, ScannedRows
<1>6. flag = {} /\ result = EmptyBag
  BY <1>5, NothingProbed DEF JoinInv
<1>7. FlagHolds' /\ ResultHolds'
  BY <1>1, <1>5, <1>6 DEF FlagHolds, ResultHolds, AllEmitted, AllScanned, EmptyBag
<1> QED
  BY <1>2, <1>3, <1>4, <1>7 DEF JoinInv

LEMMA ProbeInv ==
    ASSUME JoinInv, NEW p \in rest, Probe(p)
    PROVE  JoinInv'
<1>1. /\ query' = query /\ plan' = plan /\ stage = "probe" /\ stage' = "probe" /\ store' = store
      /\ rest' = rest \ {p} /\ result' = result (+) SetToBag(Emitted(p))
      /\ flag' = (IF plan.marker THEN flag \cup Filtered(p) ELSE flag) /\ plan.impl # "constant"
  BY DEF Probe
<1>2. /\ QueryOK(query)' /\ JoinCovered' /\ PlanHolds'
      /\ Rows(plan.build)' = Rows(plan.build) /\ Rows(Other(plan.build))' = Rows(Other(plan.build))
      /\ PlanFacts(plan)
  BY <1>1, PlanStays
<1>3. rest \subseteq Rows(Other(plan.build))
  BY <1>1 DEF JoinInv, RestHolds
<1>4. RestHolds'
  BY <1>1, <1>2, <1>3 DEF RestHolds
<1>5. StoreHolds'
  BY <1>1, <1>2 DEF JoinInv, StoreHolds
<1>6. /\ Probed' = Probed \cup {p} /\ p \notin Probed /\ ScannedRows = {} /\ ScannedRows' = {}
  BY <1>1, <1>2, <1>3 DEF Probed, ScannedRows
<1>7. /\ \A q : Filtered(q)' = Filtered(q)
      /\ \A q : Emitted(q)' = Emitted(q)
  BY <1>1, FilteredStays
<1>8. FlagHolds'
  <2>1. flag = {b \in store : plan.marker /\ \E q \in Probed : b \in Filtered(q)}
    BY DEF JoinInv, FlagHolds
  <2>2. Filtered(p) \subseteq store
    BY DEF Filtered, Lookup
  <2>3. flag' = {b \in store : plan.marker /\ \E q \in Probed \cup {p} : b \in Filtered(q)}
    <3>1. CASE plan.marker
      BY <1>1, <2>1, <2>2, <3>1
    <3>2. CASE ~plan.marker
      BY <1>1, <2>1, <3>2
    <3> QED
      BY <3>1, <3>2
  <2> QED
    BY <1>1, <1>6, <1>7, <2>3 DEF FlagHolds
<1>9. ResultHolds'
  <2>1. AllScanned = {} /\ AllScanned' = {}
    BY <1>6 DEF AllScanned
  <2>2. result = SetToBag(AllEmitted)
    <3>1. AllEmitted \cup AllScanned = AllEmitted
      BY <2>1
    <3> QED
      BY <1>1, <3>1 DEF JoinInv, ResultHolds
  <2>3. AllEmitted \cap Emitted(p) = {}
    <3>1. SUFFICES ASSUME NEW e \in Emitted(p), NEW q \in Probed, e \in Emitted(q) PROVE FALSE
      BY DEF AllEmitted
    <3>2. /\ IF plan.build = "l" THEN e[2] = p ELSE e[1] = p
          /\ IF plan.build = "l" THEN e[2] = q ELSE e[1] = q
      BY <1>1, <1>2, <3>1, EmittedFor DEF JoinInv
    <3> QED
      BY <1>6, <3>2
  <2>4. AllEmitted' = AllEmitted \cup Emitted(p)
    BY <1>6, <1>7 DEF AllEmitted
  <2>5. result' = SetToBag(AllEmitted \cup Emitted(p))
    BY <1>1, <2>2, <2>3, BagOfUnion
  <2>6. AllEmitted' \cup AllScanned' = AllEmitted \cup Emitted(p)
    BY <2>1, <2>4
  <2> QED
    BY <1>1, <2>5, <2>6 DEF ResultHolds
<1> QED
  BY <1>2, <1>4, <1>5, <1>8, <1>9 DEF JoinInv

LEMMA GatherConstantInv ==
    ASSUME JoinInv, NEW p \in rest, GatherConstant(p)
    PROVE  JoinInv'
<1>1. /\ query' = query /\ plan' = plan /\ stage = "probe" /\ stage' = "probe" /\ store' = store /\ flag' = flag
      /\ rest' = rest \ {p} /\ plan.impl = "constant"
      /\ \E r \in IF store = {} THEN {NoRow, Garbage} ELSE store : result' = result (+) SetToBag({<<p, r>>})
  BY DEF GatherConstant
<1>2. /\ QueryOK(query)' /\ JoinCovered' /\ PlanHolds'
      /\ Rows(plan.build)' = Rows(plan.build) /\ Rows(Other(plan.build))' = Rows(Other(plan.build))
      /\ PlanFacts(plan)
  BY <1>1, PlanStays
<1>3. rest \subseteq Rows(Other(plan.build))
  BY <1>1 DEF JoinInv, RestHolds
<1>4. RestHolds'
  BY <1>1, <1>2, <1>3 DEF RestHolds
<1>5. StoreHolds'
  BY <1>1, <1>2 DEF JoinInv, StoreHolds
<1>6. /\ Probed' = Probed \cup {p} /\ p \notin Probed
  BY <1>1, <1>2, <1>3 DEF Probed
<1>7. PICK b : store = {b}
  <2>1. query.kind = "single" /\ query.pred = <<>> /\ plan.build = "r"
    BY <1>1, <1>2 DEF PlanFacts
  <2>2. Rows("r") # {}
    BY <2>1 DEF JoinInv, JoinCovered
  <2>3. IF Rows("r") = {} THEN store = {} ELSE \E b \in Rows("r") : store = {b}
    BY <1>1, <2>1 DEF JoinInv, StoreHolds
  <2> QED
    BY <2>2, <2>3
<1>8. FlagHolds'
  <2>1. plan.marker = FALSE
    BY <1>1, <1>2 DEF PlanFacts
  <2>2. flag = {}
    BY <2>1 DEF JoinInv, FlagHolds
  <2> QED
    BY <1>1, <2>1, <2>2 DEF FlagHolds
<1>9. ResultHolds'
  <2>1. result' = result (+) SetToBag({<<p, b>>})
    BY <1>1, <1>7
  <2>2. result = SetToBag(Probed \X {b})
    BY <1>1, <1>7 DEF JoinInv, ResultHolds
  <2>3. (Probed \X {b}) \cap {<<p, b>>} = {}
    BY <1>6
  <2>4. result' = SetToBag((Probed \X {b}) \cup {<<p, b>>})
    BY <2>1, <2>2, <2>3, BagOfUnion
  <2>5. (Probed \X {b}) \cup {<<p, b>>} = (Probed \cup {p}) \X {b}
    OBVIOUS
  <2>6. result' = SetToBag(Probed' \X store')
    BY <1>1, <1>6, <1>7, <2>4, <2>5
  <2> QED
    BY <1>1, <2>6 DEF ResultHolds
<1> QED
  BY <1>2, <1>4, <1>5, <1>8, <1>9 DEF JoinInv

\* The rows probed and scanned stay what they were.
LEMMA NothingAdded ==
    ASSUME JoinInv, query' = query, plan' = plan, store' = store, flag' = flag, result' = result,
           Probed' = Probed, AllScanned' = AllScanned
    PROVE  FlagHolds' /\ ResultHolds'
<1>1. /\ \A q : Filtered(q)' = Filtered(q)
      /\ \A q : Emitted(q)' = Emitted(q)
  BY FilteredStays
<1>2. AllEmitted' = AllEmitted
  BY <1>1 DEF AllEmitted
<1>3. FlagHolds'
  BY <1>1 DEF JoinInv, FlagHolds
<1>4. ResultHolds'
  BY <1>2 DEF JoinInv, ResultHolds
<1> QED
  BY <1>3, <1>4

LEMMA EndProbeInv ==
    ASSUME JoinInv, EndProbe
    PROVE  JoinInv'
<1>1. /\ query' = query /\ plan' = plan /\ stage = "probe" /\ store' = store /\ flag' = flag /\ result' = result
      /\ rest = {}
      /\ \/ plan.marker /\ stage' = "scan" /\ rest' = store
         \/ ~plan.marker /\ stage' = "done" /\ rest' = {}
  BY DEF EndProbe
<1>2. /\ QueryOK(query)' /\ JoinCovered' /\ PlanHolds'
      /\ Rows(plan.build)' = Rows(plan.build) /\ Rows(Other(plan.build))' = Rows(Other(plan.build))
  BY <1>1, PlanStays
<1>3. RestHolds'
  BY <1>1, <1>2 DEF RestHolds
<1>4. StoreHolds'
  BY <1>1, <1>2 DEF JoinInv, StoreHolds
<1>5. Probed' = Probed
  BY <1>1, <1>2 DEF Probed
<1>6. ScannedRows = {} /\ ScannedRows' = {}
  BY <1>1 DEF ScannedRows
<1>7. AllScanned' = AllScanned
  BY <1>6 DEF AllScanned
<1>8. FlagHolds' /\ ResultHolds'
  BY <1>1, <1>5, <1>7, NothingAdded
<1> QED
  BY <1>2, <1>3, <1>4, <1>8 DEF JoinInv

LEMMA EndScanMarkedInv ==
    ASSUME JoinInv, EndScanMarked
    PROVE  JoinInv'
<1>1. /\ query' = query /\ plan' = plan /\ stage = "scan" /\ stage' = "done" /\ store' = store /\ flag' = flag
      /\ result' = result /\ rest = {} /\ rest' = {}
  BY DEF EndScanMarked
<1>2. /\ QueryOK(query)' /\ JoinCovered' /\ PlanHolds'
      /\ Rows(plan.build)' = Rows(plan.build) /\ Rows(Other(plan.build))' = Rows(Other(plan.build))
  BY <1>1, PlanStays
<1>3. RestHolds'
  BY <1>1 DEF RestHolds
<1>4. StoreHolds'
  BY <1>1, <1>2 DEF JoinInv, StoreHolds
<1>5. Probed' = Probed
  BY <1>1, <1>2 DEF Probed
<1>6. ScannedRows' = ScannedRows
  BY <1>1 DEF ScannedRows
<1>7. AllScanned' = AllScanned
  <2>1. \A b : Scanned(b)' = Scanned(b)
    BY <1>1, ScannedStays
  <2> QED
    BY <1>6, <2>1 DEF AllScanned
<1>8. FlagHolds' /\ ResultHolds'
  BY <1>1, <1>5, <1>7, NothingAdded
<1> QED
  BY <1>2, <1>3, <1>4, <1>8 DEF JoinInv

LEMMA ScanMarkedInv ==
    ASSUME JoinInv, NEW b \in rest, ScanMarked(b)
    PROVE  JoinInv'
<1>1. /\ query' = query /\ plan' = plan /\ stage = "scan" /\ stage' = "scan" /\ store' = store /\ flag' = flag
      /\ rest' = rest \ {b} /\ result' = result (+) SetToBag(Scanned(b))
  BY DEF ScanMarked
<1>2. /\ QueryOK(query)' /\ JoinCovered' /\ PlanHolds'
      /\ Rows(plan.build)' = Rows(plan.build) /\ Rows(Other(plan.build))' = Rows(Other(plan.build))
      /\ PlanFacts(plan) /\ QueryOK(query)
  BY <1>1, PlanStays DEF JoinInv
<1>3. plan.marker /\ rest \subseteq store /\ plan.build = "l" /\ plan.impl # "constant"
  <2>1. plan.marker /\ rest \subseteq store
    BY <1>1 DEF JoinInv, RestHolds
  <2> QED
    BY <1>2, <2>1 DEF PlanFacts, QueryOK, Sides
<1>4. RestHolds'
  BY <1>1, <1>3 DEF RestHolds
<1>5. StoreHolds'
  BY <1>1, <1>2 DEF JoinInv, StoreHolds
<1>6. /\ Probed' = Probed /\ Probed = Rows("r")
      /\ ScannedRows' = ScannedRows \cup {b} /\ b \notin ScannedRows
  BY <1>1, <1>2, <1>3 DEF Probed, ScannedRows, Other
<1>7. /\ \A q : Filtered(q)' = Filtered(q)
      /\ \A q : Emitted(q)' = Emitted(q)
  BY <1>1, FilteredStays
<1>8. FlagHolds'
  BY <1>1, <1>6, <1>7 DEF JoinInv, FlagHolds
<1>9. ResultHolds'
  <2>1. \A x : Scanned(x)' = Scanned(x)
    BY <1>1, ScannedStays
  <2>2. AllEmitted' = AllEmitted /\ AllScanned' = AllScanned \cup Scanned(b)
    BY <1>6, <1>7, <2>1 DEF AllEmitted, AllScanned
  <2>3. (AllEmitted \cup AllScanned) \cap Scanned(b) = {}
    <3>1. ASSUME NEW e \in Scanned(b), NEW x \in ScannedRows, e \in Scanned(x) PROVE FALSE
      <4>1. e[1] = b /\ e[1] = x
        BY <1>2, <1>3, <3>1, ScannedFor
      <4> QED
        BY <1>6, <4>1
    <3>2. ASSUME NEW e \in Scanned(b), NEW p \in Probed, e \in Emitted(p) PROVE FALSE
      <4>1. e[2] = NoRow
        BY <1>2, <1>3, <3>2, ScannedFor
      <4>2. e[2] = p
        BY <1>2, <1>3, <3>2, EmittedFor
      <4>3. NoRow \notin Rows("r")
        BY <1>2 DEF QueryOK, TableOK, Rows, Table, NoRow
      <4> QED
        BY <1>6, <4>1, <4>2, <4>3
    <3> QED
      BY <3>1, <3>2 DEF AllEmitted, AllScanned
  <2>4. result = SetToBag(AllEmitted \cup AllScanned)
    BY <1>3 DEF JoinInv, ResultHolds
  <2>5. result' = SetToBag((AllEmitted \cup AllScanned) \cup Scanned(b))
    BY <1>1, <2>3, <2>4, BagOfUnion
  <2>6. AllEmitted' \cup AllScanned' = (AllEmitted \cup AllScanned) \cup Scanned(b)
    BY <2>2
  <2> QED
    BY <1>1, <1>3, <2>5, <2>6 DEF ResultHolds
<1> QED
  BY <1>2, <1>4, <1>5, <1>8, <1>9 DEF JoinInv

LEMMA JoinNextInv ==
    ASSUME JoinInv, [JoinNext]_joinVars
    PROVE  JoinInv'
<1>1. CASE OptimizeImplementation
  BY <1>1, OptimizeInv
<1>2. ASSUME NEW b \in rest, Build(b) PROVE JoinInv'
  BY <1>2, BuildInv
<1>3. ASSUME NEW b \in rest, ScanMarked(b) PROVE JoinInv'
  BY <1>3, ScanMarkedInv
<1>4. ASSUME NEW p \in rest, Probe(p) PROVE JoinInv'
  BY <1>4, ProbeInv
<1>5. ASSUME NEW p \in rest, GatherConstant(p) PROVE JoinInv'
  BY <1>5, GatherConstantInv
<1>6. CASE EndBuild
  BY <1>6, EndBuildInv
<1>7. CASE EndProbe
  BY <1>7, EndProbeInv
<1>8. CASE EndScanMarked
  BY <1>8, EndScanMarkedInv
<1>9. CASE UNCHANGED joinVars
  <2>1. /\ query' = query /\ plan' = plan /\ stage' = stage /\ rest' = rest /\ store' = store
        /\ flag' = flag /\ result' = result
    BY <1>9 DEF joinVars
  <2>2. QueryOK(query)' /\ JoinCovered' /\ PlanHolds' /\ RestHolds' /\ StoreHolds'
    <3>1. QueryOK(query)' /\ JoinCovered' /\ Plans' = Plans
      BY <2>1, QueryStays DEF JoinInv
    <3>2. PlanHolds'
      BY <2>1, <3>1 DEF JoinInv, PlanHolds
    <3>3. Rows(plan.build)' = Rows(plan.build) /\ Rows(Other(plan.build))' = Rows(Other(plan.build))
      BY <2>1 DEF Rows, Table, Other
    <3>4. RestHolds'
      BY <2>1, <3>3 DEF JoinInv, RestHolds
    <3>5. StoreHolds'
      BY <2>1, <3>3 DEF JoinInv, StoreHolds
    <3> QED
      BY <3>1, <3>2, <3>4, <3>5
  <2>3. Probed' = Probed
    BY <2>1 DEF Probed, Rows, Table, Other
  <2>4. AllScanned' = AllScanned
    <3>1. ScannedRows' = ScannedRows /\ \A b : Scanned(b)' = Scanned(b)
      BY <2>1, ScannedStays DEF ScannedRows
    <3> QED
      BY <3>1 DEF AllScanned
  <2>5. FlagHolds' /\ ResultHolds'
    BY <2>1, <2>3, <2>4, NothingAdded
  <2> QED
    BY <2>2, <2>5 DEF JoinInv
<1> QED
  BY <1>1, <1>2, <1>3, <1>4, <1>5, <1>6, <1>7, <1>8, <1>9 DEF JoinNext

-----------------------------------------------------------------------------
(* The properties                                                          *)

\* What is joined with what, once every row has been probed
LEMMA DoneFacts ==
    ASSUME JoinInv, stage = "done", plan.impl # "constant"
    PROVE  /\ PlanFacts(plan) /\ QueryOK(query)
           /\ Probed = Rows(Other(plan.build)) /\ store = Rows(plan.build)
           /\ ScannedRows = IF plan.marker THEN store ELSE {}
           /\ \A p \in Probed : /\ UNION {Combined(q) : q \in Probed} = Matching
                                /\ Combined(p) = {IF plan.build = "l" THEN <<b, p>> ELSE <<p, b>> : b \in Filtered(p)}
                                /\ Combined(p) \subseteq Matching
                                /\ anyTuple(p) <=> p \notin IF plan.build = "l" THEN RightAlone ELSE LeftAlone
           /\ plan.marker => \A b \in store : b \in flag <=> b \notin LeftAlone
           /\ Probed = {} => Matching = {}
<1>1. /\ plan \in Plans /\ PlanFacts(plan) /\ QueryOK(query) /\ JoinCovered /\ rest = {}
      /\ plan.build \in {"l", "r"}
  BY PlansAre DEF JoinInv, PlanHolds, RestHolds, PlanFacts, Sides
<1>2. Probed = Rows(Other(plan.build)) /\ store = Rows(plan.build)
  BY <1>1 DEF Probed, JoinInv, StoreHolds
<1>3. ScannedRows = IF plan.marker THEN store ELSE {}
  BY <1>1 DEF ScannedRows
<1>4. \A p : \A b \in store : b \in Filtered(p) <=> IF plan.build = "l" THEN Match(b, p) ELSE Match(p, b)
  BY <1>1, <1>2, FilteredIsMatch
<1>5. \A p : Filtered(p) \subseteq store
  BY DEF Filtered, Lookup
<1>6. \A p : Combined(p) = {IF plan.build = "l" THEN <<b, p>> ELSE <<p, b>> : b \in Filtered(p)}
  BY DEF Combined, Pair
<1>7. UNION {Combined(q) : q \in Probed} = Matching
  <2>1. CASE plan.build = "l"
    <3>1. store = Rows("l") /\ Probed = Rows("r")
      BY <1>2, <2>1 DEF Other
    <3>2. \A p : Combined(p) = {<<b, p>> : b \in Filtered(p)}
      BY <1>6, <2>1
    <3>3. ASSUME NEW p \in Probed, NEW e \in Combined(p) PROVE e \in Matching
      BY <1>4, <1>5, <2>1, <3>1, <3>2 DEF Matching
    <3>4. ASSUME NEW e \in Matching PROVE \E p \in Probed : e \in Combined(p)
      <4>1. PICK b \in Rows("l"), p \in Rows("r") : e = <<b, p>> /\ Match(b, p)
        BY DEF Matching
      <4>2. b \in Filtered(p)
        BY <1>4, <2>1, <3>1, <4>1
      <4> QED
        BY <3>1, <3>2, <4>1, <4>2
    <3> QED
      BY <3>3, <3>4
  <2>2. CASE plan.build = "r"
    <3>1. store = Rows("r") /\ Probed = Rows("l")
      BY <1>2, <2>2 DEF Other
    <3>2. \A p : Combined(p) = {<<p, b>> : b \in Filtered(p)}
      BY <1>6, <2>2
    <3>3. ASSUME NEW p \in Probed, NEW e \in Combined(p) PROVE e \in Matching
      BY <1>4, <1>5, <2>2, <3>1, <3>2 DEF Matching
    <3>4. ASSUME NEW e \in Matching PROVE \E p \in Probed : e \in Combined(p)
      <4>1. PICK p \in Rows("l"), b \in Rows("r") : e = <<p, b>> /\ Match(p, b)
        BY DEF Matching
      <4>2. b \in Filtered(p)
        BY <1>4, <2>2, <3>1, <4>1
      <4> QED
        BY <3>1, <3>2, <4>1, <4>2
    <3> QED
      BY <3>3, <3>4
  <2> QED
    BY <1>1, <2>1, <2>2
<1>8. ASSUME NEW p \in Probed
      PROVE  anyTuple(p) <=> p \notin IF plan.build = "l" THEN RightAlone ELSE LeftAlone
  <2>1. anyTuple(p) <=> \E b \in store : IF plan.build = "l" THEN Match(b, p) ELSE Match(p, b)
    BY <1>4, <1>5 DEF anyTuple
  <2> QED
    BY <1>1, <1>2, <2>1 DEF RightAlone, LeftAlone, MatchesOf, Other
<1>9. ASSUME plan.marker, NEW b \in store PROVE b \in flag <=> b \notin LeftAlone
  <2>1. plan.build = "l"
    BY <1>1, <1>9 DEF PlanFacts, QueryOK, Sides
  <2>2. b \in flag <=> \E p \in Probed : Match(b, p)
    BY <1>4, <1>9, <2>1 DEF JoinInv, FlagHolds
  <2>3. Probed = Rows("r") /\ store = Rows("l")
    BY <1>2, <2>1 DEF Other
  <2> QED
    BY <1>9, <2>2, <2>3 DEF LeftAlone, MatchesOf
<1>10. Probed = {} => Matching = {}
  BY <1>7
<1> QED
  BY <1>1, <1>2, <1>3, <1>6, <1>7, <1>8, <1>9, <1>10

\* The rows of the joins that mark their build side
LEMMA MarkedDone ==
    ASSUME JoinInv, stage = "done", plan.impl # "constant", plan.build = "l", plan.marker
    PROVE  AllEmitted \cup AllScanned = Reference
<1>1. /\ PlanFacts(plan) /\ QueryOK(query)
      /\ Probed = Rows("r") /\ store = Rows("l") /\ ScannedRows = Rows("l")
      /\ \A b \in Rows("l") : b \in flag <=> b \notin LeftAlone
      /\ LeftAlone \subseteq Rows("l") /\ RightAlone \subseteq Rows("r")
      /\ \A p \in Rows("r") : anyTuple(p) <=> p \notin RightAlone
      /\ UNION {Combined(q) : q \in Rows("r")} = Matching
  <2>1. /\ PlanFacts(plan) /\ QueryOK(query)
        /\ Probed = Rows("r") /\ store = Rows("l") /\ ScannedRows = Rows("l")
        /\ \A b \in Rows("l") : b \in flag <=> b \notin LeftAlone
        /\ \A p \in Rows("r") : anyTuple(p) <=> p \notin RightAlone
    BY DoneFacts DEF Other
  <2>2. UNION {Combined(q) : q \in Rows("r")} = Matching
    <3>1. CASE Rows("r") = {}
      <4>1. Matching = {}
        BY <2>1, <3>1, DoneFacts
      <4> QED
        BY <3>1, <4>1
    <3>2. CASE Rows("r") # {}
      BY <2>1, <3>2, DoneFacts
    <3> QED
      BY <3>1, <3>2
  <2> QED
    BY <2>1, <2>2 DEF LeftAlone, RightAlone
<1>2. query.kind \in {"semi", "anti", "mark", "outer", "fullouter"}
  BY <1>1 DEF PlanFacts, QueryOK
<1>3. CASE query.kind = "semi"
  <2>1. AllEmitted = {}
    BY <1>3 DEF AllEmitted, Emitted
  <2>2. \A b : Scanned(b) = IF b \in flag THEN {<<b, NoRow>>} ELSE {}
    BY <1>3 DEF Scanned
  <2>3. AllScanned = (Rows("l") \ LeftAlone) \X {NoRow}
    BY <1>1, <2>2 DEF AllScanned
  <2>4. Reference = (Rows("l") \ LeftAlone) \X {NoRow}
    BY <1>3 DEF Reference
  <2> QED
    BY <2>1, <2>3, <2>4
<1>4. ASSUME query.kind \in {"anti", "outer", "fullouter"}
      PROVE AllScanned = LeftAlone \X {NoRow}
  <2>1. \A b : Scanned(b) = IF b \in flag THEN {} ELSE {<<b, NoRow>>}
    BY <1>4 DEF Scanned
  <2> QED
    BY <1>1, <2>1 DEF AllScanned
<1>5. CASE query.kind = "anti"
  <2>1. AllEmitted = {}
    BY <1>5 DEF AllEmitted, Emitted
  <2>2. Reference = LeftAlone \X {NoRow}
    BY <1>5 DEF Reference
  <2> QED
    BY <1>4, <1>5, <2>1, <2>2
<1>6. CASE query.kind = "mark"
  <2>1. AllEmitted = {}
    BY <1>6 DEF AllEmitted, Emitted
  <2>2. \A b : Scanned(b) = {<<b, IF b \in flag THEN 1 ELSE 0>>}
    BY <1>6 DEF Scanned
  <2>3. AllScanned = {<<b, IF b \in flag THEN 1 ELSE 0>> : b \in Rows("l")}
    BY <1>1, <2>2 DEF AllScanned
  <2>4. Reference = {<<b, IF b \in LeftAlone THEN 0 ELSE 1>> : b \in Rows("l")}
    BY <1>6 DEF Reference
  <2>5. \A b \in Rows("l") : <<b, IF b \in flag THEN 1 ELSE 0>> = <<b, IF b \in LeftAlone THEN 0 ELSE 1>>
    BY <1>1
  <2> QED
    BY <2>1, <2>3, <2>4, <2>5
<1>7. CASE query.kind = "outer"
  <2>1. AllEmitted = Matching
    <3>1. \A p : Emitted(p) = Combined(p)
      BY <1>7 DEF Emitted
    <3> QED
      BY <1>1, <3>1 DEF AllEmitted
  <2>2. Reference = Matching \cup (LeftAlone \X {NoRow})
    BY <1>7 DEF Reference
  <2> QED
    BY <1>4, <1>7, <2>1, <2>2
<1>8. CASE query.kind = "fullouter"
  <2>1. \A p : Emitted(p) = Combined(p) \cup (IF anyTuple(p) THEN {} ELSE {<<NoRow, p>>})
    BY <1>8 DEF Emitted
  <2>2. AllEmitted = Matching \cup ({NoRow} \X RightAlone)
    <3>1. \A p \in Rows("r") : Emitted(p) = Combined(p) \cup (IF p \in RightAlone THEN {<<NoRow, p>>} ELSE {})
      BY <1>1, <2>1
    <3>3. \A p \in Rows("r") : \A e : e \in Emitted(p) <=> e \in Combined(p) \/ (p \in RightAlone /\ e = <<NoRow, p>>)
      BY <3>1
    <3>4. \A e : e \in AllEmitted <=> \E p \in Rows("r") : e \in Emitted(p)
      BY <1>1 DEF AllEmitted
    <3>5. \A e : e \in Matching <=> \E p \in Rows("r") : e \in Combined(p)
      BY <1>1
    <3>6. \A e : e \in ({NoRow} \X RightAlone) <=> \E p \in Rows("r") : p \in RightAlone /\ e = <<NoRow, p>>
      BY <1>1
    <3>7. \A e : e \in AllEmitted <=> e \in Matching \/ e \in ({NoRow} \X RightAlone)
      BY <3>3, <3>4, <3>5, <3>6
    <3> QED
      BY <3>7
  <2>3. Reference = Matching \cup (LeftAlone \X {NoRow}) \cup ({NoRow} \X RightAlone)
    BY <1>8 DEF Reference
  <2>4. AllScanned = LeftAlone \X {NoRow}
    BY <1>4, <1>8
  <2> QED
    BY <2>2, <2>3, <2>4
<1> QED
  BY <1>2, <1>3, <1>5, <1>6, <1>7, <1>8

\* and of the others
LEMMA UnmarkedDone ==
    ASSUME JoinInv, stage = "done", plan.impl # "constant", ~plan.marker
    PROVE  AllEmitted \cup AllScanned = Reference
<1>1. /\ PlanFacts(plan) /\ QueryOK(query) /\ AllScanned = {}
  BY DoneFacts DEF AllScanned
<1>2. UNION {Combined(q) : q \in Probed} = Matching
  <2>1. CASE Probed = {}
    <3>1. Matching = {}
      BY <2>1, DoneFacts
    <3> QED
      BY <2>1, <3>1
  <2>2. CASE Probed # {}
    BY <2>2, DoneFacts
  <2> QED
    BY <2>1, <2>2
<1>3. /\ query.kind \in {"inner", "semi", "anti", "mark", "outer", "single"}
      /\ query.kind # "inner" => plan.build = "r"
  BY <1>1 DEF PlanFacts, QueryOK, Sides
<1>4. CASE query.kind = "inner"
  <2>1. \A p : Emitted(p) = Combined(p)
    BY <1>4 DEF Emitted
  <2>2. AllEmitted = Matching
    BY <1>2, <2>1 DEF AllEmitted
  <2>3. Reference = Matching
    BY <1>4 DEF Reference
  <2> QED
    BY <1>1, <2>2, <2>3
<1>5. CASE query.kind # "inner"
  <2>1. /\ Probed = Rows("l") /\ LeftAlone \subseteq Rows("l")
        /\ \A p \in Rows("l") : anyTuple(p) <=> p \notin LeftAlone
        /\ \A p \in Rows("l") : p \in LeftAlone => Combined(p) = {}
    <3>1. plan.build = "r"
      BY <1>3, <1>5
    <3>2. /\ Probed = Rows("l")
          /\ \A p \in Probed : /\ anyTuple(p) <=> p \notin LeftAlone
                               /\ Combined(p) = {<<p, b>> : b \in Filtered(p)}
      BY <3>1, DoneFacts DEF Other
    <3>3. \A p : ~anyTuple(p) => Filtered(p) = {}
      BY DEF anyTuple
    <3> QED
      BY <3>2, <3>3 DEF LeftAlone
  <2>2. CASE query.kind = "semi"
    <3>1. \A p : Emitted(p) = IF anyTuple(p) THEN {<<p, NoRow>>} ELSE {}
      BY <2>2 DEF Emitted
    <3>2. AllEmitted = (Rows("l") \ LeftAlone) \X {NoRow}
      BY <2>1, <3>1 DEF AllEmitted
    <3>3. Reference = (Rows("l") \ LeftAlone) \X {NoRow}
      BY <2>2 DEF Reference
    <3> QED
      BY <1>1, <3>2, <3>3
  <2>3. CASE query.kind = "anti"
    <3>1. \A p : Emitted(p) = IF anyTuple(p) THEN {} ELSE {<<p, NoRow>>}
      BY <2>3 DEF Emitted
    <3>2. AllEmitted = LeftAlone \X {NoRow}
      BY <2>1, <3>1 DEF AllEmitted
    <3>3. Reference = LeftAlone \X {NoRow}
      BY <2>3 DEF Reference
    <3> QED
      BY <1>1, <3>2, <3>3
  <2>4. CASE query.kind = "mark"
    <3>1. \A p : Emitted(p) = {<<p, IF anyTuple(p) THEN 1 ELSE 0>>}
      BY <2>4 DEF Emitted
    <3>2. AllEmitted = {<<p, IF anyTuple(p) THEN 1 ELSE 0>> : p \in Rows("l")}
      BY <2>1, <3>1 DEF AllEmitted
    <3>3. Reference = {<<p, IF p \in LeftAlone THEN 0 ELSE 1>> : p \in Rows("l")}
      BY <2>4 DEF Reference
    <3>4. \A p \in Rows("l") : <<p, IF anyTuple(p) THEN 1 ELSE 0>> = <<p, IF p \in LeftAlone THEN 0 ELSE 1>>
      BY <2>1
    <3> QED
      BY <1>1, <3>2, <3>3, <3>4
  <2>5. CASE query.kind \in {"outer", "single"}
    <3>1. \A p : Emitted(p) = IF anyTuple(p) THEN Combined(p) ELSE {<<p, NoRow>>}
      BY <2>5 DEF Emitted
    <3>2. \A p \in Rows("l") : Emitted(p) = Combined(p) \cup (IF p \in LeftAlone THEN {<<p, NoRow>>} ELSE {})
      BY <2>1, <3>1
    <3>3. \A p \in Rows("l") : \A e : e \in Emitted(p) <=> e \in Combined(p) \/ (p \in LeftAlone /\ e = <<p, NoRow>>)
      BY <3>2
    <3>4. \A e : e \in AllEmitted <=> \E p \in Rows("l") : e \in Emitted(p)
      BY <2>1 DEF AllEmitted
    <3>5. \A e : e \in Matching <=> \E p \in Rows("l") : e \in Combined(p)
      BY <1>2, <2>1
    <3>6. \A e : e \in (LeftAlone \X {NoRow}) <=> \E p \in Rows("l") : p \in LeftAlone /\ e = <<p, NoRow>>
      BY <2>1
    <3>7. \A e : e \in AllEmitted <=> e \in Matching \/ e \in (LeftAlone \X {NoRow})
      BY <3>3, <3>4, <3>5, <3>6
    <3>8. AllEmitted = Matching \cup (LeftAlone \X {NoRow})
      BY <3>7
    <3>9. Reference = Matching \cup (LeftAlone \X {NoRow})
      BY <2>5 DEF Reference
    <3> QED
      BY <1>1, <3>8, <3>9
  <2> QED
    BY <1>3, <1>5, <2>2, <2>3, <2>4, <2>5
<1> QED
  BY <1>4, <1>5

LEMMA ConstantDone ==
    ASSUME JoinInv, stage = "done", plan.impl = "constant"
    PROVE  ResultIsJoin
<1>1. /\ PlanFacts(plan) /\ rest = {}
  BY PlansAre DEF JoinInv, PlanHolds, RestHolds
<1>2. query.kind = "single" /\ query.pred = <<>> /\ plan.build = "r"
  BY <1>1 DEF PlanFacts
<1>3. Probed = Rows("l")
  BY <1>1, <1>2 DEF Probed, Other
<1>4. PICK b \in Rows("r") : store = {b}
  <2>1. Rows("r") # {}
    BY <1>2 DEF JoinInv, JoinCovered
  <2>2. IF Rows("r") = {} THEN store = {} ELSE \E b \in Rows("r") : store = {b}
    BY <1>2 DEF JoinInv, StoreHolds
  <2> QED
    BY <2>1, <2>2
<1>5. result = SetToBag(Rows("l") \X {b})
  BY <1>3, <1>4 DEF JoinInv, ResultHolds
<1>6. \A l, r : Match(l, r)
  <2>1. DOMAIN query.pred = {}
    BY <1>2
  <2> QED
    BY <2>1 DEF Match
<1>7. ASSUME \A l \in Rows("l") : \E r \in {NoRow} \cup Rows("r") : MatchesOf(l) \subseteq {r}
      PROVE  Reference = Rows("l") \X {b}
  <2>1. \A l : MatchesOf(l) = Rows("r")
    BY <1>6 DEF MatchesOf
  <2>2. Rows("l") # {} => Rows("r") = {b}
    BY <1>7, <2>1
  <2>3. LeftAlone = {}
    BY <2>1 DEF LeftAlone
  <2>4. Matching = Rows("l") \X Rows("r")
    BY <1>6 DEF Matching
  <2>5. Reference = Matching \cup (LeftAlone \X {NoRow})
    BY <1>2 DEF Reference
  <2>6. LeftAlone \X {NoRow} = {}
    BY <2>3
  <2>7. Rows("l") \X Rows("r") = Rows("l") \X {b}
    BY <2>2
  <2> QED
    BY <2>4, <2>5, <2>6, <2>7
<1> QED
  BY <1>2, <1>5, <1>7 DEF ResultIsJoin

LEMMA InvIsJoin ==
    ASSUME JoinInv
    PROVE  ResultIsJoin
<1>1. CASE stage # "done"
  BY <1>1 DEF ResultIsJoin
<1>2. CASE stage = "done" /\ plan.impl = "constant"
  BY <1>2, ConstantDone
<1>3. CASE stage = "done" /\ plan.impl # "constant"
  <2>1. plan.marker => plan.build = "l"
    BY <1>3, DoneFacts DEF PlanFacts, QueryOK, Sides
  <2>2. AllEmitted \cup AllScanned = Reference
    BY <1>3, <2>1, MarkedDone, UnmarkedDone
  <2>3. result = SetToBag(AllEmitted \cup AllScanned)
    BY <1>3 DEF JoinInv, ResultHolds
  <2> QED
    BY <2>2, <2>3 DEF ResultIsJoin
<1> QED
  BY <1>1, <1>2, <1>3

LEMMA InvIsMarked ==
    ASSUME JoinInv
    PROVE  MarkersAreMatches
<1> SUFFICES ASSUME plan.marker, stage \in {"probe", "scan"}
             PROVE  LET probed == Rows("r") \ (IF stage = "probe" THEN rest ELSE {})
                    IN  flag = {l \in store : \E r \in probed : Match(l, r)}
  BY DEF MarkersAreMatches
<1>1. plan \in Plans /\ PlanFacts(plan) /\ QueryOK(query) /\ JoinCovered
  BY PlansAre DEF JoinInv, PlanHolds
<1>2. plan.build = "l" /\ plan.impl # "constant"
  BY <1>1 DEF PlanFacts, QueryOK, Sides
<1>3. Probed = Rows("r") \ (IF stage = "probe" THEN rest ELSE {})
  BY <1>2 DEF Probed, Other
<1>4. store = Rows("l")
  BY <1>2 DEF JoinInv, StoreHolds
<1>5. \A b \in store : \A p : b \in Filtered(p) <=> Match(b, p)
  BY <1>1, <1>2, <1>4, FilteredIsMatch
<1>6. flag = {b \in store : \E p \in Probed : b \in Filtered(p)}
  BY DEF JoinInv, FlagHolds
<1>7. flag = {b \in store : \E p \in Probed : Match(b, p)}
  BY <1>5, <1>6
<1> QED
  BY <1>3, <1>7

\* The pipelines of a join whose keys are apart keep the invariant: what has
\* been built, marked and emitted is what the rows read so far give
\* (RelAlgToSubOp's build, probe and scan pipelines).
THEOREM JoinInvHolds == JoinSpec /\ JoinCovered => []JoinInv
<1>1. JoinInit /\ JoinCovered => JoinInv
  BY JoinInitInv
<1>2. JoinInv /\ [JoinNext]_joinVars => JoinInv'
  BY JoinNextInv
<1> QED
  BY <1>1, <1>2, PTL DEF JoinSpec

\* Whichever implementation OptimizeImplementations picks and in whatever
\* order rows are read, a join whose keys are apart returns what its predicate
\* says, each row once (translateHJ, translateINLJ, translateNL and the
\* translations of the join operators).
THEOREM JoinRight == JoinSpec /\ JoinCovered => []ResultIsJoin
<1>1. JoinInv => ResultIsJoin
  BY InvIsJoin
<1> QED
  BY <1>1, JoinInvHolds, PTL

\* The markers of the materialized side are set exactly for the rows that a
\* row probed so far joins with: not for rows that only share its hash or its
\* keys (the scatter of the marker in the probe pipelines).
THEOREM MarkersRight == JoinSpec /\ JoinCovered => []MarkersAreMatches
<1>1. JoinInv => MarkersAreMatches
  BY InvIsMarked
<1> QED
  BY <1>1, JoinInvHolds, PTL

-----------------------------------------------------------------------------
(* UNION, INTERSECT and EXCEPT                                             *)

\* The repeat number of a map entry is a natural number (the code casts it to
\* an index).
LEMMA RepeatNumNat ==
    ASSUME TypeOK, NEW r \in Row
    PROVE  RepeatNum(r) \in Nat
<1>1. counter1[r] \in Nat /\ counter2[r] \in Nat
    BY DEF TypeOK
<1>2. QED
    BY <1>1 DEF RepeatNum

\* The initial states satisfy the invariant.
LEMMA InitSetInv == Init => SetInv
<1> SUFFICES ASSUME Init PROVE SetInv
    OBVIOUS
<1> USE MaxCopiesAssumption
<1>1. /\ left \in [Row -> Nat] /\ right \in [Row -> Nat]
      /\ Zero \in [Row -> Nat]
    BY DEF Init, Zero
<1>2. TypeOK
    BY <1>1 DEF Init, TypeOK
<1>3. EntriesRead
    BY <1>1 DEF Init, EntriesRead
<1>4. CountersRead
    <2>1. SUFFICES ASSUME NEW r \in Row
                   PROVE  /\ counter1[r] + restL[r] = left[r]
                          /\ counter2[r] + restR[r] = right[r]
        BY DEF CountersRead
    <2>2. /\ counter1[r] = 0 /\ counter2[r] = 0
          /\ restL[r] = left[r] /\ restR[r] = right[r]
        BY DEF Init, Zero
    <2>3. left[r] \in Nat /\ right[r] \in Nat
        BY <1>1
    <2>4. QED
        BY <2>2, <2>3
<1>5. RestOfPhase
    BY <1>1 DEF Init, RestOfPhase
<1>6. OutOfPhase
    BY <1>1 DEF Init, OutOfPhase, Zero
<1>7. QED
    BY <1>2, <1>3, <1>4, <1>5, <1>6 DEF SetInv, Init

\* Reading a row of either side keeps the invariant.
LEMMA ReadLeftSetInv ==
    ASSUME SetInv, NEW r \in Row, ReadLeft(r)
    PROVE  SetInv'
<1> USE DEF SetInv, ReadLeft, LookupOrInsert
<1>1. TypeOK'
    BY DEF TypeOK
<1>2. EntriesRead'
    BY DEF EntriesRead, TypeOK, RestOfPhase
<1>3. CountersRead'
    BY DEF CountersRead, TypeOK
<1>4. RestOfPhase'
    BY DEF RestOfPhase, TypeOK
<1>5. OutOfPhase'
    BY DEF OutOfPhase, TypeOK
<1>6. QED
    BY <1>1, <1>2, <1>3, <1>4, <1>5

LEMMA ReadRightSetInv ==
    ASSUME SetInv, NEW r \in Row, ReadRight(r)
    PROVE  SetInv'
<1> USE DEF SetInv, ReadRight, LookupOrInsert
<1>1. TypeOK'
    BY DEF TypeOK
<1>2. EntriesRead'
    BY DEF EntriesRead, TypeOK, RestOfPhase
<1>3. CountersRead'
    BY DEF CountersRead, TypeOK
<1>4. RestOfPhase'
    BY DEF RestOfPhase, TypeOK
<1>5. OutOfPhase'
    BY DEF OutOfPhase, TypeOK
<1>6. QED
    BY <1>1, <1>2, <1>3, <1>4, <1>5

\* Scanning an entry keeps the invariant: it was not scanned before.
LEMMA ScanSetInv ==
    ASSUME SetInv, NEW r \in Row, Scan(r)
    PROVE  SetInv'
<1> USE DEF SetInv, Scan
<1>1. RepeatNum(r) \in Nat
    BY RepeatNumNat
<1>2. \A s \in Row : RepeatNum(s)' = RepeatNum(s)
    BY DEF RepeatNum
<1>3. TypeOK'
    BY <1>1 DEF TypeOK
<1>4. EntriesRead' /\ CountersRead' /\ RestOfPhase'
    BY DEF EntriesRead, CountersRead, RestOfPhase
<1>5. OutOfPhase'
    <2>1. op # "unionAll"
        BY DEF OutOfPhase, TypeOK
    <2>2. out[r] = 0 /\ out \in [Row -> Nat] /\ r \in entries
        BY <2>1 DEF OutOfPhase, TypeOK
    <2>3. \A s \in Row : out'[s] = IF s \in entries \ toScan' THEN RepeatNum(s) ELSE 0
        BY <1>1, <2>1, <2>2 DEF OutOfPhase
    <2>4. QED
        BY <1>2, <2>1, <2>3 DEF OutOfPhase
<1>6. QED
    BY <1>3, <1>4, <1>5

\* Every step keeps the invariant.
LEMMA NextSetInv == SetInv /\ [Next]_vars => SetInv'
<1> SUFFICES ASSUME SetInv, [Next]_vars PROVE SetInv'
    OBVIOUS
<1>1. CASE \E r \in Row : ReadLeft(r) \/ ReadRight(r) \/ Scan(r)
    BY <1>1, ReadLeftSetInv, ReadRightSetInv, ScanSetInv
<1>2. CASE EndLeft
    BY <1>2 DEF EndLeft, SetInv, TypeOK, EntriesRead, CountersRead, RestOfPhase, OutOfPhase
<1>3. CASE EndRight
    <2>1. \A s \in Row : RepeatNum(s)' = RepeatNum(s)
        BY <1>3 DEF EndRight, RepeatNum
    <2>2. QED
        BY <1>3, <2>1 DEF EndRight, SetInv, TypeOK, EntriesRead, CountersRead, RestOfPhase, OutOfPhase
<1>4. CASE EndScan
    <2>1. \A s \in Row : RepeatNum(s)' = RepeatNum(s)
        BY <1>4 DEF EndScan, RepeatNum
    <2>2. QED
        BY <1>4, <2>1 DEF EndScan, SetInv, TypeOK, EntriesRead, CountersRead, RestOfPhase, OutOfPhase
<1>5. CASE UNCHANGED vars
    <2>1. \A s \in Row : RepeatNum(s)' = RepeatNum(s)
        BY <1>5 DEF vars, RepeatNum
    <2>2. QED
        BY <1>5, <2>1 DEF vars, SetInv, TypeOK, EntriesRead, CountersRead, RestOfPhase, OutOfPhase
<1>6. QED
    BY <1>1, <1>2, <1>3, <1>4, <1>5 DEF Next

\* At the end the counters are the multiplicities of the inputs, so that the
\* scan has emitted what SQL asks for.
LEMMA SetInvResult == SetInv => ResultIsSetOperation
<1> SUFFICES ASSUME SetInv, phase = "done", NEW r \in Row PROVE out[r] = Multiplicity(r)
    BY DEF ResultIsSetOperation
<1>1. /\ left[r] \in Nat /\ right[r] \in Nat /\ out[r] \in Nat
      /\ counter1[r] \in Nat /\ counter2[r] \in Nat
      /\ restL[r] = 0 /\ restR[r] = 0
      /\ toScan = {} /\ op \in Operations
    BY DEF SetInv, TypeOK, RestOfPhase
<1>2. CASE op = "unionAll"
    BY <1>1, <1>2 DEF SetInv, OutOfPhase, Multiplicity
<1>3. CASE op \in {"union", "distinct"}
    <2>1. r \in entries <=> left[r] + right[r] > 0
        BY <1>1, <1>3 DEF SetInv, EntriesRead
    <2>2. out[r] = IF r \in entries THEN 1 ELSE 0
        BY <1>1, <1>3 DEF SetInv, OutOfPhase, RepeatNum
    <2>3. QED
        BY <1>3, <2>1, <2>2 DEF Multiplicity
<1>4. CASE op \in Counting
    <2>1. counter1[r] = left[r] /\ counter2[r] = right[r]
        BY <1>1, <1>4 DEF SetInv, CountersRead
    <2>2. r \in entries <=> left[r] + right[r] > 0
        BY <1>1, <1>4 DEF SetInv, EntriesRead, Counting
    <2>3. out[r] = IF r \in entries THEN RepeatNum(r) ELSE 0
        BY <1>1, <1>4 DEF SetInv, OutOfPhase, Counting
    <2>4. RepeatNum(r) = Multiplicity(r)
        BY <1>1, <1>4, <2>1 DEF RepeatNum, Multiplicity, Counting
    <2>5. r \notin entries => Multiplicity(r) = 0
        BY <1>1, <1>4, <2>2 DEF Multiplicity, Counting
    <2>6. QED
        BY <2>3, <2>4, <2>5
<1>5. QED
    BY <1>1, <1>2, <1>3, <1>4 DEF Operations

\* The invariant holds in every reachable state.
THEOREM SetInvHolds == Spec => []SetInv
<1>1. QED
    BY InitSetInv, NextSetInv, PTL DEF Spec

\* UNION, EXCEPT, INTERSECT, their ALL forms and DISTINCT return every row as
\* often as SQL says, for all inputs.
THEOREM SetOperationRight == Spec => []ResultIsSetOperation
<1>1. QED
    BY SetInvHolds, SetInvResult, PTL
=============================================================================
