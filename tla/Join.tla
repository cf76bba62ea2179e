-------------------------------- MODULE Join --------------------------------
(***************************************************************************)
(* A join from its logical operator to its result: OptimizeImplementations *)
(* picks an implementation and takes hash keys out of the predicate, and   *)
(* RelAlgToSubOp turns the operator into a build pipeline, a probe         *)
(* pipeline and, where matches are marked, a scan of the build side.       *)
(*                                                                         *)
(* A predicate is a sequence of conjuncts (what AndOp::canonicalize leaves *)
(* of nested ANDs).  An operand of a comparison is one SSA value:          *)
(*   sides   the sides whose columns it needs ("l", "r"; none: constant),  *)
(*   plain   whether it is read from a column (GetColumnOp),               *)
(*   of, col, val   what it evaluates to: column col of side of, plus val, *)
(*           or the constant val.                                          *)
(* CSE and the canonicalizer ran before, so that equal operands of one     *)
(* predicate are one value: a column is read, unless something is added.   *)
(* A NULL is 0, other values are positive.                                 *)
(***************************************************************************)
EXTENDS Integers, Sequences, FiniteSets, SequencesExt, Bags

CONSTANTS Queries,    \* joins: [kind, pred, left, right, pk], see QueryOK
          HashSize    \* number of hash values, at least 1

VARIABLES query,      \* the join
          plan,       \* what OptimizeImplementations decided
          stage,      \* plan, build, probe, scan, done
          rest,       \* rows the current pipeline has not processed
          store,      \* rows of the materialized side
          flag,       \* the marked rows of the materialized side
          result      \* the result, a bag of pairs of row numbers

joinVars == <<query, plan, stage, rest, store, flag, result>>

Other(side) == IF side = "l" THEN "r" ELSE "l"
Table(side) == IF side = "l" THEN query.left ELSE query.right
Rows(side) == DOMAIN Table(side)

Null == 0
NoRow == 0            \* all columns of the other side are NULL
Garbage == -1         \* columns read from uninitialized memory

-----------------------------------------------------------------------------
(* Evaluation                                                              *)

Value(o, l, r) ==
    LET row == IF o.of = "l" THEN l ELSE r
    IN  IF o.of = "const" THEN o.val
        ELSE IF row[o.col] = Null THEN Null ELSE row[o.col] + o.val

\* A comparison, after DeriveTruth: only isa accepts NULLs.
Compare(cmp, v, w) ==
    CASE cmp = "isa" -> v = w
      [] cmp = "eq"  -> v # Null /\ w # Null /\ v = w
      [] cmp = "lt"  -> v # Null /\ w # Null /\ v < w

Truth(c, l, r) ==
    IF c.op = "or" THEN \E d \in c.alts : Compare(d.op, Value(d.l, l, r), Value(d.r, l, r))
    ELSE Compare(c.op, Value(c.l, l, r), Value(c.r, l, r))

\* db.hash of packed keys: NULLs leave the hash as it is, and the order of
\* the keys matters.
Hash(vs) == FoldLeft(LAMBDA h, v : IF v = Null THEN h ELSE (v + 2 * h) % HashSize, 0, vs)

-----------------------------------------------------------------------------
(* OptimizeImplementations                                                 *)

IsEqualityPred(c) == c.op \in {"eq", "isa"}

\* The operand of a comparison that becomes a key for side ks.  A column that
\* this walk created is not in required, and counts as needing nothing.
KeyVal(c, ks, fresh) ==
    LET required(o) == IF o \in fresh THEN {} ELSE o.sides
        fits(k, o) == required(k) \subseteq {ks} /\ required(o) \subseteq {Other(ks)}
    IN  IF ~IsEqualityPred(c) THEN <<>>
        ELSE IF fits(c.l, c.r) THEN <<c.l>>
        ELSE IF fits(c.r, c.l) THEN <<c.r>>
        ELSE <<>>

hashImplPossible(pred) == \E i \in DOMAIN pred : KeyVal(pred[i], "l", {}) # <<>>

\* replaceAllUsesWith: every comparison of the predicate.
ReplaceUses(pred, old, new) ==
    LET use(o) == IF o = old THEN new ELSE o
    IN  [i \in DOMAIN pred |->
            IF pred[i].op = "or" THEN pred[i] ELSE [pred[i] EXCEPT !.l = use(@), !.r = use(@)]]

\* One comparison of the walk of extractKeys.  A key that is no column is
\* computed by a map below the join, and all its uses become that column; the
\* comparison itself becomes true.
ExtractKey(ks, a, i) ==
    LET k == KeyVal(a.pred[i], ks, a.fresh)
        key == [k[1] EXCEPT !.sides = IF k[1].plain THEN @ ELSE {ks}, !.plain = TRUE]
    IN  IF k = <<>> THEN a
        ELSE [pred |-> ReplaceUses(a.pred, k[1], key),
              true |-> a.true \cup {i},
              fresh |-> IF k[1].plain THEN a.fresh ELSE a.fresh \cup {key},
              keys |-> Append(a.keys, key),
              nullsEqual |-> Append(a.nullsEqual, a.pred[i].op = "isa")]

\* The walk over the predicate.
extractKeys(p, ks) ==
    LET walk[i \in 0 .. Len(p.pred)] ==
            IF i = 0
            THEN [pred |-> p.pred, true |-> p.true, fresh |-> {}, keys |-> <<>>, nullsEqual |-> <<>>]
            ELSE ExtractKey(ks, walk[i - 1], i)
    IN  walk[Len(p.pred)]

prepareForHash(p) ==
    LET ofLeft == extractKeys(p, "l")
        ofRight == extractKeys([p EXCEPT !.pred = ofLeft.pred, !.true = ofLeft.true], "r")
    IN  [p EXCEPT !.pred = ofRight.pred, !.true = ofRight.true,
                  !.hash = [l |-> ofLeft.keys, r |-> ofRight.keys],
                  !.nullsEqual = ofLeft.nullsEqual]

\* All comparisons of the predicate, also those below an OR.
Comparisons(pred) == UNION {IF c.op = "or" THEN c.alts ELSE {c} : c \in ToSet(pred)}

\* The side is a base relation with a primary key, and the columns of it that
\* the comparisons read are exactly its primary key.
containsExactlyPrimaryKey(side) ==
    /\ query.pk[side] # <<>>
    /\ {o.col : o \in {o \in UNION {{c.l, c.r} : c \in Comparisons(query.pred)} :
                            o.plain /\ o.of = side}}
         = ToSet(query.pk[side])

NoPlan == [impl |-> "nl", build |-> "r", marker |-> FALSE, pred |-> query.pred, true |-> {},
           hash |-> [l |-> <<>>, r |-> <<>>], nullsEqual |-> <<>>]

\* Inner and full outer joins build on the left.  prepareForHash runs twice
\* for a hash join, once for an index nested loop join; whether an index is
\* used, and the index of which side, depends on estimated cardinalities.
PlansOfInner ==
    LET base == [NoPlan EXCEPT !.build = "l", !.marker = query.kind = "fullouter"]
        prepared == prepareForHash(base)
    IN  IF ~hashImplPossible(query.pred) THEN {base}
        ELSE {[prepareForHash(prepared) EXCEPT !.impl = "hash"]}
             \cup {[prepared EXCEPT !.impl = "index", !.build = s] :
                      s \in {s \in {"l", "r"} : query.kind = "inner" /\ containsExactlyPrimaryKey(s)}}

\* The others build on the right, or on the left if the left is estimated to
\* be smaller (reverseSides; not for single joins).
PlansOfOthers ==
    LET hashed == IF hashImplPossible(query.pred)
                  THEN [prepareForHash(NoPlan) EXCEPT !.impl = "hash"] ELSE NoPlan
    IN  IF query.kind = "single" /\ query.pred = <<>>
        THEN {[NoPlan EXCEPT !.impl = "constant"]}
        ELSE {hashed} \cup {[hashed EXCEPT !.build = "l", !.marker = TRUE] : x \in {query.kind} \ {"single"}}

Plans == IF query.kind \in {"inner", "fullouter"} THEN PlansOfInner ELSE PlansOfOthers

-----------------------------------------------------------------------------
(* What the translated pipelines do with a row                             *)

Left(b, p) == Table("l")[IF plan.build = "l" THEN b ELSE p]
Right(b, p) == Table("r")[IF plan.build = "l" THEN p ELSE b]

KeysOf(side, l, r) == [i \in DOMAIN plan.hash[side] |-> Value(plan.hash[side][i], l, r)]

\* createEqFn and createVerifyEqFnForTuple compare as many keys as both
\* sides have.
EqFn(l, r) ==
    \A i \in DOMAIN plan.hash.l \cap DOMAIN plan.hash.r :
        Compare(IF plan.nullsEqual[i] THEN "isa" ELSE "eq", KeysOf("l", l, r)[i], KeysOf("r", l, r)[i])

\* The hash under which a row of the materialized side is found: of its keys
\* in a hash join, of the primary key in its declared order in the index.
BuildHash(b, p) ==
    IF plan.impl = "index"
    THEN LET pk == query.pk[plan.build]
         IN  Hash([i \in DOMAIN pk |-> Table(plan.build)[b][pk[i]]])
    ELSE Hash(KeysOf(plan.build, Left(b, p), Right(b, p)))

\* Lookup: the materialized rows a row p of the other side is combined with.
Lookup(p) ==
    IF plan.impl = "nl" THEN store
    ELSE {b \in store : /\ BuildHash(b, p) = Hash(KeysOf(Other(plan.build), Left(b, p), Right(b, p)))
                        /\ EqFn(Left(b, p), Right(b, p))}

\* translateSelection: one filter per conjunct that is left.
translateSelection(b, p) ==
    \A i \in DOMAIN plan.pred \ plan.true : Truth(plan.pred[i], Left(b, p), Right(b, p))

\* Mutant: the marker is scattered before the remaining conjuncts are tested.
MutFiltered(p) == Lookup(p)

Filtered(p) == {b \in Lookup(p) : translateSelection(b, p)}

\* Mutant: the marker of a row is set for every entry of its lookup list.
MutAnyTuple(p) == Lookup(p) # {}

anyTuple(p) == Filtered(p) # {}

Pair(b, p) == IF plan.build = "l" THEN <<b, p>> ELSE <<p, b>>
Combined(p) == {Pair(b, p) : b \in Filtered(p)}

\* The body of the nested map, per kind of join; a mark is 1 or 0.
Emitted(p) ==
    CASE query.kind = "inner" -> Combined(p)
      [] query.kind = "fullouter" -> Combined(p) \cup (IF anyTuple(p) THEN {} ELSE {<<NoRow, p>>})
      [] query.kind = "outer" /\ plan.marker -> Combined(p)
      [] query.kind \in {"semi", "anti", "mark"} /\ plan.marker -> {}
      [] query.kind = "semi" /\ ~plan.marker -> IF anyTuple(p) THEN {<<p, NoRow>>} ELSE {}
      [] query.kind = "anti" /\ ~plan.marker -> IF anyTuple(p) THEN {} ELSE {<<p, NoRow>>}
      [] query.kind = "mark" /\ ~plan.marker -> {<<p, IF anyTuple(p) THEN 1 ELSE 0>>}
      [] query.kind \in {"outer", "single"} /\ ~plan.marker ->
            IF anyTuple(p) THEN Combined(p) ELSE {<<p, NoRow>>}

\* The scan of the marked side.
Scanned(b) ==
    CASE query.kind = "semi" -> IF b \in flag THEN {<<b, NoRow>>} ELSE {}
      [] query.kind \in {"anti", "outer", "fullouter"} -> IF b \in flag THEN {} ELSE {<<b, NoRow>>}
      [] query.kind = "mark" -> {<<b, IF b \in flag THEN 1 ELSE 0>>}

-----------------------------------------------------------------------------
(* The joins the optimizer is given                                        *)

Sides == {"l", "r"}
Operand == [sides : {{}, {"l"}, {"r"}}, plain : BOOLEAN, of : Sides \cup {"const"}, col : STRING, val : Int]
Comparison == [op : {"eq", "isa", "lt"}, l : Operand, r : Operand]
Conjunct == Comparison \cup [op : {"or"}, alts : SUBSET Comparison]

PredicateOK(pred) ==
    /\ pred \in Seq(Conjunct)
    /\ \A o \in UNION {{c.l, c.r} : c \in Comparisons(pred)} :
          /\ o.sides = {o.of} \ {"const"}
          /\ o.plain <=> (o.of # "const" /\ o.val = 0)

\* A row of a table with a primary key is unique in it and has no NULL.
TableOK(t, pk) ==
    /\ DOMAIN t = 1 .. Len(t)
    /\ \A i \in DOMAIN t : \A c \in DOMAIN t[i] : t[i][c] \in Nat
    /\ pk \in Seq(STRING)
    /\ pk # <<>> => \A i, j \in DOMAIN t :
                       /\ \A c \in ToSet(pk) : c \in DOMAIN t[i] /\ t[i][c] # Null
                       /\ i # j => \E c \in ToSet(pk) : t[i][c] # t[j][c]

QueryOK(q) ==
    /\ q.kind \in {"inner", "semi", "anti", "mark", "outer", "fullouter", "single"}
    /\ PredicateOK(q.pred)
    /\ TableOK(q.left, q.pk.l) /\ TableOK(q.right, q.pk.r)

JoinInit ==
    /\ query \in {q \in Queries : QueryOK(q)}
    /\ plan = NoPlan
    /\ stage = "plan"
    /\ rest = {} /\ store = {} /\ flag = {}
    /\ result = EmptyBag

\* The index of an index nested loop join exists; everything else is built.
OptimizeImplementation ==
    /\ stage = "plan"
    /\ plan' \in Plans
    /\ IF plan'.impl = "index"
       THEN stage' = "probe" /\ store' = Rows(plan'.build) /\ rest' = Rows(Other(plan'.build))
       ELSE stage' = "build" /\ store' = {} /\ rest' = Rows(plan'.build)
    /\ UNCHANGED <<query, flag, result>>

\* Insert or materialize a row, its marker false; a constant join scatters it
\* into the one entry of a simple state.
Build(b) ==
    /\ stage = "build" /\ b \in rest
    /\ rest' = rest \ {b}
    /\ store' = IF plan.impl = "constant" THEN {b} ELSE store \cup {b}
    /\ UNCHANGED <<query, plan, stage, flag, result>>

EndBuild ==
    /\ stage = "build" /\ rest = {}
    /\ stage' = "probe" /\ rest' = Rows(Other(plan.build))
    /\ UNCHANGED <<query, plan, store, flag, result>>

\* The nested map for one row, with the scatter of the marker.
Probe(p) ==
    /\ stage = "probe" /\ p \in rest /\ plan.impl # "constant"
    /\ rest' = rest \ {p}
    /\ result' = result (+) SetToBag(Emitted(p))
    /\ flag' = IF plan.marker THEN flag \cup Filtered(p) ELSE flag
    /\ UNCHANGED <<query, plan, stage, store>>

\* Gather the state of a constant join: nothing initializes it if the right
\* side is empty, so that any value may be read.
GatherConstant(p) ==
    /\ stage = "probe" /\ p \in rest /\ plan.impl = "constant"
    /\ rest' = rest \ {p}
    /\ \E r \in IF store = {} THEN {NoRow, Garbage} ELSE store :
          result' = result (+) SetToBag({<<p, r>>})
    /\ UNCHANGED <<query, plan, stage, store, flag>>

EndProbe ==
    /\ stage = "probe" /\ rest = {}
    /\ IF plan.marker THEN stage' = "scan" /\ rest' = store
                      ELSE stage' = "done" /\ rest' = {}
    /\ UNCHANGED <<query, plan, store, flag, result>>

ScanMarked(b) ==
    /\ stage = "scan" /\ b \in rest
    /\ rest' = rest \ {b}
    /\ result' = result (+) SetToBag(Scanned(b))
    /\ UNCHANGED <<query, plan, stage, store, flag>>

EndScanMarked ==
    /\ stage = "scan" /\ rest = {}
    /\ stage' = "done"
    /\ UNCHANGED <<query, plan, rest, store, flag, result>>

JoinNext ==
    \/ OptimizeImplementation
    \/ \E b \in rest : Build(b) \/ ScanMarked(b)
    \/ \E p \in rest : Probe(p) \/ GatherConstant(p)
    \/ EndBuild \/ EndProbe \/ EndScanMarked

JoinSpec == JoinInit /\ [][JoinNext]_joinVars

-----------------------------------------------------------------------------
(* Properties                                                              *)

Match(l, r) == \A i \in DOMAIN query.pred : Truth(query.pred[i], query.left[l], query.right[r])
MatchesOf(l) == {r \in Rows("r") : Match(l, r)}
Matching == {m \in Rows("l") \X Rows("r") : Match(m[1], m[2])}
LeftAlone == {l \in Rows("l") : MatchesOf(l) = {}}
RightAlone == {r \in Rows("r") : \A l \in Rows("l") : ~Match(l, r)}

\* The result of each join operator, from the predicate alone.  A mark join
\* is two-valued, like its flag column.
Reference ==
    CASE query.kind = "inner" -> Matching
      [] query.kind = "semi" -> (Rows("l") \ LeftAlone) \X {NoRow}
      [] query.kind = "anti" -> LeftAlone \X {NoRow}
      [] query.kind = "mark" -> {<<l, IF l \in LeftAlone THEN 0 ELSE 1>> : l \in Rows("l")}
      [] query.kind \in {"outer", "single"} -> Matching \cup (LeftAlone \X {NoRow})
      [] query.kind = "fullouter" -> Matching \cup (LeftAlone \X {NoRow}) \cup ({NoRow} \X RightAlone)

\* Whatever the implementation and the order of the rows, the pipelines return
\* every row of the join once and no other (a single join is only planned for
\* subqueries with at most one row per left row).
ResultIsJoin ==
    (stage = "done" /\ (query.kind = "single" => \A l \in Rows("l") : \E r \in {NoRow} \cup Rows("r") : MatchesOf(l) \subseteq {r}))
        => result = SetToBag(Reference)

\* A row of the materialized side is marked iff a row probed so far joins
\* with it: rows that share its hash or its keys do not mark it.
MarkersAreMatches ==
    (plan.marker /\ stage \in {"probe", "scan"}) =>
        LET probed == Rows("r") \ (IF stage = "probe" THEN rest ELSE {})
        IN  flag = {l \in store : \E r \in probed : Match(l, r)}

-----------------------------------------------------------------------------
(* Joins for which key extraction is exact.  The code does not ask for it: *)
(* the README names the joins beyond it whose result is wrong.             *)

\* Equalities between the sides.  A constant can be a key of either side.
Keyed(pred) == {i \in DOMAIN pred : IsEqualityPred(pred[i]) /\ pred[i].l.sides # pred[i].r.sides}
KeyFor(c, ks) == IF c.l.sides = {ks} \/ c.r.sides = {Other(ks)} THEN c.l ELSE c.r

\* No equality compares constants only; no constant is compared with columns
\* of both sides; and a computed key is compared with the other side only.
KeysApart(pred) ==
    /\ \A i \in DOMAIN pred : IsEqualityPred(pred[i]) => pred[i].l.sides \cup pred[i].r.sides # {}
    /\ \A i, j \in Keyed(pred) : KeyFor(pred[i], "l") # KeyFor(pred[j], "r")
    /\ \A s \in Sides : \A j \in Keyed(pred) : \A i \in DOMAIN pred \ {j} :
          (/\ ~KeyFor(pred[j], s).plain
           /\ IsEqualityPred(pred[i]) /\ KeyFor(pred[j], s) \in {pred[i].l, pred[i].r})
             => i \in Keyed(pred) /\ KeyFor(pred[i], Other(s)).sides # {}

\* The keys are the columns of the index, in its order.
Rank(pred, i) == Cardinality({j \in Keyed(pred) : j <= i})
KeysInOrder(s) ==
    /\ Cardinality(Keyed(query.pred)) = Len(query.pk[s])
    /\ \A i \in Keyed(query.pred) :
          LET o == KeyFor(query.pred[i], s)
          IN  o.plain /\ o.col = query.pk[s][Rank(query.pred, i)]

JoinCovered ==
    /\ KeysApart(query.pred)
    /\ \A s \in Sides : query.kind = "inner" /\ containsExactlyPrimaryKey(s) => KeysInOrder(s)
    /\ query.kind = "single" /\ query.pred = <<>> => Rows("r") # {}

-----------------------------------------------------------------------------
(* The inductive invariant behind both properties.                         *)

PlanHolds ==
    IF stage = "plan"
    THEN rest = {} /\ store = {} /\ flag = {} /\ result = EmptyBag
    ELSE plan \in Plans

RestHolds ==
    /\ stage \in {"plan", "build", "probe", "scan", "done"}
    /\ stage = "build" => plan.impl # "index" /\ rest \subseteq Rows(plan.build)
    /\ stage = "probe" => rest \subseteq Rows(Other(plan.build))
    /\ stage = "scan" => plan.marker /\ rest \subseteq store
    /\ stage = "done" => rest = {}

\* What the build pipeline has read; of a constant join, one row of it.
StoreHolds ==
    stage # "plan" =>
        LET built == Rows(plan.build) \ (IF stage = "build" THEN rest ELSE {})
        IN  IF plan.impl = "constant"
            THEN IF built = {} THEN store = {} ELSE \E b \in built : store = {b}
            ELSE store = built

\* The rows probed so far have set the markers and emitted their pairs; the
\* rows scanned so far have emitted theirs.
Probed == IF stage \in {"plan", "build"} THEN {}
          ELSE Rows(Other(plan.build)) \ (IF stage = "probe" THEN rest ELSE {})
ScannedRows == IF plan.marker /\ stage \in {"scan", "done"} THEN store \ rest ELSE {}

AllEmitted == UNION {Emitted(p) : p \in Probed}
AllScanned == UNION {Scanned(b) : b \in ScannedRows}

FlagHolds == flag = {b \in store : plan.marker /\ \E p \in Probed : b \in Filtered(p)}
ResultHolds ==
    IF plan.impl = "constant" THEN result = SetToBag(Probed \X store)
    ELSE result = SetToBag(AllEmitted \cup AllScanned)

JoinInv ==
    /\ QueryOK(query) /\ JoinCovered
    /\ PlanHolds /\ RestHolds /\ StoreHolds /\ FlagHolds /\ ResultHolds
=============================================================================
