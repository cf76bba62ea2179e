---------------------------- MODULE StorageProofs ----------------------------
(***************************************************************************)
(* For any rows, any number of statements, kills and restarts: a database  *)
(* whose lazy sessions only read keeps every acknowledged row, and as long *)
(* as no statement is cut off its index, row count and files describe one  *)
(* table.                                                                  *)
(***************************************************************************)
EXTENDS Storage, SequenceTheorems, TLAPS

O(f) == [do |-> "open", file |-> f]
W(f) == [do |-> "write", file |-> f]
IP == [do |-> "indexPersist", file |-> "index"]
AR(r) == [do |-> "appendRows", file |-> r]

LEMMA NoValue ==
    /\ None # Torn
    /\ \A x \in Seq(Rows) : x # None /\ x # Torn
    /\ \A x \in Seq(Hashes) : x # None /\ x # Torn
    /\ \A x \in Metas : x # None /\ x # Torn
    /\ \A x \in Relations : x # None /\ x # Torn
    /\ \A x \in Indexes : x # None /\ x # Torn
BY ValuesAssumption

LEMMA StepTypes ==
    /\ \A f \in Files : O(f) \in Steps /\ W(f) \in Steps
    /\ IP \in Steps
    /\ \A r \in Rows : AR(r) \in Steps
BY DEF Steps, O, W, IP, AR

LEMMA StepFields ==
    /\ \A f : O(f).do = "open" /\ O(f).file = f
    /\ \A f : W(f).do = "write" /\ W(f).file = f
    /\ IP.do = "indexPersist" /\ IP.file = "index"
    /\ \A r : AR(r).do = "appendRows" /\ AR(r).file = r
BY DEF O, W, IP, AR

LEMMA StepCases ==
    ASSUME NEW s \in Steps
    PROVE  \/ \E f \in Files : s = O(f) \/ s = W(f)
           \/ s = IP
           \/ \E r \in Rows : s = AR(r)
BY DEF Steps, O, W, IP, AR

(* Concatenations of the steps that a statement is made of *)
LEMMA Concats ==
    /\ \A a, b, c, d : <<a, b>> \o <<c, d>> = <<a, b, c, d>>
    /\ \A a, b, c, d, e, f : <<a, b, c, d>> \o <<e, f>> = <<a, b, c, d, e, f>>
    /\ \A a, b, c, d, e : <<a, b, c, d>> \o <<e>> = <<a, b, c, d, e>>
    /\ \A a, b, c, d, e, f, g : <<a, b, c, d, e, f>> \o <<g>> = <<a, b, c, d, e, f, g>>
<1>1. ASSUME NEW a, NEW b, NEW c, NEW d PROVE <<a, b>> \o <<c, d>> = <<a, b, c, d>>
  <2> DEFINE S == {a, b, c, d}
             x == <<a, b>> \o <<c, d>>
             y == <<a, b, c, d>>
  <2>1. x \in Seq(S) /\ y \in Seq(S) /\ Len(x) = Len(y) /\ \A i \in 1 .. Len(x) : x[i] = y[i]
    OBVIOUS
  <2> HIDE DEF S, x, y
  <2>2. x = y
    BY <2>1, SeqEqual
  <2> QED
    BY <2>2 DEF x, y
<1>2. ASSUME NEW a, NEW b, NEW c, NEW d, NEW e, NEW f PROVE <<a, b, c, d>> \o <<e, f>> = <<a, b, c, d, e, f>>
  <2> DEFINE S == {a, b, c, d, e, f}
             x == <<a, b, c, d>> \o <<e, f>>
             y == <<a, b, c, d, e, f>>
  <2>1. x \in Seq(S) /\ y \in Seq(S) /\ Len(x) = Len(y) /\ \A i \in 1 .. Len(x) : x[i] = y[i]
    OBVIOUS
  <2> HIDE DEF S, x, y
  <2>2. x = y
    BY <2>1, SeqEqual
  <2> QED
    BY <2>2 DEF x, y
<1>3. ASSUME NEW a, NEW b, NEW c, NEW d, NEW e PROVE <<a, b, c, d>> \o <<e>> = <<a, b, c, d, e>>
  <2> DEFINE S == {a, b, c, d, e}
             x == <<a, b, c, d>> \o <<e>>
             y == <<a, b, c, d, e>>
  <2>1. x \in Seq(S) /\ y \in Seq(S) /\ Len(x) = Len(y) /\ \A i \in 1 .. Len(x) : x[i] = y[i]
    OBVIOUS
  <2> HIDE DEF S, x, y
  <2>2. x = y
    BY <2>1, SeqEqual
  <2> QED
    BY <2>2 DEF x, y
<1>4. ASSUME NEW a, NEW b, NEW c, NEW d, NEW e, NEW f, NEW g PROVE <<a, b, c, d, e, f>> \o <<g>> = <<a, b, c, d, e, f, g>>
  <2> DEFINE S == {a, b, c, d, e, f, g}
             x == <<a, b, c, d, e, f>> \o <<g>>
             y == <<a, b, c, d, e, f, g>>
  <2>1. x \in Seq(S) /\ y \in Seq(S) /\ Len(x) = Len(y) /\ \A i \in 1 .. Len(x) : x[i] = y[i]
    OBVIOUS
  <2> HIDE DEF S, x, y
  <2>2. x = y
    BY <2>1, SeqEqual
  <2> QED
    BY <2>2 DEF x, y
<1> QED
  BY <1>1, <1>2, <1>3, <1>4

(* The steps of DBRelation::flush, and of statements that begin with it *)
Flushed(r) ==
    IF r.sample THEN <<O("meta"), W("meta"), O("data"), W("data"), O("sample"), W("sample")>>
    ELSE <<O("meta"), W("meta"), O("data"), W("data")>>

LEMMA FlushSteps ==
    ASSUME NEW r \in Relations
    PROVE  /\ r.persist \in BOOLEAN /\ r.sample \in BOOLEAN
           /\ r.persist => flush(r) = Flushed(r)
           /\ ~r.persist => flush(r) = <<>>
<1>0. r.persist \in BOOLEAN /\ r.sample \in BOOLEAN
  BY DEF Relations
<1>1. \A f \in Files : rewrite(f) = <<O(f), W(f)>>
  BY DEF rewrite, O, W
<1>2. <<O("meta"), W("meta")>> \o <<O("data"), W("data")>> = <<O("meta"), W("meta"), O("data"), W("data")>>
  BY Concats
<1>3. <<O("meta"), W("meta"), O("data"), W("data")>> \o <<O("sample"), W("sample")>>
        = <<O("meta"), W("meta"), O("data"), W("data"), O("sample"), W("sample")>>
  BY Concats
<1>4. <<O("meta"), W("meta"), O("data"), W("data")>> \o <<>> = <<O("meta"), W("meta"), O("data"), W("data")>>
  OBVIOUS
<1> QED
  BY <1>0, <1>1, <1>2, <1>3, <1>4 DEF flush, Flushed, Files

LEMMA FlushNoMore == ASSUME NEW r PROVE Flushed(r) \o <<>> = Flushed(r)
<1>1. Flushed(r) \in Seq(Steps)
  BY StepTypes DEF Files, Flushed
<1> QED
  BY <1>1, ConcatEmptySeq

LEMMA WorkFacts ==
    ASSUME TypeOK, work # <<>>
    PROVE  /\ Len(work) \in Nat \ {0} /\ DOMAIN work = 1 .. Len(work)
           /\ \A i \in DOMAIN work : work[i] \in Steps
           /\ Head(work) = work[1]
           /\ Tail(work) \in Seq(Steps) /\ DOMAIN Tail(work) = 1 .. Len(work) - 1
           /\ Len(Tail(work)) = Len(work) - 1
           /\ \A i \in 1 .. Len(work) - 1 : Tail(work)[i] = work[i + 1]
BY HeadTailProperties, EmptySeq, LenProperties DEF TypeOK, ObjectType

(* The statements' lists of steps: what they have in common *)
FlushList(w) ==
    /\ w \in Seq(Steps) /\ w # <<>> /\ w[1] = O("meta")
    /\ \A i \in DOMAIN w :
          /\ w[i].do = "open" => i + 1 \in DOMAIN w /\ w[i + 1] = [do |-> "write", file |-> w[i].file]
          /\ w[i].do \in {"indexPersist", "appendRows"} => i = Len(w)
    /\ \E i \in DOMAIN w : w[i] = W("meta")
    /\ \E i \in DOMAIN w : w[i] = W("data")

LEMMA FlushAlone ==
    ASSUME NEW r \in Relations
    PROVE  /\ FlushList(Flushed(r))
           /\ \A i \in DOMAIN Flushed(r) : Flushed(r)[i].do \in {"open", "write"} /\ Flushed(r)[i].file # "index"
<1> USE StepTypes, StepFields DEF Files
<1>0. \A f : [do |-> "write", file |-> f] = W(f)
  BY DEF W
<1>1. CASE r.sample
  <2> DEFINE w == <<O("meta"), W("meta"), O("data"), W("data"), O("sample"), W("sample")>>
  <2>1. FlushList(w) /\ \A i \in DOMAIN w : w[i].do \in {"open", "write"} /\ w[i].file # "index"
    BY <1>0 DEF FlushList
  <2> QED
    BY <1>1, <2>1 DEF Flushed
<1>2. CASE ~r.sample
  <2> DEFINE w == <<O("meta"), W("meta"), O("data"), W("data")>>
  <2>1. FlushList(w) /\ \A i \in DOMAIN w : w[i].do \in {"open", "write"} /\ w[i].file # "index"
    BY <1>0 DEF FlushList
  <2> QED
    BY <1>2, <2>1 DEF Flushed
<1> QED
  BY <1>1, <1>2

EndsWith(w, s) ==
    /\ FlushList(w) /\ Len(w) \in DOMAIN w /\ w[Len(w)] = s
    /\ \A i \in DOMAIN w : w[i] = s \/ (w[i].do \in {"open", "write"} /\ w[i].file # "index")

LEMMA FlushAndStep ==
    ASSUME NEW r \in Relations, NEW s \in Steps, s.do \in {"indexPersist", "appendRows"}
    PROVE  EndsWith(Flushed(r) \o <<s>>, s)
<1>0. \A f : [do |-> "write", file |-> f] = W(f)
  BY DEF W
<1>1. CASE r.sample
  <2> DEFINE w == <<O("meta"), W("meta"), O("data"), W("data"), O("sample"), W("sample"), s>>
  <2>1. EndsWith(w, s)
    BY <1>0, StepTypes, StepFields DEF FlushList, Files, EndsWith
  <2>2. Flushed(r) \o <<s>> = w
    BY <1>1, Concats DEF Flushed
  <2> QED
    BY <2>1, <2>2
<1>2. CASE ~r.sample
  <2> DEFINE w == <<O("meta"), W("meta"), O("data"), W("data"), s>>
  <2>1. EndsWith(w, s)
    BY <1>0, StepTypes, StepFields DEF FlushList, Files, EndsWith
  <2>2. Flushed(r) \o <<s>> = w
    BY <1>2, Concats DEF Flushed
  <2> QED
    BY <2>1, <2>2
<1> QED
  BY <1>1, <1>2

LEMMA FlushAndIndex ==
    ASSUME NEW r \in Relations, ~r.sample
    PROVE  \A v : v = Flushed(r) \o <<O("index"), W("index")>> =>
              /\ FlushList(v)
              /\ \E i \in DOMAIN v : v[i] = W("index")
              /\ \A i \in DOMAIN v : v[i].do \in {"open", "write"}
<1> DEFINE w == <<O("meta"), W("meta"), O("data"), W("data"), O("index"), W("index")>>
<1>0. \A f : [do |-> "write", file |-> f] = W(f)
  BY DEF W
<1>1. FlushList(w) /\ 6 \in DOMAIN w /\ w[6] = W("index") /\ \A i \in DOMAIN w : w[i].do \in {"open", "write"}
  BY <1>0, StepTypes, StepFields DEF FlushList, Files
<1>2. Flushed(r) \o <<O("index"), W("index")>> = w
  BY Concats DEF Flushed
<1> QED
  BY <1>1, <1>2

(* SET persist and INSERT: flush, then a step s of the index x if there is one *)
StatementSteps(w, r, s, x) ==
    /\ w \in Seq(Steps)
    /\ r.persist => FlushList(w)
    /\ \A i \in DOMAIN w :
          \/ w[i] = s /\ x # None /\ i = Len(w)
          \/ w[i].do \in {"open", "write"} /\ w[i].file # "index" /\ r.persist
    /\ x # None => Len(w) \in DOMAIN w /\ w[Len(w)] = s

LEMMA FlushWork ==
    ASSUME NEW r \in Relations, NEW s \in Steps, s.do \in {"indexPersist", "appendRows"}, NEW x
    PROVE  StatementSteps(flush(r) \o (IF x = None THEN <<>> ELSE <<s>>), r, s, x)
<1>1. CASE r.persist /\ x = None
  <2>1. flush(r) \o (IF x = None THEN <<>> ELSE <<s>>) = Flushed(r)
    BY <1>1, FlushSteps, FlushNoMore
  <2>2. StatementSteps(Flushed(r), r, s, x)
    BY <1>1, FlushAlone DEF FlushList, StatementSteps
  <2> QED
    BY <2>1, <2>2
<1>2. CASE r.persist /\ x # None
  <2> DEFINE w == Flushed(r) \o <<s>>
  <2>1. flush(r) \o (IF x = None THEN <<>> ELSE <<s>>) = w
    BY <1>2, FlushSteps
  <2>2. EndsWith(w, s)
    BY FlushAndStep
  <2> HIDE DEF w
  <2>3. StatementSteps(w, r, s, x)
    BY <1>2, <2>2 DEF FlushList, EndsWith, StatementSteps
  <2> QED
    BY <2>1, <2>3
<1>3. CASE ~r.persist /\ x = None
  <2>1. flush(r) \o (IF x = None THEN <<>> ELSE <<s>>) = <<>>
    BY <1>3, FlushSteps
  <2> QED
    BY <1>3, <2>1 DEF StatementSteps
<1>4. CASE ~r.persist /\ x # None
  <2>1. <<s>> \in Seq(Steps)
    OBVIOUS
  <2>2. <<>> \o <<s>> = <<s>>
    BY <2>1, ConcatEmptySeq
  <2>3. flush(r) \o (IF x = None THEN <<>> ELSE <<s>>) = <<s>>
    BY <1>4, <2>2, FlushSteps
  <2>4. StatementSteps(<<s>>, r, s, x)
    BY <1>4, <2>1 DEF StatementSteps
  <2> QED
    BY <2>3, <2>4
<1> QED
  BY <1>1, <1>2, <1>3, <1>4, FlushSteps

-----------------------------------------------------------------------------
LEMMA InitCrashInv == Init => CrashInv
<1> SUFFICES ASSUME Init PROVE CrashInv
  OBVIOUS
<1>1. TypeOK
  <2>1. DiskType
    BY DEF Init, DiskType
  <2>2. ObjectType /\ SessionType
    BY DEF Init, ObjectType, SessionType
  <2>3. FlagType
    BY DEF Init, FlagType
  <2> QED
    BY <2>1, <2>2, <2>3 DEF TypeOK
<1>2. WorkOrdered
  BY DEF Init, WorkOrdered
<1>3. SessionShape
  BY DEF Init, SessionShape
<1>4. DiskKeeps
  BY DEF Init, DiskKeeps
<1>5. MemoryKeeps /\ AckedRowsKept
  BY DEF Init, MemoryKeeps, AckedRowsKept
<1> QED
  BY <1>1, <1>2, <1>3, <1>4, <1>5 DEF CrashInv

(* What a loaded table and index are *)
LEMMA EnsureLoadedType ==
    ASSUME NEW t \in Seq(Rows), NEW p \in BOOLEAN, NEW junk \in Hashes \cup {Junk},
           disk.index \in {None} \cup Seq(Hashes)
    PROVE  ensureLoaded(t, p, junk) \in Indexes /\ computeHashes(t) \in Seq(Hashes)
<1>1. computeHashes(t) \in Seq(Hashes)
  BY StorageAssumption DEF computeHashes
<1>2. indexHashes(t) \in Seq(Hashes)
  BY <1>1 DEF indexHashes
<1>3. build(t, indexHashes(t), junk) \in SUBSET ((Hashes \cup {Junk}) \X Rows)
  BY <1>2 DEF build
<1> QED
  BY <1>1, <1>2, <1>3 DEF ensureLoaded, Indexes

LEMMA OpenCrash == ASSUME CrashInv, NEW e \in BOOLEAN, Open(e), UNCHANGED interrupted PROVE CrashInv'
<1>0. DiskType /\ SessionType /\ FlagType /\ DiskKeeps
  BY DEF CrashInv, TypeOK
<1>1. disk.meta # None => disk.meta \in Metas
  BY <1>0 DEF DiskType, Unreadable, Open
<1>2. disk.meta # None /\ e => disk.data \in {None} \cup Seq(Rows)
  BY <1>0 DEF DiskType, Unreadable, Open
<1>3. disk.meta # None /\ e /\ disk.meta.pk => disk.index \in {None} \cup Seq(Hashes)
  BY <1>0, <1>1, NoValue DEF DiskType, Unreadable, Indexed, Open
<1> DEFINE t == IF e /\ disk.data # None THEN disk.data ELSE <<>>
<1>4. disk.meta # None => t \in Seq(Rows)
  BY <1>2
<1>5. ASSUME disk.meta # None
      PROVE  rel' \in Relations /\ rel'.table = t /\ rel'.persist = FALSE /\ rel'.eager = e
  <2>1. disk.meta.rows \in Nat \cup {Unset} /\ disk.meta.pk \in BOOLEAN
    BY <1>1, <1>5 DEF Metas
  <2>2. countedRows(t, disk.meta.rows) \in Nat \cup {Unset}
    BY <1>4, <1>5, <2>1 DEF countedRows
  <2>3. PICK n \in Nat \cup {Unset}, b \in BOOLEAN : 
          rel' = [table |-> t, numRows |-> n, sample |-> b, persist |-> FALSE, eager |-> e]
    BY <1>5, <2>1, <2>2 DEF Open
  <2> QED
    BY <1>4, <1>5, <2>3 DEF Relations
<1>6. ASSUME disk.meta # None
      PROVE  idx' = None \/ (idx' \in Indexes /\ idx'.persist = FALSE)
  <2>1. CASE disk.meta.pk /\ e
    <3>1. PICK junk \in Hashes \cup {Junk} : idx' = ensureLoaded(t, FALSE, junk)
      BY <1>6, <2>1 DEF Open
    <3>2. ensureLoaded(t, FALSE, junk) \in Indexes
      BY <1>6, <2>1, <1>3, <1>4, EnsureLoadedType
    <3> QED
      BY <3>1, <3>2 DEF ensureLoaded
  <2>2. CASE disk.meta.pk /\ ~e
    <3>1. idx' = emptyIndex
      BY <1>6, <2>2 DEF Open
    <3> QED
      BY <3>1 DEF emptyIndex, Indexes
  <2>3. CASE ~disk.meta.pk
    BY <1>6, <2>3 DEF Open
  <2> QED
    BY <2>1, <2>2, <2>3
<1>7. disk.meta = None => rel' = None /\ idx' = None
  BY DEF Open
<1>u. /\ work' = <<>> /\ session' = "up" /\ eager' = e /\ persist' = FALSE /\ reads' = "unknown"
      /\ disk' = disk /\ acked' = acked /\ interrupted' = interrupted
  BY DEF Open
<1>8. TypeOK'
  <2>1. DiskType'
    BY <1>0, <1>u DEF DiskType
  <2>2. ObjectType'
    <3>1. rel' \in Relations \cup {None}
      BY <1>5, <1>7
    <3>2. idx' \in Indexes \cup {None}
      BY <1>6, <1>7
    <3> QED
      BY <3>1, <3>2, <1>u DEF ObjectType
  <2>3. SessionType'
    BY <1>0, <1>u DEF SessionType
  <2>4. FlagType'
    BY <1>0, <1>u DEF FlagType
  <2> QED
    BY <2>1, <2>2, <2>3, <2>4 DEF TypeOK
<1>9. WorkOrdered'
  BY DEF Open, WorkOrdered
<1>10. SessionShape'
  <2>1. rel' = None => idx' = None /\ disk.meta = None
    BY <1>5, <1>7, NoValue
  <2> QED
    BY <2>1, <1>5, <1>6, <1>7, <1>u DEF SessionShape
<1>11. DiskKeeps'
  BY <1>0 DEF Open, DiskKeeps
<1>12. MemoryKeeps' /\ AckedRowsKept'
  <2>1. disk.meta # None /\ e => acked \subseteq RowsOf(t)
    BY <1>0, <1>2, NoValue DEF DiskKeeps
  <2> QED
    BY <2>1, <1>5, <1>7, <1>u DEF MemoryKeeps, AckedRowsKept
<1> QED
  BY <1>8, <1>9, <1>10, <1>11, <1>12 DEF CrashInv

LEMMA OpenFailsCrash == ASSUME CrashInv, NEW e \in BOOLEAN, OpenFails(e), UNCHANGED interrupted PROVE CrashInv'
<1>1. TypeOK'
  BY DEF CrashInv, OpenFails, TypeOK, DiskType, ObjectType, SessionType, FlagType
<1>2. WorkOrdered' /\ SessionShape' /\ DiskKeeps' /\ MemoryKeeps' /\ AckedRowsKept'
  BY DEF CrashInv, OpenFails, WorkOrdered, SessionShape, DiskKeeps, MemoryKeeps, AckedRowsKept, Pending, ToDo
<1> QED
  BY <1>1, <1>2 DEF CrashInv

LEMMA CreateTableCrash == ASSUME ~LazyWrites, CrashInv, CreateTable, UNCHANGED interrupted PROVE CrashInv'
<1>0. DiskType /\ SessionType /\ FlagType /\ DiskKeeps /\ SessionShape
  BY DEF CrashInv, TypeOK
<1>1. /\ eager = TRUE /\ session = "up" /\ disk.meta = None /\ disk.data = None /\ disk.index = None
      /\ acked = {}
  BY <1>0 DEF CreateTable, Ready, SessionShape, DiskKeeps, FlagType
<1>2. persist \in BOOLEAN
  BY <1>0 DEF FlagType
<1>3. rel' = [table |-> <<>>, numRows |-> 0, sample |-> FALSE, persist |-> persist, eager |-> TRUE]
  BY DEF CreateTable
<1>4. /\ rel'.table = <<>> /\ rel'.sample = FALSE /\ rel'.persist = persist /\ rel'.eager = TRUE
      /\ rel' \in Relations /\ rel' # None
  <2>1. rel' \in Relations
    BY <1>2, <1>3 DEF Relations
  <2> QED
    BY <1>3, <2>1, NoValue
<1>5. IF HasPk THEN idx' \in Indexes /\ idx' # None /\ idx'.persist = persist ELSE idx' = None
  <2>1. ensureLoaded(<<>>, persist, Junk) \in Indexes
    <3>1. <<>> \in Seq(Rows) /\ Junk \in Hashes \cup {Junk} /\ disk.index \in {None} \cup Seq(Hashes)
      BY <1>1
    <3> QED
      BY <3>1, <1>2, EnsureLoadedType
  <2>2. ensureLoaded(<<>>, persist, Junk).persist = persist
    BY DEF ensureLoaded
  <2> QED
    BY <2>1, <2>2, NoValue DEF CreateTable
<1>6. ASSUME ~persist PROVE work' = <<>>
  <2>1. flush(rel') = <<>>
    BY <1>4, <1>6, FlushSteps
  <2> QED
    BY <2>1, <1>6 DEF CreateTable
<1>7. ASSUME persist
      PROVE  /\ FlushList(work') /\ \A i \in DOMAIN work' : work'[i].do \in {"open", "write"}
             /\ ~HasPk => \A i \in DOMAIN work' : work'[i].file # "index"
  <2>1. flush(rel') = Flushed(rel')
    BY <1>4, <1>7, FlushSteps
  <2>2. CASE HasPk
    <3>1. work' = Flushed(rel') \o <<O("index"), W("index")>>
      BY <1>7, <2>1, <2>2 DEF CreateTable, rewrite, O, W
    <3> QED
      BY <3>1, <1>4, <2>2, FlushAndIndex
  <2>3. CASE ~HasPk
    <3>1. work' = Flushed(rel')
      BY <1>4, <1>7, <2>1, <2>3, FlushNoMore DEF CreateTable
    <3> QED
      BY <3>1, <1>4, FlushAlone
  <2> QED
    BY <2>2, <2>3
<1>8. /\ reads' = reads /\ disk' = disk /\ session' = session /\ eager' = eager /\ persist' = persist
      /\ acked' = acked /\ interrupted' = interrupted
  BY <1>1 DEF CreateTable, RunsUnloaded
<1>9. TypeOK'
  <2>1. DiskType' /\ SessionType' /\ FlagType'
    BY <1>0, <1>8 DEF DiskType, SessionType, FlagType
  <2>2. work' \in Seq(Steps)
    <3>1. CASE persist
      BY <3>1, <1>7 DEF FlushList
    <3>2. CASE ~persist
      BY <3>2, <1>6
    <3> QED
      BY <3>1, <3>2
  <2>3. idx' \in Indexes \cup {None}
    BY <1>5
  <2> QED
    BY <1>4, <2>1, <2>2, <2>3 DEF TypeOK, ObjectType
<1>10. WorkOrdered'
  <2>1. CASE ~persist
    BY <1>6, <2>1 DEF WorkOrdered
  <2>2. CASE persist
    <3>1. \A i \in DOMAIN work' : idx' = None => work'[i].file # "index"
      BY <1>5, <1>7, <2>2
    <3> QED
      BY <1>1, <1>4, <1>7, <1>8, <2>2, <3>1 DEF WorkOrdered, FlushList, O
  <2> QED
    BY <2>1, <2>2
<1>11. SessionShape'
  <2>1. work' = <<>> => ~persist
    BY <1>7 DEF FlushList
  <2>2. idx' # None => idx'.persist = persist
    BY <1>5
  <2> QED
    BY <1>1, <1>4, <1>8, <2>1, <2>2 DEF SessionShape
<1>12. DiskKeeps'
  BY <1>0, <1>8 DEF DiskKeeps
<1>13. MemoryKeeps' /\ AckedRowsKept'
  <2>1. persist => Pending("data")'
    BY <1>7 DEF FlushList, Pending, W
  <2> QED
    BY <1>1, <1>4, <1>8, <2>1 DEF MemoryKeeps, AckedRowsKept
<1> QED
  BY <1>9, <1>10, <1>11, <1>12, <1>13 DEF CrashInv

LEMMA SetPersistCrash ==
    ASSUME ~LazyWrites, CrashInv, NEW v \in BOOLEAN, SetPersist(v), UNCHANGED interrupted
    PROVE  CrashInv'
<1>0. /\ DiskType /\ ObjectType /\ SessionType /\ FlagType /\ WorkOrdered /\ SessionShape /\ DiskKeeps
      /\ MemoryKeeps /\ AckedRowsKept
  BY DEF CrashInv, TypeOK
<1>1. eager = TRUE /\ session = "up" /\ work = <<>>
  BY <1>0 DEF SetPersist, Ready, FlagType
<1>2. /\ persist' = v /\ reads' = reads /\ disk' = disk /\ session' = session /\ eager' = eager
      /\ idx' = idx /\ acked' = acked /\ interrupted' = interrupted
  BY <1>1 DEF SetPersist, RunsUnloaded
<1>3. DiskType' /\ SessionType' /\ FlagType'
  BY <1>0, <1>2 DEF DiskType, SessionType, FlagType
<1>4. DiskKeeps'
  BY <1>0, <1>2 DEF DiskKeeps
<1>5. CASE rel = None
  <2>1. rel' = rel /\ work' = work
    BY <1>5 DEF SetPersist
  <2>2. ObjectType' /\ WorkOrdered' /\ SessionShape' /\ MemoryKeeps' /\ AckedRowsKept'
    BY <1>0, <1>1, <1>2, <1>5, <2>1 DEF ObjectType, WorkOrdered, SessionShape, MemoryKeeps, AckedRowsKept, ToDo
  <2> QED
    BY <1>3, <1>4, <2>2 DEF CrashInv, TypeOK
<1>6. CASE rel # None
  <2>1. rel \in Relations
    BY <1>0, <1>6 DEF ObjectType
  <2>2. rel' = [rel EXCEPT !.persist = v]
    BY <1>6 DEF SetPersist
  <2>3. rel' \in Relations /\ rel' # None
    BY <2>1, <2>2, NoValue DEF Relations
  <2>4. rel'.persist = v /\ rel'.table = rel.table /\ rel'.eager = rel.eager
    BY <2>1, <2>2 DEF Relations
  <2>5. work' = flush(rel') \o (IF idx = None THEN <<>> ELSE <<IP>>)
    BY <1>6 DEF SetPersist, IP
  <2>6. /\ work' \in Seq(Steps)
        /\ v => FlushList(work')
        /\ \A i \in DOMAIN work' :
              \/ work'[i] = IP /\ idx # None /\ i = Len(work')
              \/ work'[i].do \in {"open", "write"} /\ work'[i].file # "index" /\ v
        /\ idx # None => Len(work') \in DOMAIN work' /\ work'[Len(work')] = IP
    <3>1. StatementSteps(work', rel', IP, idx)
      BY <2>3, <2>5, FlushWork, StepTypes, StepFields
    <3> QED
      BY <2>4, <3>1 DEF StatementSteps
  <2>7. ObjectType'
    BY <1>0, <1>2, <2>3, <2>6 DEF ObjectType
  <2>8. WorkOrdered'
    <3>1. \A i \in DOMAIN work' : work'[i].do = "open" =>
            i + 1 \in DOMAIN work' /\ work'[i + 1] = [do |-> "write", file |-> work'[i].file]
      BY <2>6, StepFields DEF FlushList
    <3>2. v => work'[1] = [do |-> "open", file |-> "meta"]
      BY <2>6 DEF FlushList, O
    <3> QED
      BY <1>1, <1>2, <2>3, <2>4, <2>6, <3>1, <3>2, StepFields DEF WorkOrdered
  <2>9. SessionShape'
    <3>1. idx # None => ToDo("indexPersist")'
      BY <2>6, StepFields DEF ToDo
    <3>2. v => work' # <<>>
      BY <2>6 DEF FlushList
    <3> QED
      BY <1>0, <1>1, <1>2, <1>6, <2>3, <2>4, <3>1, <3>2 DEF SessionShape
  <2>10. MemoryKeeps' /\ AckedRowsKept'
    <3>1. v => Pending("data")'
      BY <2>6 DEF FlushList, Pending, W
    <3> QED
      BY <1>0, <1>1, <1>2, <1>6, <2>4, <3>1 DEF MemoryKeeps, AckedRowsKept, SessionShape
  <2> QED
    BY <1>3, <1>4, <2>7, <2>8, <2>9, <2>10 DEF CrashInv, TypeOK
<1> QED
  BY <1>5, <1>6

LEMMA InsertCrash ==
    ASSUME ~LazyWrites, CrashInv, NEW r \in Rows, Insert(r), UNCHANGED interrupted
    PROVE  CrashInv'
<1>0. /\ DiskType /\ ObjectType /\ SessionType /\ FlagType /\ WorkOrdered /\ SessionShape /\ DiskKeeps
      /\ MemoryKeeps /\ AckedRowsKept
  BY DEF CrashInv, TypeOK
<1>1. eager = TRUE /\ session = "up" /\ work = <<>> /\ rel # None
  BY <1>0 DEF Insert, Ready, FlagType
<1>2. /\ reads' = reads /\ disk' = disk /\ session' = session /\ eager' = eager /\ persist' = persist
      /\ idx' = idx /\ acked' = acked /\ interrupted' = interrupted
  BY <1>1 DEF Insert, RunsUnloaded
<1>3. DiskType' /\ SessionType' /\ FlagType'
  BY <1>0, <1>2 DEF DiskType, SessionType, FlagType
<1>4. DiskKeeps'
  BY <1>0, <1>2 DEF DiskKeeps
<1>5. rel \in Relations /\ rel.table \in Seq(Rows)
  BY <1>0, <1>1 DEF ObjectType, Relations
<1> DEFINE t == Append(rel.table, r)
<1>6. /\ t \in Seq(Rows) /\ Len(t) = Len(rel.table) + 1 /\ Len(t) \in Nat
      /\ RowsOf(rel.table) \subseteq RowsOf(t)
  BY <1>5, AppendProperties DEF RowsOf
<1>7. rel' = [rel EXCEPT !.table = t, !.numRows = Len(t), !.sample = TRUE]
  BY DEF Insert
<1>8. rel' \in Relations /\ rel' # None
  <2> HIDE DEF t
  <2> QED
    BY <1>5, <1>6, <1>7, NoValue DEF Relations
<1>9. rel'.persist = rel.persist /\ rel'.table = t /\ rel'.eager = rel.eager
  BY <1>5, <1>7 DEF Relations
<1>10. work' = flush(rel') \o (IF idx = None THEN <<>> ELSE <<AR(r)>>)
  BY DEF Insert, AR
<1>11. /\ work' \in Seq(Steps)
       /\ rel.persist => FlushList(work')
       /\ \A i \in DOMAIN work' :
             \/ work'[i] = AR(r) /\ idx # None /\ i = Len(work')
             \/ work'[i].do \in {"open", "write"} /\ work'[i].file # "index" /\ rel.persist
       /\ idx # None => Len(work') \in DOMAIN work' /\ work'[Len(work')] = AR(r)
  <2>1. StatementSteps(work', rel', AR(r), idx)
    BY <1>8, <1>10, FlushWork, StepTypes, StepFields
  <2> QED
    BY <1>9, <2>1 DEF StatementSteps
<1>12. ObjectType'
  BY <1>0, <1>2, <1>8, <1>11 DEF ObjectType
<1>13. WorkOrdered'
  <2>1. \A i \in DOMAIN work' : work'[i].do = "open" =>
          i + 1 \in DOMAIN work' /\ work'[i + 1] = [do |-> "write", file |-> work'[i].file]
    BY <1>11, StepFields DEF FlushList
  <2>2. rel.persist => work'[1] = [do |-> "open", file |-> "meta"]
    BY <1>11 DEF FlushList, O
  <2> QED
    BY <1>1, <1>2, <1>8, <1>9, <1>11, <2>1, <2>2, StepFields DEF WorkOrdered
<1>14. SessionShape'
  <2>1. idx # None /\ idx.persist => rel.persist
    BY <1>0, <1>1 DEF SessionShape, ToDo
  <2>2. rel.persist => work' # <<>>
    BY <1>11 DEF FlushList
  <2> QED
    BY <1>0, <1>1, <1>2, <1>8, <1>9, <2>1, <2>2 DEF SessionShape
<1>15. MemoryKeeps' /\ AckedRowsKept'
  <2>1. rel.persist => Pending("data")'
    BY <1>11 DEF FlushList, Pending, W
  <2> QED
    BY <1>0, <1>1, <1>2, <1>6, <1>9, <2>1 DEF MemoryKeeps, AckedRowsKept, SessionShape
<1> QED
  BY <1>3, <1>4, <1>12, <1>13, <1>14, <1>15 DEF CrashInv, TypeOK

(* What a query loads has the acknowledged rows *)
LEMMA Loaded ==
    ASSUME CrashInv, Ready, rel # None, loadData # Torn
    PROVE  /\ rel \in Relations /\ rel.eager = eager /\ loadData \in Seq(Rows)
           /\ eager => loadData = rel.table
           /\ ~eager => loadData \in {<<>>, disk.data} /\ ~rel.persist /\ disk.meta # None
           /\ acked \subseteq RowsOf(loadData)
<1>0. DiskType /\ ObjectType /\ FlagType /\ SessionShape /\ DiskKeeps /\ MemoryKeeps /\ session = "up"
  BY DEF CrashInv, TypeOK, Ready
<1>1. rel \in Relations /\ rel.table \in Seq(Rows) /\ eager \in BOOLEAN
  BY <1>0 DEF ObjectType, Relations, FlagType
<1>2. disk.data \in {None, Torn} \cup Seq(Rows)
  BY <1>0 DEF DiskType
<1>3. rel.eager = eager /\ (~eager => ~rel.persist /\ rel.table \in {<<>>, disk.data} /\ disk.meta # None)
  BY <1>0 DEF SessionShape
<1>4. loadData = IF ~rel.eager /\ rel.table = <<>> /\ disk.data # None THEN disk.data ELSE rel.table
  BY DEF loadData
<1>5. loadData \in Seq(Rows)
  BY <1>1, <1>2, <1>4
<1>6. CASE eager
  BY <1>0, <1>1, <1>3, <1>4, <1>5, <1>6 DEF MemoryKeeps
<1>7. CASE ~eager
  <2>1. loadData \in {<<>>, disk.data}
    BY <1>3, <1>4, <1>7
  <2>2. CASE disk.data = None
    BY <1>0, <1>1, <1>3, <1>5, <1>7, <2>1, <2>2 DEF DiskKeeps
  <2>3. CASE disk.data # None
    <3>1. loadData = disk.data
      BY <1>3, <1>4, <1>7, <2>3
    <3> QED
      BY <1>0, <1>1, <1>3, <1>5, <1>7, <2>3, <3>1 DEF DiskKeeps
  <2> QED
    BY <2>2, <2>3
<1> QED
  BY <1>1, <1>6, <1>7

LEMMA QueryCrash == ASSUME CrashInv, Query \/ IndexQuery, UNCHANGED interrupted PROVE CrashInv'
<1>0. /\ DiskType /\ ObjectType /\ SessionType /\ FlagType /\ WorkOrdered /\ SessionShape /\ DiskKeeps
      /\ MemoryKeeps /\ AckedRowsKept
  BY DEF CrashInv, TypeOK
<1>1. Ready /\ session = "up" /\ work = <<>> /\ rel # None /\ loadData # Torn
  BY DEF Query, IndexQuery, Ready
<1>2. /\ reads' \in {reads, "table", "index"} /\ disk' = disk /\ session' = session /\ eager' = eager /\ persist' = persist
      /\ work' = work /\ acked' = acked /\ interrupted' = interrupted
  BY <1>0 DEF Query, IndexQuery, Loads
<1>3. /\ rel \in Relations /\ rel.eager = eager /\ loadData \in Seq(Rows)
      /\ eager => loadData = rel.table
      /\ ~eager => loadData \in {<<>>, disk.data} /\ ~rel.persist /\ disk.meta # None
      /\ acked \subseteq RowsOf(loadData)
  BY <1>1, Loaded
<1>4. rel' \in Relations /\ rel'.table = loadData /\ rel'.persist = rel.persist /\ rel'.eager = rel.eager
  <2>1. countedRows(loadData, rel.numRows) \in Nat \cup {Unset}
    BY <1>3 DEF countedRows, Relations
  <2>2. CASE Query
    <3>1. rel' = [rel EXCEPT !.table = loadData]
      BY <2>2 DEF Query
    <3> QED
      BY <1>3, <3>1 DEF Relations
  <2>3. CASE IndexQuery
    <3> DEFINE n == countedRows(loadData, rel.numRows)
    <3>1. rel' = [rel EXCEPT !.table = loadData, !.numRows = n]
      BY <2>3 DEF IndexQuery
    <3> HIDE DEF n
    <3>2. n \in Nat \cup {Unset}
      BY <2>1 DEF n
    <3> QED
      BY <1>3, <3>1, <3>2 DEF Relations
  <2> QED
    BY <2>2, <2>3
<1>5. idx' \in Indexes \cup {None} /\ (idx' = None <=> idx = None) /\ (idx' # None => idx'.persist = idx.persist)
  <2>1. CASE Query
    BY <1>0, <2>1 DEF Query, ObjectType
  <2>2. CASE IndexQuery
    <3>1. PICK junk \in Hashes \cup {Junk} : idx' = ensureLoaded(loadData, idx.persist, junk)
      BY <2>2 DEF IndexQuery
    <3>2. idx \in Indexes /\ idx # None /\ idx.persist \in BOOLEAN
      BY <1>0, <2>2 DEF IndexQuery, ObjectType, Indexes
    <3>3. disk.index \in {None} \cup Seq(Hashes)
      BY <1>0, <2>2 DEF IndexQuery, DiskType
    <3>4. idx' \in Indexes
      BY <1>3, <3>1, <3>2, <3>3, EnsureLoadedType
    <3>5. idx'.persist = idx.persist
      BY <3>1 DEF ensureLoaded
    <3> QED
      BY <3>2, <3>4, <3>5, NoValue
  <2> QED
    BY <2>1, <2>2
<1>6. rel' # None
  BY <1>4, NoValue
<1>7. TypeOK'
  <2>1. DiskType' /\ SessionType' /\ FlagType'
    BY <1>0, <1>2 DEF DiskType, SessionType, FlagType
  <2>2. ObjectType'
    BY <1>0, <1>2, <1>4, <1>5 DEF ObjectType
  <2> QED
    BY <2>1, <2>2 DEF TypeOK
<1>8. WorkOrdered'
  BY <1>1, <1>2 DEF WorkOrdered
<1>9. SessionShape'
  BY <1>0, <1>1, <1>2, <1>3, <1>4, <1>5, <1>6 DEF SessionShape, ToDo
<1>10. DiskKeeps'
  BY <1>0, <1>2 DEF DiskKeeps
<1>11. MemoryKeeps' /\ AckedRowsKept'
  <2>1. rel.persist => Pending("data") \/ disk.data = loadData
    BY <1>0, <1>1, <1>3 DEF MemoryKeeps, FlagType
  <2> QED
    BY <1>1, <1>2, <1>3, <1>4, <2>1 DEF MemoryKeeps, AckedRowsKept, Pending
<1> QED
  BY <1>7, <1>8, <1>9, <1>10, <1>11 DEF CrashInv

LEMMA QueryFailsCrash == ASSUME CrashInv, QueryFails, UNCHANGED interrupted PROVE CrashInv'
<1>1. TypeOK'
  BY DEF CrashInv, QueryFails, TypeOK, DiskType, ObjectType, SessionType, FlagType
<1>2. WorkOrdered' /\ SessionShape' /\ DiskKeeps' /\ MemoryKeeps' /\ AckedRowsKept'
  BY DEF CrashInv, QueryFails, Ready, WorkOrdered, SessionShape, DiskKeeps, MemoryKeeps, AckedRowsKept, Pending, ToDo
<1> QED
  BY <1>1, <1>2 DEF CrashInv

LEMMA KillCrash == ASSUME CrashInv, Kill PROVE CrashInv'
<1>0. /\ session' = "down" /\ persist' = FALSE /\ rel' = None /\ idx' = None /\ work' = <<>> /\ reads' = "unknown"
      /\ disk' = disk /\ eager' = eager /\ acked' = acked /\ interrupted' \in BOOLEAN
  BY DEF Kill, CrashInv, TypeOK, FlagType
<1>1. DiskType' /\ SessionType' /\ FlagType' /\ ObjectType'
  <2>0. DiskType /\ SessionType /\ FlagType
    BY DEF CrashInv, TypeOK
  <2>1. DiskType'
    BY <1>0, <2>0 DEF DiskType
  <2>2. SessionType' /\ FlagType'
    BY <1>0, <2>0 DEF SessionType, FlagType
  <2>3. ObjectType'
    BY <1>0 DEF ObjectType
  <2> QED
    BY <2>1, <2>2, <2>3
<1>2. WorkOrdered' /\ SessionShape' /\ DiskKeeps' /\ MemoryKeeps' /\ AckedRowsKept'
  BY <1>0 DEF CrashInv, WorkOrdered, SessionShape, DiskKeeps, MemoryKeeps, AckedRowsKept
<1> QED
  BY <1>1, <1>2 DEF CrashInv, TypeOK

LEMMA StutterCrash == ASSUME CrashInv, UNCHANGED vars PROVE CrashInv'
<1>0. UNCHANGED <<disk, session, eager, persist, rel, idx, work, reads, acked, interrupted>>
  BY DEF vars
<1>1. TypeOK'
  BY <1>0 DEF CrashInv, TypeOK, DiskType, ObjectType, SessionType, FlagType
<1>2. WorkOrdered' /\ SessionShape' /\ DiskKeeps' /\ MemoryKeeps' /\ AckedRowsKept'
  BY <1>0 DEF CrashInv, WorkOrdered, SessionShape, DiskKeeps, MemoryKeeps, AckedRowsKept, Pending, ToDo
<1> QED
  BY <1>1, <1>2 DEF CrashInv

(* A statement in progress *)
LEMMA Busy ==
    ASSUME CrashInv, session = "up", work # <<>>
    PROVE  /\ rel \in Relations /\ rel # None /\ eager = TRUE /\ rel.eager = TRUE
           /\ rel.table \in Seq(Rows) /\ rel.persist \in BOOLEAN /\ acked \subseteq RowsOf(rel.table)
           /\ work[1] \in Steps
           /\ rel.persist => disk.meta # None \/ work[1] = O("meta")
           /\ work[1].do \in {"open", "write"} => rel.persist
           /\ work[1].do \in {"indexPersist", "appendRows"} => idx # None /\ idx \in Indexes /\ Tail(work) = <<>>
<1>0. TypeOK /\ ObjectType /\ FlagType /\ WorkOrdered /\ SessionShape /\ MemoryKeeps
  BY DEF CrashInv, TypeOK
<1>1. Len(work) \in Nat \ {0} /\ DOMAIN work = 1 .. Len(work) /\ 1 \in DOMAIN work /\ work[1] \in Steps
      /\ Tail(work) \in Seq(Steps) /\ Len(Tail(work)) = Len(work) - 1
  BY <1>0, WorkFacts
<1>2. rel \in Relations /\ rel # None /\ eager = TRUE /\ rel.eager = TRUE
  BY <1>0 DEF ObjectType, FlagType, WorkOrdered, SessionShape
<1>3. rel.table \in Seq(Rows) /\ rel.persist \in BOOLEAN
  BY <1>2 DEF Relations
<1>4. acked \subseteq RowsOf(rel.table)
  BY <1>0, <1>2 DEF MemoryKeeps
<1>5. rel.persist => disk.meta # None \/ work[1] = O("meta")
  BY <1>0 DEF WorkOrdered, O
<1>6. /\ work[1].do \in {"open", "write"} => rel.persist
      /\ work[1].do \in {"indexPersist", "appendRows"} => idx # None /\ 1 = Len(work)
  BY <1>0, <1>1 DEF WorkOrdered
<1>7. idx # None => idx \in Indexes
  BY <1>0 DEF ObjectType
<1>8. 1 = Len(work) => Tail(work) = <<>>
  <2> DEFINE m == Len(work)
             n == Len(Tail(work))
  <2>1. Tail(work) # <<>> => n \in Nat \ {0}
    BY <1>1, EmptySeq
  <2>2. m \in Nat /\ n = m - 1
    BY <1>1
  <2> HIDE DEF m, n
  <2>3. 1 = m => n = 0
    BY <2>2
  <2>4. 1 = m => Tail(work) = <<>>
    BY <2>1, <2>3
  <2> QED
    BY <2>4 DEF m
<1> QED
  BY <1>1, <1>2, <1>3, <1>4, <1>5, <1>6, <1>7, <1>8

(* What a statement that has done its first step has left *)
TailKeeps(w) ==
    /\ w \in Seq(Steps)
    /\ \A i \in DOMAIN w :
          /\ w[i].do = "open" => i + 1 \in DOMAIN w /\ w[i + 1] = [do |-> "write", file |-> w[i].file]
          /\ w[i].do \in {"open", "write"} => rel.persist
          /\ w[i].do \in {"indexPersist", "appendRows"} \/ w[i].file = "index" => idx # None
          /\ w[i].do \in {"indexPersist", "appendRows"} => i = Len(w)
    /\ \A f : Pending(f) => work[1] = W(f) \/ \E i \in DOMAIN w : w[i] = W(f)
    /\ \A d : ToDo(d) => work[1].do = d \/ \E i \in DOMAIN w : w[i].do = d
    /\ work[1].do = "open" => \E i \in DOMAIN w : w[i] = W(work[1].file)

LEMMA TailLeft == ASSUME CrashInv, session = "up", work # <<>> PROVE TailKeeps(Tail(work))
<1>0. TypeOK /\ WorkOrdered
  BY DEF CrashInv
<1> DEFINE w == Tail(work)
<1>1. /\ Len(work) \in Nat \ {0} /\ DOMAIN work = 1 .. Len(work)
      /\ w \in Seq(Steps) /\ DOMAIN w = 1 .. Len(work) - 1 /\ Len(w) = Len(work) - 1
      /\ \A i \in 1 .. Len(work) - 1 : w[i] = work[i + 1]
  BY <1>0, WorkFacts
<1> HIDE DEF w
<1>2. ASSUME NEW i \in DOMAIN w
      PROVE  /\ w[i].do = "open" => i + 1 \in DOMAIN w /\ w[i + 1] = [do |-> "write", file |-> w[i].file]
             /\ w[i].do \in {"open", "write"} => rel.persist
             /\ w[i].do \in {"indexPersist", "appendRows"} \/ w[i].file = "index" => idx # None
             /\ w[i].do \in {"indexPersist", "appendRows"} => i = Len(w)
  <2>1. i \in Nat /\ i + 1 \in DOMAIN work /\ w[i] = work[i + 1]
    BY <1>1
  <2>2. w[i].do = "open" => i + 2 \in DOMAIN work /\ work[i + 2] = [do |-> "write", file |-> w[i].file]
    <3>1. w[i].do = "open" =>
            (i + 1) + 1 \in DOMAIN work /\ work[(i + 1) + 1] = [do |-> "write", file |-> w[i].file]
      BY <1>0, <2>1 DEF WorkOrdered
    <3>2. (i + 1) + 1 = i + 2
      BY <2>1
    <3> QED
      BY <3>1, <3>2
  <2>3. w[i].do = "open" => i + 1 \in DOMAIN w /\ w[i + 1] = work[i + 2]
    BY <1>1, <2>1, <2>2
  <2>4. /\ w[i].do \in {"open", "write"} => rel.persist
        /\ w[i].do \in {"indexPersist", "appendRows"} \/ w[i].file = "index" => idx # None
        /\ w[i].do \in {"indexPersist", "appendRows"} => i + 1 = Len(work)
    BY <1>0, <2>1 DEF WorkOrdered
  <2> QED
    BY <1>1, <2>1, <2>2, <2>3, <2>4
<1>3. ASSUME NEW i \in DOMAIN work, i # 1 PROVE i - 1 \in DOMAIN w /\ w[i - 1] = work[i]
  BY <1>1, <1>3
<1>4. \A f : Pending(f) => work[1] = W(f) \/ \E i \in DOMAIN w : w[i] = W(f)
  BY <1>3 DEF Pending, W
<1>5. \A d : ToDo(d) => work[1].do = d \/ \E i \in DOMAIN w : w[i].do = d
  BY <1>3 DEF ToDo
<1>6. work[1].do = "open" => \E i \in DOMAIN w : w[i] = W(work[1].file)
  <2>1. work[1].do = "open" => 2 \in DOMAIN work /\ work[2] = W(work[1].file)
    BY <1>0, <1>1 DEF WorkOrdered, W
  <2> QED
    BY <2>1, <1>3
<1>7. TailKeeps(w)
  BY <1>1, <1>2, <1>4, <1>5, <1>6 DEF TailKeeps
<1> QED
  BY <1>7 DEF w

(* A step of a statement in progress keeps the rows if it keeps the table and *)
(* leaves a data file that is cut off, as it was, or the table.               *)
LEMMA Progress ==
    ASSUME CrashInv, session = "up", work # <<>>, UNCHANGED <<session, eager, persist, reads, interrupted>>,
           Proceed(work'),
           rel' \in Relations, rel'.table = rel.table, rel'.persist = rel.persist, rel'.eager = rel.eager,
           rel.persist => Pending("data")' \/ disk'.data = rel.table,
           rel.persist => disk'.meta # None,
           disk' = disk \/ disk'.meta # None,
           disk'.data \in {Torn, disk.data, rel.table}
    PROVE  SessionType' /\ FlagType' /\ DiskKeeps' /\ MemoryKeeps' /\ AckedRowsKept'
<1>0. SessionType /\ FlagType /\ DiskKeeps
  BY DEF CrashInv, TypeOK
<1>1. /\ rel # None /\ eager = TRUE /\ rel.eager = TRUE /\ rel.table \in Seq(Rows)
      /\ rel.persist \in BOOLEAN /\ acked \subseteq RowsOf(rel.table)
  BY Busy
<1>2. acked' = IF work' = <<>> /\ rel.persist THEN acked \cup RowsOf(rel.table) ELSE acked
  BY DEF Proceed
<1>3. acked' \subseteq RowsOf(rel.table) /\ RowsOf(rel.table) \subseteq Rows
  BY <1>1, <1>2 DEF RowsOf
<1>4. SessionType'
  BY <1>0, <1>3 DEF SessionType
<1>5. FlagType'
  BY <1>0 DEF FlagType
<1>6. MemoryKeeps' /\ AckedRowsKept'
  BY <1>1, <1>3 DEF MemoryKeeps, AckedRowsKept
<1>7. DiskKeeps'
  <2>1. disk'.meta = None => disk' = disk
    OBVIOUS
  <2>2. disk'.meta = None => disk'.data = None /\ disk'.sample = None /\ disk'.index = None
    BY <1>0, <2>1 DEF DiskKeeps
  <2>3. CASE work' = <<>> /\ rel.persist
    <3>1. disk'.data = rel.table
      BY <2>3 DEF Pending
    <3>2. disk'.data # None
      BY <1>1, <3>1, NoValue
    <3> QED
      BY <1>3, <2>2, <3>1, <3>2 DEF DiskKeeps
  <2>4. CASE ~(work' = <<>> /\ rel.persist)
    <3>1. acked' = acked
      BY <1>2, <2>4
    <3>2. disk'.data = None => acked = {}
      BY <1>0, <1>1, NoValue DEF DiskKeeps
    <3>3. disk'.data \notin {None, Torn} => acked \subseteq RowsOf(disk'.data)
      BY <1>0, <1>1 DEF DiskKeeps
    <3> QED
      BY <2>2, <3>1, <3>2, <3>3 DEF DiskKeeps
  <2> QED
    BY <2>3, <2>4
<1> QED
  BY <1>4, <1>5, <1>6, <1>7

(* Opening or writing a file: f is the file, c its new content *)
LEMMA FileStepCrash ==
    ASSUME CrashInv, session = "up", work # <<>>, NEW f \in Files, work[1] \in {O(f), W(f)}, NEW c,
           disk' = [disk EXCEPT ![f] = c], DiskType',
           f = "meta" => c # None,
           f = "data" => c = IF work[1] = O(f) THEN Torn ELSE rel.table,
           Proceed(Tail(work)), UNCHANGED <<session, eager, persist, rel, idx, reads, interrupted>>
    PROVE  CrashInv'
<1>0. /\ DiskType /\ ObjectType /\ SessionShape /\ DiskKeeps /\ MemoryKeeps
  BY DEF CrashInv, TypeOK
<1>1. /\ rel \in Relations /\ rel # None /\ eager = TRUE /\ rel.eager = TRUE
      /\ rel.persist => disk.meta # None \/ work[1] = O("meta")
      /\ work[1].do \in {"open", "write"} => rel.persist
  BY Busy
<1>2. rel.persist /\ (work[1].do = "open" <=> work[1] = O(f)) /\ work[1].file = f
      /\ (work[1] = O("meta") => f = "meta")
  BY <1>1, StepFields
<1>3. TailKeeps(Tail(work))
  BY TailLeft
<1>4. work' = Tail(work) /\ Proceed(work')
  BY DEF Proceed
<1>5. /\ disk'.meta = IF f = "meta" THEN c ELSE disk.meta
      /\ disk'.data = IF f = "data" THEN c ELSE disk.data
  BY <1>0 DEF DiskType, Files
<1>6. disk'.meta # None
  BY <1>1, <1>2, <1>5
<1>7. Pending("data")' \/ disk'.data = rel.table
  <2>1. CASE f = "data" /\ work[1] = O(f)
    BY <1>2, <1>3, <1>4, <2>1 DEF TailKeeps, Pending, W
  <2>2. CASE f = "data" /\ work[1] # O(f)
    BY <1>5, <2>2
  <2>3. CASE f # "data"
    <3>1. Pending("data") \/ disk.data = rel.table
      BY <1>0, <1>1, <1>2 DEF MemoryKeeps
    <3>2. work[1] # W("data")
      BY <2>3, StepFields
    <3>3. Pending("data") => Pending("data")'
      BY <1>3, <1>4, <3>2 DEF TailKeeps, Pending, W
    <3> QED
      BY <1>5, <2>3, <3>1, <3>3
  <2> QED
    BY <2>1, <2>2, <2>3
<1>8. disk'.data \in {Torn, disk.data, rel.table}
  BY <1>5
<1>9. SessionType' /\ FlagType' /\ DiskKeeps' /\ MemoryKeeps' /\ AckedRowsKept'
  BY <1>1, <1>4, <1>6, <1>7, <1>8, Progress
<1>10. TypeOK'
  <2>1. ObjectType'
    BY <1>0, <1>3, <1>4 DEF ObjectType, TailKeeps
  <2> QED
    BY <1>9, <2>1 DEF TypeOK
<1>11. WorkOrdered'
  BY <1>1, <1>3, <1>4, <1>6 DEF WorkOrdered, TailKeeps
<1>12. SessionShape'
  <2>1. ToDo("indexPersist") => ToDo("indexPersist")'
    BY <1>3, <1>4, StepFields DEF TailKeeps, ToDo
  <2> QED
    BY <1>0, <1>1, <1>2, <1>6, <2>1 DEF SessionShape
<1> QED
  BY <1>9, <1>10, <1>11, <1>12 DEF CrashInv

(* The first step of the running statement *)
LEMMA FirstStep ==
    ASSUME CrashInv, session = "up", work # <<>>
    PROVE  /\ Head(work) = work[1]
           /\ work[1].do = "open" => \E f \in Files : work[1] = O(f)
           /\ work[1].do = "write" => \E f \in Files : work[1] = W(f)
           /\ work[1].do = "indexPersist" => work[1] = IP
           /\ work[1].do = "appendRows" => \E r \in Rows : work[1] = AR(r)
<1>1. TypeOK
  BY DEF CrashInv
<1>2. Head(work) = work[1] /\ work[1] \in Steps
  BY <1>1, WorkFacts
<1> QED
  BY <1>2, StepCases, StepFields

LEMMA OpenFileCrash == ASSUME CrashInv, OpenFile, UNCHANGED interrupted PROVE CrashInv'
<1>1. session = "up" /\ work # <<>> /\ Head(work) = work[1] /\ work[1].do = "open"
  BY FirstStep DEF OpenFile, Doing
<1>2. PICK f \in Files : work[1] = O(f)
  BY <1>1, FirstStep
<1>3. work[1].file = f
  BY <1>2, StepFields
<1>4. PICK c \in {Torn, [rows |-> Unset, pk |-> FALSE]} :
         disk' = [disk EXCEPT ![f] = c] /\ (f # "meta" => c = Torn)
  BY <1>1, <1>3 DEF OpenFile
<1>5. f = "meta" => c # None
  BY NoValue DEF Metas
<1>6. DiskType'
  <2>1. DiskType
    BY DEF CrashInv, TypeOK
  <2>2. c \in {Torn} \cup Metas
    <3>1. ASSUME NEW b \in BOOLEAN PROVE [rows |-> Unset, pk |-> b] \in Metas
      BY DEF Metas
    <3>2. [rows |-> Unset, pk |-> FALSE] \in Metas
      BY <3>1
    <3> QED
      BY <3>2
  <2> QED
    BY <1>4, <2>1, <2>2 DEF DiskType, Files
<1>7. Proceed(Tail(work)) /\ UNCHANGED <<session, eager, persist, rel, idx, reads>>
  BY DEF OpenFile
<1> QED
  BY <1>1, <1>2, <1>4, <1>5, <1>6, <1>7, FileStepCrash

LEMMA WriteFileCrash == ASSUME CrashInv, WriteFile, UNCHANGED interrupted PROVE CrashInv'
<1>1. session = "up" /\ work # <<>> /\ Head(work) = work[1] /\ work[1].do = "write"
  BY FirstStep DEF WriteFile, Doing
<1>2. PICK f \in Files : work[1] = W(f)
  BY <1>1, FirstStep
<1>3. work[1].file = f /\ work[1] # O(f)
  BY <1>2, StepFields
<1> DEFINE c == CASE f = "meta" -> [rows |-> rel.numRows, pk |-> idx # None]
                  [] f = "data" -> rel.table
                  [] f = "sample" -> "rows"
                  [] f = "index" -> idx.hash
<1>4. disk' = [disk EXCEPT ![f] = c]
  BY <1>1, <1>3 DEF WriteFile
<1>5. /\ f = "meta" => c = [rows |-> rel.numRows, pk |-> idx # None]
      /\ f = "data" => c = rel.table
      /\ f = "sample" => c = "rows"
      /\ f = "index" => c = idx.hash
  OBVIOUS
<1> HIDE DEF c
<1>6. rel \in Relations /\ rel.numRows \in Nat \cup {Unset} /\ rel.table \in Seq(Rows)
  BY <1>1, Busy DEF Relations
<1>7. f = "index" => idx.hash \in Seq(Hashes) \cup {None}
  <2>1. TypeOK /\ WorkOrdered
    BY DEF CrashInv
  <2>2. 1 \in DOMAIN work
    BY <1>1, <2>1, WorkFacts
  <2>3. f = "index" => idx # None
    BY <1>3, <2>1, <2>2 DEF WorkOrdered
  <2> QED
    BY <2>1, <2>3 DEF TypeOK, ObjectType, Indexes
<1>8. f = "meta" => c \in Metas
  <2>1. ASSUME NEW b \in BOOLEAN PROVE [rows |-> rel.numRows, pk |-> b] \in Metas
    BY <1>6 DEF Metas
  <2>2. (idx # None) \in BOOLEAN
    OBVIOUS
  <2>3. [rows |-> rel.numRows, pk |-> idx # None] \in Metas
    BY <2>1, <2>2
  <2> QED
    BY <1>5, <2>3
<1>9. f = "meta" => c # None
  BY <1>8, NoValue
<1>10. DiskType'
  <2>1. DiskType
    BY DEF CrashInv, TypeOK
  <2> QED
    BY <1>4, <1>5, <1>6, <1>7, <1>8, <2>1 DEF DiskType, Files
<1>11. Proceed(Tail(work)) /\ UNCHANGED <<session, eager, persist, rel, idx, reads>>
  BY DEF WriteFile
<1>12. f = "data" => c = IF work[1] = O(f) THEN Torn ELSE rel.table
  BY <1>3, <1>5
<1> QED
  BY <1>1, <1>2, <1>4, <1>9, <1>10, <1>11, <1>12, FileStepCrash

(* A step of the index, which is a statement's last but for the index file *)
IndexFile(p) == IF p THEN <<O("index"), W("index")>> ELSE <<>>

LEMMA IndexSteps ==
    ASSUME NEW p \in BOOLEAN
    PROVE  /\ (IF p THEN rewrite("index") ELSE <<>>) \o <<>> = IndexFile(p)
           /\ IndexFile(p) \in Seq(Steps) /\ (IndexFile(p) = <<>> <=> ~p)
           /\ \A i \in DOMAIN IndexFile(p) :
                 /\ p /\ IndexFile(p)[i].do \in {"open", "write"}
                 /\ IndexFile(p)[i].do = "open" => 
                       i + 1 \in DOMAIN IndexFile(p) /\ IndexFile(p)[i + 1] = [do |-> "write", file |-> IndexFile(p)[i].file]
           /\ p => \E i \in DOMAIN IndexFile(p) : IndexFile(p)[i] = W("index")
<1>1. rewrite("index") = <<O("index"), W("index")>>
  BY DEF rewrite, O, W
<1>2. \A a, b : <<a, b>> \o <<>> = <<a, b>>
  OBVIOUS
<1>3. CASE p
  <2> DEFINE w == <<O("index"), W("index")>>
  <2>1. O("index") \in Steps /\ W("index") \in Steps
    BY StepTypes DEF Files
  <2>2. w \in Seq(Steps) /\ w # <<>> /\ DOMAIN w = {1, 2} /\ w[1] = O("index") /\ w[2] = W("index")
    BY <2>1
  <2>3. IndexFile(p) = w
    BY <1>3 DEF IndexFile
  <2>4. (IF p THEN rewrite("index") ELSE <<>>) \o <<>> = w
    BY <1>1, <1>2, <1>3
  <2> HIDE DEF w
  <2>5. \A i \in DOMAIN w :
           /\ w[i].do \in {"open", "write"}
           /\ w[i].do = "open" => i + 1 \in DOMAIN w /\ w[i + 1] = [do |-> "write", file |-> w[i].file]
    <3>1. W("index") = [do |-> "write", file |-> "index"]
      BY DEF W
    <3> QED
      BY <2>2, <3>1, StepFields
  <2>6. \E i \in DOMAIN w : w[i] = W("index")
    BY <2>2
  <2> QED
    BY <1>3, <2>2, <2>3, <2>4, <2>5, <2>6
<1>4. CASE ~p
  <2>1. IndexFile(p) = <<>> /\ <<>> \in Seq(Steps) /\ <<>> \o <<>> = <<>> /\ DOMAIN <<>> = {}
    BY <1>4 DEF IndexFile
  <2>2. (IF p THEN rewrite("index") ELSE <<>>) \o <<>> = <<>>
    BY <1>4, <2>1
  <2> QED
    BY <1>4, <2>1, <2>2
<1> QED
  BY <1>3, <1>4

LEMMA IndexStepCrash ==
    ASSUME CrashInv, session = "up", work # <<>>, work[1].do \in {"indexPersist", "appendRows"},
           NEW p \in BOOLEAN, p => rel.persist,
           idx' \in Indexes, idx'.persist => rel.persist, Proceed(IndexFile(p)),
           rel' \in Relations, rel'.table = rel.table, rel'.persist = rel.persist, rel'.eager = rel.eager,
           UNCHANGED <<disk, session, eager, persist, reads, interrupted>>
    PROVE  CrashInv'
<1>0. DiskType /\ SessionShape /\ MemoryKeeps
  BY DEF CrashInv, TypeOK
<1>1. /\ rel # None /\ eager = TRUE /\ rel.eager = TRUE /\ rel.persist \in BOOLEAN
      /\ rel.persist => disk.meta # None \/ work[1] = O("meta")
      /\ idx # None /\ Tail(work) = <<>>
  BY Busy
<1>2. rel.persist => disk'.meta # None
  BY <1>1, StepFields
<1>3. work' = IndexFile(p) /\ Proceed(work')
  BY DEF Proceed
<1>4. rel.persist => disk'.data = rel.table
  <2>1. TailKeeps(<<>>)
    BY <1>1, TailLeft
  <2>2. ~Pending("data")
    BY <2>1, StepFields DEF TailKeeps
  <2> QED
    BY <1>0, <1>1, <2>2 DEF MemoryKeeps
<1>5. SessionType' /\ FlagType' /\ DiskKeeps' /\ MemoryKeeps' /\ AckedRowsKept'
  BY <1>2, <1>3, <1>4, Progress
<1>6. rel' # None /\ idx' # None
  BY NoValue
<1>7. TypeOK'
  <2>1. DiskType'
    BY <1>0 DEF DiskType
  <2>2. ObjectType'
    BY <1>3, IndexSteps DEF ObjectType
  <2> QED
    BY <1>5, <2>1, <2>2 DEF TypeOK
<1>8. WorkOrdered'
  BY <1>1, <1>2, <1>3, <1>6, IndexSteps DEF WorkOrdered
<1>9. SessionShape'
  BY <1>1, <1>2, <1>6 DEF SessionShape
<1> QED
  BY <1>5, <1>7, <1>8, <1>9 DEF CrashInv

(* A failure leaves everything as it is *)
LEMMA FailureCrash ==
    ASSUME CrashInv, session = "up", work # <<>>, session' = "failed", 
           UNCHANGED <<disk, eager, persist, rel, work, reads, acked, interrupted>>,
           idx' \in Indexes, idx # None, idx'.persist => rel.persist \/ ToDo("indexPersist")
    PROVE  CrashInv'
<1>0. /\ DiskType /\ ObjectType /\ SessionType /\ FlagType /\ WorkOrdered /\ SessionShape /\ DiskKeeps
  BY DEF CrashInv, TypeOK
<1>1. DiskType' /\ ObjectType' /\ SessionType' /\ FlagType'
  BY <1>0 DEF DiskType, ObjectType, SessionType, FlagType
<1>2. idx' # None /\ rel # None
  BY NoValue, Busy
<1>3. WorkOrdered'
  BY <1>0, <1>2 DEF WorkOrdered
<1>4. SessionShape' /\ DiskKeeps' /\ MemoryKeeps' /\ AckedRowsKept'
  BY <1>0, <1>2 DEF SessionShape, DiskKeeps, MemoryKeeps, AckedRowsKept, ToDo
<1> QED
  BY <1>1, <1>3, <1>4 DEF CrashInv, TypeOK

LEMMA IndexPersistCrash == ASSUME CrashInv, IndexPersist, UNCHANGED interrupted PROVE CrashInv'
<1>1. session = "up" /\ work # <<>> /\ Head(work) = work[1] /\ work[1].do = "indexPersist"
  BY FirstStep DEF IndexPersist, Doing
<1>2. rel \in Relations /\ idx # None /\ idx \in Indexes /\ Tail(work) = <<>> /\ rel.persist \in BOOLEAN
  BY <1>1, Busy
<1>3. idx' = [idx EXCEPT !.persist = rel.persist]
  BY DEF IndexPersist
<1>4. idx' \in Indexes /\ idx'.persist = rel.persist
  BY <1>2, <1>3 DEF Indexes
<1>5. UNCHANGED <<disk, eager, persist, reads>>
  BY DEF IndexPersist
<1>6. CASE rel.persist /\ idx.hash = None
  <2>1. session' = "failed" /\ UNCHANGED <<work, acked, rel>>
    BY <1>6 DEF IndexPersist
  <2> QED
    BY <1>1, <1>2, <1>4, <1>5, <2>1, FailureCrash
<1>7. CASE ~(rel.persist /\ idx.hash = None)
  <2>1. Proceed((IF rel.persist THEN rewrite("index") ELSE <<>>) \o <<>>) /\ UNCHANGED <<session, rel>>
    BY <1>2, <1>7 DEF IndexPersist
  <2>2. Proceed(IndexFile(rel.persist))
    BY <1>2, <2>1, IndexSteps
  <2> QED
    BY <1>1, <1>2, <1>4, <1>5, <2>1, <2>2, IndexStepCrash
<1> QED
  BY <1>6, <1>7

(* An index of a larger table *)
LEMMA HashTypes ==
    ASSUME NEW t \in Seq(Rows)
    PROVE  /\ computeHashes(t) \in Seq(Hashes)
           /\ build(t, computeHashes(t), Junk) \in SUBSET ((Hashes \cup {Junk}) \X Rows)
<1>1. computeHashes(t) \in Seq(Hashes)
  BY StorageAssumption DEF computeHashes
<1> QED
  BY <1>1 DEF build

LEMMA AppendRowsCrash == ASSUME CrashInv, AppendRows, UNCHANGED interrupted PROVE CrashInv'
<1>1. session = "up" /\ work # <<>> /\ Head(work) = work[1] /\ work[1].do = "appendRows"
  BY FirstStep DEF AppendRows, Doing
<1>2. /\ rel \in Relations /\ idx # None /\ idx \in Indexes /\ Tail(work) = <<>>
      /\ rel.persist \in BOOLEAN /\ idx.persist \in BOOLEAN
  BY <1>1, Busy DEF Indexes
<1>3. idx.persist => rel.persist
  <2>1. TailKeeps(<<>>) /\ SessionShape
    BY <1>1, <1>2, TailLeft DEF CrashInv
  <2>2. ~ToDo("indexPersist")
    BY <1>1, <2>1 DEF TailKeeps
  <2> QED
    BY <1>2, <2>1, <2>2 DEF SessionShape
<1>4. UNCHANGED <<disk, eager, persist, reads>>
  BY DEF AppendRows
<1>5. CASE idx.table = None
  <2>1. session' = "failed" /\ UNCHANGED <<idx, rel, work, acked>>
    BY <1>5 DEF AppendRows
  <2> QED
    BY <1>1, <1>2, <1>3, <1>4, <2>1, FailureCrash
<1>6. CASE idx.table # None
  <2>1. PICK r \in Rows : work[1] = AR(r)
    BY <1>1, FirstStep
  <2>2. idx.table \in Seq(Rows)
    BY <1>2, <1>6 DEF Indexes
  <2> DEFINE t == Append(idx.table, r)
  <2>3. t \in Seq(Rows) /\ Len(t) \in Nat
    BY <2>2
  <2>4. /\ idx' = [idx EXCEPT !.table = t, !.hash = computeHashes(t), !.built = build(t, computeHashes(t), Junk)]
        /\ rel' = [rel EXCEPT !.numRows = Len(t)]
        /\ Proceed((IF idx.persist THEN rewrite("index") ELSE <<>>) \o <<>>) /\ UNCHANGED session
    <3>1. Head(work).file = r
      BY <1>1, <2>1, StepFields
    <3> QED
      BY <1>2, <1>6, <3>1, Zenon DEF AppendRows
  <2> HIDE DEF t
  <2>5. idx' \in Indexes /\ idx'.persist = idx.persist
    BY <1>2, <2>3, <2>4, HashTypes DEF Indexes
  <2>6. rel' \in Relations /\ rel'.table = rel.table /\ rel'.persist = rel.persist /\ rel'.eager = rel.eager
    BY <1>2, <2>3, <2>4 DEF Relations
  <2>7. Proceed(IndexFile(idx.persist))
    BY <1>2, <2>4, IndexSteps
  <2> QED
    BY <1>1, <1>2, <1>3, <1>4, <2>4, <2>5, <2>6, <2>7, IndexStepCrash
<1> QED
  BY <1>5, <1>6

LEMMA NextCrash == ASSUME ~LazyWrites, CrashInv, [Next]_vars PROVE CrashInv'
<1>1. CASE Statement /\ UNCHANGED interrupted
  BY <1>1, OpenCrash, OpenFailsCrash, CreateTableCrash, SetPersistCrash, InsertCrash, QueryCrash, QueryFailsCrash,
     OpenFileCrash, WriteFileCrash, IndexPersistCrash, AppendRowsCrash DEF Statement
<1> QED
  BY <1>1, KillCrash, StutterCrash DEF Next

(* Files, objects and pending steps always have the shapes the code gives them, *)
(* whatever is killed when.                                                    *)
THEOREM StorageTypes == ASSUME ~LazyWrites PROVE Spec => []TypeOK
<1>1. CrashInv => TypeOK
  BY DEF CrashInv
<1> QED
  BY <1>1, InitCrashInv, NextCrash, PTL DEF Spec

(* Kills at any moment, failed statements and restarts never lose a row of a   *)
(* statement that completed while persist was set (DBRelation::append and      *)
(* flush): whenever the relation is loaded again, the row is in its table.     *)
THEOREM RowsSurvive == ASSUME ~LazyWrites PROVE Spec => []AckedRowsKept
<1>1. CrashInv => AckedRowsKept
  BY DEF CrashInv
<1> QED
  BY <1>1, InitCrashInv, NextCrash, PTL DEF Spec

-----------------------------------------------------------------------------
(* As long as no statement was cut off *)

(* Without a hash beyond the end of the array, no junk is read *)
LEMMA BuildIsIndex ==
    ASSUME NEW t \in Seq(Rows), NEW junk
    PROVE  build(t, computeHashes(t), junk) = {<<Hash[r], r>> : r \in RowsOf(t)}
<1>1. DOMAIN computeHashes(t) = DOMAIN t /\ \A i \in DOMAIN t : computeHashes(t)[i] = Hash[t[i]]
  BY DEF computeHashes
<1>2. build(t, computeHashes(t), junk) = {<<Hash[t[i]], t[i]>> : i \in DOMAIN t}
  BY <1>1 DEF build
<1> QED
  BY <1>2 DEF RowsOf

LEMMA InitClean == Init => CleanInv
BY DEF Init, CleanInv, CleanDisk, CleanMemory, CleanIndex, CleanWork

(* What CleanDisk says of the files when they are not being written *)
LEMMA DiskIsClean ==
    ASSUME CleanInv, ~interrupted, disk.meta # None, work = <<>> \/ rel = None \/ ~rel.persist
    PROVE  /\ disk.meta \in Metas /\ disk.meta.rows = Len(disk.data) /\ disk.data \in Seq(Rows)
           /\ disk.data # None
           /\ disk.meta.pk => disk.index = computeHashes(disk.data) /\ disk.index # None
           /\ ~disk.meta.pk => disk.index = None
<1>1. /\ disk.meta \in Metas /\ disk.data \in Seq(Rows) /\ disk.meta.rows = Len(disk.data)
      /\ disk.index = IF disk.meta.pk THEN computeHashes(disk.data) ELSE None
  BY DEF CleanInv, CleanDisk
<1>2. computeHashes(disk.data) \in Seq(Hashes)
  BY <1>1, HashTypes
<1> QED
  BY <1>1, <1>2, NoValue

LEMMA OpenClean ==
    ASSUME CrashInv, CleanInv, NEW e \in BOOLEAN, Open(e), UNCHANGED interrupted
    PROVE  CleanInv'
<1>0. session = "down" /\ work = <<>> /\ rel = None
  BY DEF Open, CrashInv, WorkOrdered, SessionShape
<1>u. /\ work' = <<>> /\ session' = "up" /\ disk' = disk /\ interrupted' = interrupted
  BY DEF Open
<1>1. CASE interrupted
  BY <1>1, <1>u DEF CleanInv, CleanDisk, CleanMemory, CleanIndex, CleanWork
<1>2. CASE ~interrupted /\ disk.meta = None
  <2>1. rel' = None /\ idx' = None
    BY <1>2 DEF Open
  <2> QED
    BY <1>2, <1>u, <2>1 DEF CleanInv, CleanDisk, CleanMemory, CleanIndex, CleanWork
<1>3. CASE ~interrupted /\ disk.meta # None
  <2>0. /\ disk.meta \in Metas /\ disk.meta.rows = Len(disk.data) /\ disk.data \in Seq(Rows)
        /\ disk.data # None
        /\ disk.meta.pk => disk.index = computeHashes(disk.data) /\ disk.index # None
        /\ ~disk.meta.pk => disk.index = None
    BY <1>0, <1>3, DiskIsClean
  <2> DEFINE t == IF e /\ disk.data # None THEN disk.data ELSE <<>>
  <2>1. e => t = disk.data
    BY <2>0
  <2>2. /\ rel'.table = t /\ rel'.persist = FALSE /\ rel'.eager = e
        /\ rel'.numRows = IF e /\ disk.meta.pk THEN countedRows(t, disk.meta.rows) ELSE disk.meta.rows
    BY <1>3 DEF Open
  <2> HIDE DEF t
  <2>3. rel'.numRows = Len(disk.data)
    BY <2>0, <2>1, <2>2 DEF countedRows
  <2>4. CleanDisk'
    BY <1>u, <2>0 DEF CleanDisk, computeHashes
  <2>5. CleanWork'
    BY <2>2 DEF CleanWork
  <2>6. CASE disk.meta.pk /\ e
    <3>1. PICK junk \in Hashes \cup {Junk} : idx' = ensureLoaded(t, FALSE, junk)
      BY <1>3, <2>6 DEF Open, t
    <3>2. indexHashes(t) = computeHashes(t)
      BY <2>0, <2>1, <2>6 DEF indexHashes
    <3>3. idx'.table = t /\ idx'.hash = computeHashes(t) /\ idx'.built = build(t, computeHashes(t), junk)
      BY <3>1, <3>2 DEF ensureLoaded
    <3>4. t \in Seq(Rows) /\ t # None
      BY <2>0, <2>1, <2>6
    <3>5. build(t, computeHashes(t), junk) = build(t, computeHashes(t), Junk)
      BY <3>4, BuildIsIndex
    <3>6. idx' # None
      <4>1. ensureLoaded(t, FALSE, junk) \in Indexes
        BY <2>0, <2>6, <3>4, HashTypes, EnsureLoadedType
      <4> QED
        BY <3>1, <4>1, NoValue
    <3>7. ~ToDo("appendRows")'
      BY <1>u DEF ToDo
    <3>8. CleanMemory'
      BY <1>3, <1>u, <2>0, <2>1, <2>2, <2>3, <2>6, <3>6 DEF CleanMemory
    <3>9. CleanIndex'
      BY <2>2, <2>6, <3>3, <3>4, <3>5, <3>7 DEF CleanIndex, Appended
    <3> QED
      BY <2>4, <2>5, <3>8, <3>9 DEF CleanInv
  <2>7. CASE disk.meta.pk /\ ~e
    <3>1. idx' = emptyIndex
      BY <1>3, <2>7 DEF Open
    <3>2. idx' # None /\ idx'.table = None
      <4>1. emptyIndex \in Indexes
        BY DEF emptyIndex, Indexes
      <4> QED
        BY <3>1, <4>1, NoValue DEF emptyIndex
    <3>3. ~ToDo("appendRows")'
      BY <1>u DEF ToDo
    <3>4. CleanMemory'
      BY <1>3, <1>u, <2>0, <2>2, <2>3, <2>7, <3>2 DEF CleanMemory
    <3>5. CleanIndex'
      BY <2>2, <2>7, <3>2, <3>3 DEF CleanIndex
    <3> QED
      BY <2>4, <2>5, <3>4, <3>5 DEF CleanInv
  <2>8. CASE ~disk.meta.pk
    <3>1. idx' = None
      BY <1>3, <2>8 DEF Open
    <3>2. CleanMemory'
      <4>1. disk.meta.pk = FALSE
        BY <2>0, <2>8 DEF Metas
      <4> QED
        BY <1>3, <1>u, <2>0, <2>1, <2>2, <2>3, <3>1, <4>1 DEF CleanMemory
    <3>3. CleanIndex'
      BY <3>1 DEF CleanIndex
    <3> QED
      BY <2>4, <2>5, <3>2, <3>3 DEF CleanInv
  <2> QED
    BY <2>6, <2>7, <2>8
<1> QED
  BY <1>1, <1>2, <1>3

LEMMA OpenFailsClean ==
    ASSUME CrashInv, CleanInv, NEW e \in BOOLEAN, OpenFails(e), UNCHANGED interrupted
    PROVE  CleanInv'
<1>1. /\ work' = work /\ disk' = disk /\ interrupted' = interrupted /\ rel' = rel /\ idx' = idx
      /\ rel = None /\ idx = None
  BY DEF OpenFails, CrashInv, SessionShape
<1> QED
  BY <1>1 DEF CleanInv, CleanDisk, CleanMemory, CleanIndex, CleanWork, computeHashes

LEMMA KillClean == ASSUME CrashInv, CleanInv, Kill PROVE CleanInv'
<1>1. /\ session' = "down" /\ rel' = None /\ idx' = None /\ work' = <<>>
      /\ disk' = disk /\ interrupted' = (interrupted \/ work # <<>>)
  BY DEF Kill
<1> QED
  BY <1>1 DEF CleanInv, CleanDisk, CleanMemory, CleanIndex, CleanWork, computeHashes

LEMMA QueryFailsClean == ASSUME CrashInv, CleanInv, QueryFails, UNCHANGED interrupted PROVE CleanInv'
<1>1. /\ work' = work /\ disk' = disk /\ interrupted' = interrupted /\ rel' = rel /\ idx' = idx
      /\ session # "down" /\ session' # "down"
  BY DEF QueryFails, Ready
<1> QED
  BY <1>1 DEF CleanInv, CleanDisk, CleanMemory, CleanIndex, CleanWork, Pending, ToDo, Appended, computeHashes, build

LEMMA StutterClean == ASSUME CleanInv, UNCHANGED vars PROVE CleanInv'
BY DEF vars, CleanInv, CleanDisk, CleanMemory, CleanIndex, CleanWork, Pending, ToDo, Appended, computeHashes, build

LEMMA CreateTableClean ==
    ASSUME ~LazyWrites, CrashInv, CleanInv, CreateTable, UNCHANGED interrupted
    PROVE  CleanInv'
<1>0. FlagType /\ DiskKeeps /\ SessionShape
  BY DEF CrashInv, TypeOK
<1>1. disk.meta = None /\ disk.data = None /\ disk.index = None /\ persist \in BOOLEAN /\ disk' = disk
  BY <1>0 DEF CreateTable, Ready, SessionShape, DiskKeeps, FlagType
<1>2. rel' = [table |-> <<>>, numRows |-> 0, sample |-> FALSE, persist |-> persist, eager |-> TRUE]
  BY DEF CreateTable
<1>3. rel' \in Relations
  BY <1>1, <1>2 DEF Relations
<1>4. rel'.table = <<>> /\ rel'.numRows = 0 /\ rel'.sample = FALSE /\ rel'.persist = persist /\ rel'.eager = TRUE
  BY <1>2
<1>5. ASSUME HasPk
      PROVE  /\ idx' # None /\ idx'.table = <<>> /\ idx'.hash = computeHashes(<<>>)
             /\ idx'.built = build(<<>>, computeHashes(<<>>), Junk) /\ idx'.persist = persist
  <2>1. idx' = ensureLoaded(<<>>, persist, Junk)
    BY <1>5 DEF CreateTable
  <2>2. <<>> \in Seq(Rows) /\ Junk \in Hashes \cup {Junk} /\ disk.index \in {None} \cup Seq(Hashes)
    BY <1>1
  <2>3. idx' # None
    BY <1>1, <2>1, <2>2, EnsureLoadedType, NoValue
  <2> QED
    BY <1>1, <2>1, <2>3 DEF ensureLoaded, indexHashes
<1>6. ~HasPk => idx' = None
  BY DEF CreateTable
<1>7. ASSUME persist PROVE /\ FlushList(work') /\ \A i \in DOMAIN work' : work'[i].do \in {"open", "write"}
                           /\ HasPk => \E i \in DOMAIN work' : work'[i] = W("index")
  <2>1. flush(rel') = Flushed(rel')
    BY <1>3, <1>4, <1>7, FlushSteps
  <2>2. CASE HasPk
    <3>1. work' = Flushed(rel') \o <<O("index"), W("index")>>
      BY <1>7, <2>1, <2>2 DEF CreateTable, rewrite, O, W
    <3> QED
      BY <3>1, <1>3, <1>4, FlushAndIndex
  <2>3. CASE ~HasPk
    <3>1. work' = Flushed(rel')
      BY <1>7, <2>1, <2>3, FlushNoMore DEF CreateTable
    <3> QED
      BY <3>1, <1>3, <2>3, FlushAlone
  <2> QED
    BY <2>2, <2>3
<1>8. ~ToDo("appendRows")'
  <2>1. CASE persist
    BY <2>1, <1>7 DEF ToDo
  <2>2. CASE ~persist
    <3>1. flush(rel') = <<>>
      BY <1>3, <1>4, <2>2, FlushSteps
    <3>2. work' = <<>>
      BY <2>2, <3>1 DEF CreateTable
    <3> QED
      BY <3>2 DEF ToDo
  <2> QED
    BY <2>1, <2>2
<1>9. CleanDisk'
  BY <1>1 DEF CleanDisk
<1>10. CleanMemory'
  BY <1>1, <1>4 DEF CleanMemory
<1>11. CleanIndex'
  <2>1. <<>> # None
    <3>1. <<>> \in Seq(Rows)
      OBVIOUS
    <3> QED
      BY <3>1, NoValue
  <2> QED
    BY <1>4, <1>5, <1>6, <1>8, <2>1 DEF CleanIndex, Appended
<1>12. CleanWork'
  <2>1. persist => Pending("meta")' /\ Pending("data")' /\ (HasPk => Pending("index")')
    BY <1>7 DEF Pending, FlushList, W
  <2> QED
    BY <1>1, <1>4, <1>6, <2>1 DEF CleanWork
<1> QED
  BY <1>9, <1>10, <1>11, <1>12 DEF CleanInv

(* Between statements the index file is that of the table a query would load *)
LEMMA FilesMatch ==
    ASSUME CrashInv, CleanInv, Ready, ~interrupted, rel # None
    PROVE  /\ rel \in Relations /\ rel.persist \in BOOLEAN
           /\ rel.persist => disk.meta = [rows |-> Len(rel.table), pk |-> idx # None] /\ disk.data = rel.table
           /\ idx = None => disk.index = None
           /\ disk.index # None => disk.index = computeHashes(loadData)
           /\ rel.eager => loadData = rel.table
           /\ ~rel.eager => loadData = disk.data /\ disk.meta # None
           /\ rel.numRows = Len(loadData)
<1>0. ObjectType /\ DiskKeeps /\ SessionShape /\ work = <<>> /\ session = "up" /\ session # "down"
  BY DEF CrashInv, TypeOK, Ready
<1>1. rel \in Relations /\ rel.persist \in BOOLEAN
  BY <1>0 DEF ObjectType, Relations
<1>2. ~rel.eager => ~rel.persist /\ rel.table \in {<<>>, disk.data} /\ disk.meta # None
  BY <1>0 DEF SessionShape
<1>3. disk.meta # None =>
          /\ disk.meta \in Metas /\ disk.meta.rows = Len(disk.data) /\ disk.data \in Seq(Rows)
          /\ disk.data # None
          /\ disk.meta.pk => disk.index = computeHashes(disk.data) /\ disk.index # None
          /\ ~disk.meta.pk => disk.index = None
  BY <1>0, DiskIsClean
<1>4. rel.eager => loadData = rel.table
  BY DEF loadData
<1>5. ~rel.eager => loadData = disk.data
  BY <1>2, <1>3 DEF loadData
<1>6. rel.numRows = Len(loadData)
  BY <1>0, <1>4, <1>5 DEF CleanInv, CleanMemory
<1>7. CASE rel.persist
  <2>1. ~Pending("meta") /\ ~Pending("data") /\ ~Pending("index") /\ ~ToDo("indexPersist") /\ ~ToDo("appendRows")
    BY <1>0 DEF Pending, ToDo
  <2>2. /\ disk.meta = [rows |-> Len(rel.table), pk |-> idx # None] /\ disk.data = rel.table
        /\ disk.index = IF idx = None THEN None ELSE computeHashes(rel.table)
    BY <1>0, <1>7, <2>1 DEF CleanInv, CleanWork
  <2> QED
    BY <1>1, <1>2, <1>4, <1>5, <1>6, <1>7, <2>2
<1>8. CASE ~rel.persist
  <2>1. disk.meta = None => disk.index = None
    BY <1>0 DEF DiskKeeps
  <2>2. disk.meta # None => disk.meta.pk = (idx # None)
    BY <1>0, <1>8 DEF CleanInv, CleanMemory
  <2>3. disk.meta # None => loadData = disk.data
    BY <1>0, <1>4, <1>5, <1>8 DEF CleanInv, CleanMemory
  <2> QED
    BY <1>1, <1>2, <1>3, <1>4, <1>5, <1>6, <1>8, <2>1, <2>2, <2>3
<1> QED
  BY <1>1, <1>7, <1>8

LEMMA SetPersistClean ==
    ASSUME ~LazyWrites, CrashInv, CleanInv, NEW v \in BOOLEAN, SetPersist(v), UNCHANGED interrupted
    PROVE  CleanInv'
<1>0. ObjectType /\ FlagType /\ SessionShape /\ Ready /\ work = <<>> /\ session = "up"
  BY DEF CrashInv, TypeOK, SetPersist, Ready
<1>1. disk' = disk /\ session' = session /\ idx' = idx /\ interrupted' = interrupted
  BY DEF SetPersist
<1>2. CASE interrupted
  BY <1>1, <1>2 DEF CleanInv, CleanDisk, CleanMemory, CleanIndex, CleanWork
<1>3. CASE rel = None
  <2>1. rel' = rel /\ work' = work /\ idx = None
    BY <1>0, <1>3 DEF SetPersist, SessionShape
  <2> QED
    BY <1>1, <1>3, <2>1 DEF CleanInv, CleanDisk, CleanMemory, CleanIndex, CleanWork, computeHashes
<1>4. CASE ~interrupted /\ rel # None
  <2>1. /\ rel \in Relations /\ rel.persist \in BOOLEAN
        /\ rel.persist => disk.meta = [rows |-> Len(rel.table), pk |-> idx # None] /\ disk.data = rel.table
        /\ idx = None => disk.index = None
    BY <1>0, <1>4, FilesMatch
  <2>2. rel' = [rel EXCEPT !.persist = v]
    BY <1>4 DEF SetPersist
  <2>3. /\ rel' \in Relations /\ rel'.persist = v /\ rel'.table = rel.table /\ rel'.eager = rel.eager
        /\ rel'.numRows = rel.numRows
    BY <2>1, <2>2 DEF Relations
  <2>4. work' = flush(rel') \o (IF idx = None THEN <<>> ELSE <<IP>>)
    BY <1>4 DEF SetPersist, IP
  <2>5. StatementSteps(work', rel', IP, idx)
    BY <2>3, <2>4, FlushWork, StepTypes, StepFields
  <2>6. rel' # None
    BY <2>3, NoValue
  <2>7. ~ToDo("appendRows")' /\ ~ToDo("appendRows")
    BY <1>0, <2>5, StepFields DEF ToDo, StatementSteps
  <2>8. v => Pending("meta")' /\ Pending("data")'
    BY <2>3, <2>5 DEF StatementSteps, FlushList, Pending, W
  <2>9. idx # None => ToDo("indexPersist")'
    BY <2>5, StepFields DEF StatementSteps, ToDo
  <2>10. CleanDisk'
    <3>1. CASE v
      <4>1. work' # <<>>
        BY <2>3, <2>5, <3>1 DEF StatementSteps, FlushList
      <4> QED
        BY <2>3, <2>6, <3>1, <4>1 DEF CleanDisk
    <3>2. CASE ~v
      BY <1>0, <1>1 DEF CleanInv, CleanDisk, computeHashes
    <3> QED
      BY <3>1, <3>2
  <2>11. CleanMemory'
    <3>1. CASE rel.persist
      <4>1. disk.meta.pk = (idx # None) /\ disk.data = rel.table
        BY <2>1, <3>1
      <4>2. disk.meta # None
        BY <1>0, <1>4, <3>1 DEF SessionShape
      <4>3. rel.numRows = Len(IF rel.eager THEN rel.table ELSE disk.data)
        BY <1>0, <1>4 DEF CleanInv, CleanMemory
      <4> QED
        BY <1>1, <2>3, <4>1, <4>2, <4>3 DEF CleanMemory
    <3>2. CASE ~rel.persist
      <4>1. /\ rel.numRows = Len(IF rel.eager THEN rel.table ELSE disk.data)
            /\ disk.meta # None => disk.meta.pk = (idx # None)
            /\ rel.eager => rel.table = IF disk.meta = None THEN <<>> ELSE disk.data
        BY <1>0, <1>4, <3>2 DEF CleanInv, CleanMemory
      <4> QED
        BY <1>1, <2>3, <4>1 DEF CleanMemory
    <3> QED
      BY <2>1, <3>1, <3>2
  <2>12. CleanIndex'
    BY <1>0, <1>1, <1>4, <2>3, <2>7, <2>9 DEF CleanInv, CleanIndex, Appended, computeHashes, build
  <2>13. CleanWork'
    BY <1>1, <2>1, <2>3, <2>8, <2>9 DEF CleanWork
  <2> QED
    BY <2>10, <2>11, <2>12, <2>13 DEF CleanInv
<1> QED
  BY <1>2, <1>3, <1>4

LEMMA InsertClean ==
    ASSUME ~LazyWrites, ~UnpersistedAppends, CrashInv, CleanInv, NEW r \in Rows, Insert(r), UNCHANGED interrupted
    PROVE  CleanInv'
<1>0. FlagType /\ SessionShape /\ Ready /\ work = <<>> /\ session = "up" /\ rel # None /\ rel.persist /\ eager
  BY DEF CrashInv, TypeOK, Insert, Ready
<1>1. disk' = disk /\ session' = session /\ idx' = idx /\ interrupted' = interrupted
  BY DEF Insert
<1>2. CASE interrupted
  BY <1>1, <1>2 DEF CleanInv, CleanDisk, CleanMemory, CleanIndex, CleanWork
<1>3. CASE ~interrupted
  <2>1. rel \in Relations /\ (idx = None => disk.index = None) /\ rel.eager
    BY <1>0, <1>3, FilesMatch DEF SessionShape
  <2> DEFINE t == Append(rel.table, r)
  <2>2. rel' = [rel EXCEPT !.table = t, !.numRows = Len(t), !.sample = TRUE]
    BY DEF Insert
  <2>3. rel.table \in Seq(Rows) /\ t \in Seq(Rows) /\ Len(t) \in Nat
    BY <2>1 DEF Relations
  <2>4. work' = flush(rel') \o (IF idx = None THEN <<>> ELSE <<AR(r)>>)
    BY DEF Insert, AR
  <2>5. /\ rel' \in Relations /\ rel'.persist = rel.persist /\ rel'.table = t /\ rel'.eager = rel.eager
        /\ rel'.numRows = Len(t)
    <3> HIDE DEF t
    <3> QED
      BY <2>1, <2>2, <2>3 DEF Relations
  <2>6. StatementSteps(work', rel', AR(r), idx)
    BY <2>4, <2>5, FlushWork, StepTypes, StepFields
  <2>7. Pending("meta")' /\ Pending("data")'
    BY <1>0, <2>5, <2>6 DEF StatementSteps, FlushList, Pending, W
  <2>8. idx # None => ToDo("appendRows")' /\ work'[Len(work')].file = r
    BY <2>6, StepFields DEF StatementSteps, ToDo
  <2>9. idx # None => idx.persist /\ idx.table # None /\ rel.table = idx.table
                      /\ idx.hash = computeHashes(idx.table) /\ idx.built = build(idx.table, idx.hash, Junk)
    BY <1>0, <1>3, <2>1 DEF CleanInv, CleanIndex, ToDo, Appended
  <2>10. CleanDisk'
    <3>1. work' # <<>> /\ rel' # None
      BY <1>0, <2>5, <2>6, NoValue DEF StatementSteps, FlushList
    <3> QED
      BY <1>0, <2>5, <3>1 DEF CleanDisk
  <2>11. CleanMemory'
    BY <1>0, <2>1, <2>5 DEF CleanMemory
  <2>12. CleanIndex'
    BY <1>0, <1>1, <2>1, <2>5, <2>8, <2>9 DEF CleanIndex, Appended, computeHashes, build
  <2>13. CleanWork'
    BY <1>1, <2>1, <2>7, <2>8 DEF CleanWork
  <2> QED
    BY <2>10, <2>11, <2>12, <2>13 DEF CleanInv
<1> QED
  BY <1>2, <1>3

LEMMA QueryClean == ASSUME CrashInv, CleanInv, Query \/ IndexQuery, UNCHANGED interrupted PROVE CleanInv'
<1>0. /\ FlagType /\ SessionShape /\ Ready /\ work = <<>> /\ session = "up" /\ session # "down" /\ rel # None
      /\ loadData # Torn /\ ObjectType /\ DiskType
  BY DEF CrashInv, TypeOK, Query, IndexQuery, Ready
<1>1. disk' = disk /\ session' = session /\ work' = work /\ interrupted' = interrupted
  BY DEF Query, IndexQuery
<1>2. CASE interrupted
  BY <1>1, <1>2 DEF CleanInv, CleanDisk, CleanMemory, CleanIndex, CleanWork
<1>3. CASE ~interrupted
  <2>1. /\ rel \in Relations /\ rel.persist \in BOOLEAN
        /\ disk.index # None => disk.index = computeHashes(loadData)
        /\ rel.eager => loadData = rel.table
        /\ ~rel.eager => loadData = disk.data
        /\ rel.numRows = Len(loadData)
    BY <1>0, <1>3, FilesMatch
  <2>2. loadData \in Seq(Rows)
    BY <1>0, Loaded
  <2>3. countedRows(loadData, rel.numRows) = rel.numRows
    BY <2>1 DEF countedRows
  <2>4. /\ rel'.table = loadData /\ rel'.persist = rel.persist /\ rel'.eager = rel.eager
        /\ rel'.numRows = rel.numRows
    <3>1. CASE Query
      <4>1. rel' = [rel EXCEPT !.table = loadData]
        BY <3>1 DEF Query
      <4> QED
        BY <2>1, <4>1 DEF Relations
    <3>2. CASE IndexQuery
      <4>1. rel' = [rel EXCEPT !.table = loadData, !.numRows = rel.numRows]
        BY <2>3, <3>2 DEF IndexQuery
      <4> QED
        BY <2>1, <4>1 DEF Relations
    <3> QED
      BY <3>1, <3>2
  <2>5. ~ToDo("appendRows") /\ ~ToDo("indexPersist") /\ ~ToDo("appendRows")'
    BY <1>0, <1>1 DEF ToDo
  <2>6. CASE idx = None
    <3>1. idx' = None
      BY <2>6 DEF Query, IndexQuery
    <3>2. CleanDisk'
      BY <1>0, <1>1 DEF CleanInv, CleanDisk, computeHashes
    <3>3. CleanMemory'
      BY <1>0, <1>1, <1>3, <2>1, <2>4, <2>6, <3>1 DEF CleanInv, CleanMemory
    <3>4. CleanWork'
      BY <1>0, <1>1, <1>3, <2>1, <2>4, <2>6, <3>1 DEF CleanInv, CleanWork, Pending, ToDo, SessionShape
    <3>5. CleanIndex'
      BY <3>1 DEF CleanIndex
    <3> QED
      BY <3>2, <3>3, <3>4, <3>5 DEF CleanInv
  <2>7. CASE idx # None
    <3>0. idx \in Indexes /\ idx.persist \in BOOLEAN
      BY <1>0, <2>7 DEF ObjectType, Indexes
    <3>1. /\ idx' # None /\ idx'.persist = idx.persist
          /\ rel.eager => idx'.table # None
          /\ idx'.table # None => /\ idx'.table = loadData /\ idx'.hash = computeHashes(loadData)
                                  /\ idx'.built = build(loadData, computeHashes(loadData), Junk)
      <4>1. CASE Query
        <5>1. idx' = idx
          BY <4>1 DEF Query
        <5>2. /\ rel.eager => idx.table # None
              /\ idx.table # None =>
                    /\ rel.table = idx.table /\ (~rel.eager => rel.table = disk.data)
                    /\ idx.hash = computeHashes(idx.table) /\ idx.built = build(idx.table, idx.hash, Junk)
          BY <1>0, <1>3, <2>5, <2>7 DEF CleanInv, CleanIndex, Appended
        <5>3. idx.table # None => idx.table = loadData
          BY <2>1, <5>2
        <5> QED
          BY <2>7, <5>1, <5>2, <5>3
      <4>2. CASE IndexQuery
        <5>1. PICK junk \in Hashes \cup {Junk} : idx' = ensureLoaded(loadData, idx.persist, junk)
          BY <4>2 DEF IndexQuery
        <5>2. indexHashes(loadData) = computeHashes(loadData)
          BY <2>1 DEF indexHashes
        <5>3. disk.index \in {None} \cup Seq(Hashes)
          BY <1>0, <4>2 DEF IndexQuery, DiskType
        <5>4. idx' # None
          BY <2>2, <3>0, <5>1, <5>3, EnsureLoadedType, NoValue
        <5>5. build(loadData, computeHashes(loadData), junk) = build(loadData, computeHashes(loadData), Junk)
          BY <2>2, BuildIsIndex
        <5>6. loadData # None
          BY <2>2, NoValue
        <5> QED
          BY <5>1, <5>2, <5>4, <5>5, <5>6 DEF ensureLoaded
      <4> QED
        BY <4>1, <4>2
    <3>2. CleanDisk'
      BY <1>0, <1>1 DEF CleanInv, CleanDisk, computeHashes
    <3>3. CleanMemory'
      BY <1>0, <1>1, <1>3, <2>1, <2>4, <2>7, <3>1 DEF CleanInv, CleanMemory
    <3>4. CleanWork'
      <4>1. rel.persist => rel.eager
        BY <1>0 DEF SessionShape
      <4>2. rel.persist => loadData = rel.table
        BY <2>1, <4>1
      <4> QED
        BY <1>0, <1>1, <1>3, <2>4, <2>7, <3>1, <4>2 DEF CleanInv, CleanWork, Pending, ToDo, computeHashes
    <3>5. CleanIndex'
      <4>1. rel.persist => idx.persist
        BY <1>0, <1>3, <2>5, <2>7 DEF CleanInv, CleanIndex
      <4> QED
        BY <1>1, <2>1, <2>4, <2>5, <3>1, <4>1 DEF CleanIndex, Appended
    <3> QED
      BY <3>2, <3>3, <3>4, <3>5 DEF CleanInv
  <2> QED
    BY <2>6, <2>7
<1> QED
  BY <1>2, <1>3

(* What a statement has left it had before, and it ends with the same step *)
LEMMA TailSame ==
    ASSUME CrashInv, work # <<>>, work' = Tail(work)
    PROVE  /\ \A d : ToDo(d)' => ToDo(d)
           /\ work' # <<>> => work'[Len(work')] = work[Len(work)]
<1>0. TypeOK
  BY DEF CrashInv
<1>1. /\ Len(work) \in Nat \ {0} /\ DOMAIN work = 1 .. Len(work)
      /\ work' \in Seq(Steps) /\ DOMAIN work' = 1 .. Len(work) - 1 /\ Len(work') = Len(work) - 1
      /\ \A i \in 1 .. Len(work) - 1 : work'[i] = work[i + 1]
  BY <1>0, WorkFacts
<1>2. \A i \in DOMAIN work' : i + 1 \in DOMAIN work /\ work'[i] = work[i + 1]
  BY <1>1
<1>3. \A d : ToDo(d)' => ToDo(d)
  BY <1>2 DEF ToDo
<1>4. work' # <<>> => Len(work') \in Nat \ {0}
  BY <1>1, EmptySeq
<1>5. work' # <<>> => work'[Len(work')] = work[Len(work)]
  BY <1>1, <1>4
<1> QED
  BY <1>3, <1>5

LEMMA FileStepClean ==
    ASSUME CrashInv, CleanInv, session = "up", work # <<>>, NEW f \in Files, work[1] \in {O(f), W(f)}, NEW c,
           disk' = [disk EXCEPT ![f] = c], Proceed(Tail(work)),
           work[1] = W(f) =>
               /\ f = "meta" => c = [rows |-> rel.numRows, pk |-> idx # None]
               /\ f = "data" => c = rel.table
               /\ f = "index" => c = idx.hash,
           UNCHANGED <<session, rel, idx, interrupted>>
    PROVE  CleanInv'
<1>0. /\ DiskType /\ ObjectType /\ SessionShape /\ WorkOrdered /\ TypeOK
  BY DEF CrashInv, TypeOK
<1>1. /\ rel \in Relations /\ rel # None /\ rel.eager = TRUE /\ rel.table \in Seq(Rows)
      /\ work[1].do \in {"open", "write"} => rel.persist
  BY Busy
<1>2. /\ rel.persist /\ work[1].file = f /\ work[1].do \in {"open", "write"}
      /\ work[1] # W(f) => work[1].do = "open"
  BY <1>1, StepFields
<1>3. TailKeeps(Tail(work))
  BY TailLeft
<1>4. work' = Tail(work)
  BY DEF Proceed
<1>5. /\ \A d : ToDo(d)' => ToDo(d)
      /\ work' # <<>> => work'[Len(work')] = work[Len(work)]
  BY <1>4, TailSame
<1>6. (ToDo("appendRows")' <=> ToDo("appendRows")) /\ (ToDo("indexPersist")' <=> ToDo("indexPersist"))
  BY <1>2, <1>3, <1>4, <1>5 DEF TailKeeps, ToDo
<1>7. \A g \in Files : g # f /\ Pending(g) => Pending(g)'
  <2>1. \A g \in Files : g # f => work[1] # W(g)
    BY <1>2, StepFields
  <2> QED
    BY <1>3, <1>4, <2>1 DEF TailKeeps, Pending, W
<1>8. work[1] # W(f) => Pending(f)'
  BY <1>2, <1>3, <1>4 DEF TailKeeps, Pending, W
<1>9. \A g \in Files : disk'[g] = IF g = f THEN c ELSE disk[g]
  BY <1>0 DEF DiskType, Files
<1>10. disk'.meta = disk'["meta"] /\ disk'.data = disk'["data"] /\ disk'.index = disk'["index"]
  OBVIOUS
<1>11. CASE interrupted
  BY <1>11 DEF CleanInv, CleanDisk, CleanMemory, CleanIndex, CleanWork
<1>12. CASE ~interrupted
  <2>1. rel.numRows = Len(rel.table)
    BY <1>1, <1>12 DEF CleanInv, CleanMemory
  <2>2. ASSUME idx # None
        PROVE  /\ idx.table # None /\ idx.hash = computeHashes(idx.table) /\ idx.built = build(idx.table, idx.hash, Junk)
               /\ rel.table = Appended(idx.table) /\ (idx.persist \/ ToDo("indexPersist"))
    BY <1>1, <1>2, <1>12, <2>2 DEF CleanInv, CleanIndex
  <2>3. CleanMemory'
    BY <1>1, <1>2, <2>1 DEF CleanMemory
  <2>4. CleanIndex'
    <3>1. ASSUME idx # None PROVE rel.table = Appended(idx.table)'
      <4>1. CASE ToDo("appendRows")
        <5>1. work' # <<>>
          BY <1>6, <4>1 DEF ToDo
        <5> QED
          BY <1>5, <1>6, <2>2, <3>1, <4>1, <5>1 DEF Appended
      <4>2. CASE ~ToDo("appendRows")
        BY <1>6, <2>2, <3>1, <4>2 DEF Appended
      <4> QED
        BY <4>1, <4>2
    <3> QED
      BY <1>1, <1>2, <1>6, <2>2, <3>1 DEF CleanIndex, computeHashes, build
  <2>5. CleanWork'
    <3>0. /\ Pending("meta") \/ disk.meta = [rows |-> Len(rel.table), pk |-> idx # None]
          /\ Pending("data") \/ disk.data = rel.table
          /\ \/ Pending("index") \/ ToDo("indexPersist") \/ ToDo("appendRows")
             \/ disk.index = IF idx = None THEN None ELSE computeHashes(rel.table)
      BY <1>1, <1>2, <1>12 DEF CleanInv, CleanWork
    <3>1. Pending("meta")' \/ disk'.meta = [rows |-> Len(rel.table), pk |-> idx # None]
      <4>1. CASE f = "meta"
        BY <1>2, <1>8, <1>9, <1>10, <2>1, <4>1
      <4>2. CASE f # "meta"
        BY <1>7, <1>9, <1>10, <3>0, <4>2 DEF Files
      <4> QED
        BY <4>1, <4>2
    <3>2. Pending("data")' \/ disk'.data = rel.table
      <4>1. CASE f = "data"
        BY <1>2, <1>8, <1>9, <1>10, <4>1
      <4>2. CASE f # "data"
        BY <1>7, <1>9, <1>10, <3>0, <4>2 DEF Files
      <4> QED
        BY <4>1, <4>2
    <3>3. \/ Pending("index")' \/ ToDo("indexPersist")' \/ ToDo("appendRows")'
          \/ disk'.index = IF idx = None THEN None ELSE computeHashes(rel.table)
      <4>1. CASE f = "index" /\ work[1] = W(f) /\ ~ToDo("appendRows")
        <5>1. 1 \in DOMAIN work
          BY <1>0, WorkFacts
        <5>2. idx # None
          BY <1>0, <1>2, <4>1, <5>1 DEF WorkOrdered
        <5>3. rel.table = idx.table
          BY <2>2, <4>1, <5>2 DEF Appended
        <5>4. disk'.index = computeHashes(rel.table)
          BY <1>9, <1>10, <2>2, <4>1, <5>2, <5>3
        <5> QED
          BY <5>2, <5>4
      <4>2. CASE f = "index" /\ work[1] # W(f)
        BY <1>8, <4>2
      <4>3. CASE ToDo("appendRows")
        BY <1>6, <4>3
      <4>4. CASE f # "index"
        BY <1>6, <1>7, <1>9, <1>10, <3>0, <4>4 DEF Files
      <4> QED
        BY <4>1, <4>2, <4>3, <4>4
    <3> QED
      BY <3>1, <3>2, <3>3 DEF CleanWork, computeHashes
  <2>6. CleanDisk'
    <3>1. CASE work' # <<>>
      BY <1>1, <1>2, <3>1 DEF CleanDisk
    <3>2. CASE work' = <<>>
      <4>1. /\ disk'.meta = [rows |-> Len(rel.table), pk |-> idx # None] /\ disk'.data = rel.table
            /\ disk'.index = IF idx = None THEN None ELSE computeHashes(rel.table)
        BY <1>1, <1>2, <1>12, <2>5, <3>2 DEF CleanWork, Pending, ToDo, computeHashes
      <4>2. [rows |-> Len(rel.table), pk |-> idx # None] \in Metas
        <5>1. ASSUME NEW b \in BOOLEAN PROVE [rows |-> Len(rel.table), pk |-> b] \in Metas
          BY <1>1 DEF Metas
        <5> QED
          BY <5>1
      <4>3. disk'.meta.rows = Len(rel.table) /\ disk'.meta.pk = (idx # None)
        BY <4>1
      <4>4. disk'.meta \in Metas /\ disk'.data \in Seq(Rows) /\ disk'.meta.rows = Len(disk'.data)
        BY <1>1, <4>1, <4>2, <4>3
      <4>5. CASE idx = None
        <5>1. disk'.meta.pk = FALSE /\ disk'.index = None
          BY <4>1, <4>3, <4>5
        <5> QED
          BY <4>4, <5>1 DEF CleanDisk
      <4>6. CASE idx # None
        <5>1. disk'.meta.pk = TRUE /\ disk'.index = computeHashes(disk'.data)
          BY <4>1, <4>3, <4>6
        <5> QED
          BY <4>4, <5>1 DEF CleanDisk, computeHashes
      <4> QED
        BY <4>5, <4>6
    <3> QED
      BY <3>1, <3>2
  <2> QED
    BY <2>3, <2>4, <2>5, <2>6 DEF CleanInv
<1> QED
  BY <1>11, <1>12

LEMMA OpenFileClean == ASSUME CrashInv, CleanInv, OpenFile, UNCHANGED interrupted PROVE CleanInv'
<1>1. session = "up" /\ work # <<>> /\ Head(work) = work[1] /\ work[1].do = "open"
  BY FirstStep DEF OpenFile, Doing
<1>2. PICK f \in Files : work[1] = O(f)
  BY <1>1, FirstStep
<1>3. work[1].file = f /\ work[1] # W(f)
  BY <1>2, StepFields
<1>4. PICK c \in {Torn, [rows |-> Unset, pk |-> FALSE]} : disk' = [disk EXCEPT ![f] = c]
  BY <1>1, <1>3 DEF OpenFile
<1>5. Proceed(Tail(work)) /\ UNCHANGED <<session, rel, idx>>
  BY DEF OpenFile
<1> QED
  BY <1>1, <1>2, <1>3, <1>4, <1>5, FileStepClean

LEMMA WriteFileClean == ASSUME CrashInv, CleanInv, WriteFile, UNCHANGED interrupted PROVE CleanInv'
<1>1. session = "up" /\ work # <<>> /\ Head(work) = work[1] /\ work[1].do = "write"
  BY FirstStep DEF WriteFile, Doing
<1>2. PICK f \in Files : work[1] = W(f)
  BY <1>1, FirstStep
<1>3. work[1].file = f
  BY <1>2, StepFields
<1> DEFINE c == CASE f = "meta" -> [rows |-> rel.numRows, pk |-> idx # None]
                  [] f = "data" -> rel.table
                  [] f = "sample" -> "rows"
                  [] f = "index" -> idx.hash
<1>4. disk' = [disk EXCEPT ![f] = c]
  BY <1>1, <1>3 DEF WriteFile
<1>5. /\ f = "meta" => c = [rows |-> rel.numRows, pk |-> idx # None]
      /\ f = "data" => c = rel.table
      /\ f = "index" => c = idx.hash
  OBVIOUS
<1> HIDE DEF c
<1>6. Proceed(Tail(work)) /\ UNCHANGED <<session, rel, idx>>
  BY DEF WriteFile
<1> QED
  BY <1>1, <1>2, <1>4, <1>5, <1>6, FileStepClean

(* The steps of the index find the other files written *)
LEMMA IndexStepFacts ==
    ASSUME CrashInv, CleanInv, session = "up", work # <<>>, ~interrupted,
           work[1].do \in {"indexPersist", "appendRows"}
    PROVE  /\ rel \in Relations /\ idx # None /\ idx \in Indexes /\ rel.eager = TRUE /\ Tail(work) = <<>>
           /\ rel.numRows = Len(rel.table)
           /\ rel.persist =>
                 /\ disk.meta = [rows |-> Len(rel.table), pk |-> idx # None] /\ disk.data = rel.table
                 /\ work[1].do = "appendRows" => idx.persist
           /\ ToDo("appendRows") <=> work[1].do = "appendRows"
           /\ idx.table # None /\ idx.hash = computeHashes(idx.table) /\ idx.built = build(idx.table, idx.hash, Junk)
           /\ idx.table \in Seq(Rows) /\ rel.table = Appended(idx.table) /\ (ToDo("appendRows") => rel.persist)
<1>1. rel \in Relations /\ idx # None /\ idx \in Indexes /\ rel.eager = TRUE /\ Tail(work) = <<>> /\ rel # None
  BY Busy
<1>2. TailKeeps(<<>>) /\ TypeOK
  BY <1>1, TailLeft DEF CrashInv
<1>3. ~Pending("meta") /\ ~Pending("data")
  BY <1>2, StepFields DEF TailKeeps
<1>4. 1 \in DOMAIN work
  BY <1>2, WorkFacts
<1>5. \A d : ToDo(d) <=> work[1].do = d
  <2>1. \A d : ToDo(d) => work[1].do = d
    BY <1>2 DEF TailKeeps
  <2>2. \A d : work[1].do = d => ToDo(d)
    BY <1>4 DEF ToDo
  <2> QED
    BY <2>1, <2>2
<1>6. rel.persist => disk.meta = [rows |-> Len(rel.table), pk |-> idx # None] /\ disk.data = rel.table
  BY <1>1, <1>3 DEF CleanInv, CleanWork
<1>7. /\ idx.table # None /\ idx.hash = computeHashes(idx.table) /\ idx.built = build(idx.table, idx.hash, Junk)
      /\ rel.table = Appended(idx.table) /\ (ToDo("appendRows") => rel.persist)
      /\ rel.persist => idx.persist \/ ToDo("indexPersist")
  BY <1>1 DEF CleanInv, CleanIndex
<1>8. idx.table \in Seq(Rows)
  BY <1>1, <1>7 DEF Indexes
<1>9. rel.numRows = Len(rel.table)
  BY <1>1 DEF CleanInv, CleanMemory
<1> QED
  BY <1>1, <1>5, <1>6, <1>7, <1>8, <1>9

LEMMA IndexPersistClean == ASSUME CrashInv, CleanInv, IndexPersist, UNCHANGED interrupted PROVE CleanInv'
<1>1. session = "up" /\ work # <<>> /\ Head(work) = work[1] /\ work[1].do = "indexPersist"
  BY FirstStep DEF IndexPersist, Doing
<1>2. CASE interrupted
  BY <1>2 DEF CleanInv, CleanDisk, CleanMemory, CleanIndex, CleanWork
<1>3. CASE ~interrupted
  <2>0. /\ rel \in Relations /\ idx # None /\ idx \in Indexes /\ rel.eager = TRUE /\ Tail(work) = <<>>
        /\ rel.numRows = Len(rel.table) /\ rel.table = Appended(idx.table)
        /\ rel.persist => disk.meta = [rows |-> Len(rel.table), pk |-> idx # None] /\ disk.data = rel.table
        /\ ~ToDo("appendRows")
        /\ idx.table # None /\ idx.hash = computeHashes(idx.table) /\ idx.built = build(idx.table, idx.hash, Junk)
        /\ idx.table \in Seq(Rows)
    BY <1>1, <1>3, IndexStepFacts
  <2>1. rel.persist \in BOOLEAN /\ rel # None
    BY <2>0, NoValue DEF Relations
  <2>2. idx.hash # None
    BY <2>0, HashTypes, NoValue
  <2>3. /\ Proceed((IF rel.persist THEN rewrite("index") ELSE <<>>) \o <<>>)
        /\ UNCHANGED <<session, rel, disk>> /\ idx' = [idx EXCEPT !.persist = rel.persist]
    BY <2>0, <2>2 DEF IndexPersist
  <2>4. work' = IndexFile(rel.persist)
    BY <2>1, <2>3, IndexSteps DEF Proceed
  <2>5. idx' \in Indexes /\ idx'.persist = rel.persist /\ idx'.table = idx.table /\ idx'.hash = idx.hash /\ idx'.built = idx.built
    BY <2>0, <2>1, <2>3 DEF Indexes
  <2>6. idx' # None
    BY <2>5, NoValue
  <2>7. ~ToDo("appendRows")' /\ (rel.persist => Pending("index")' /\ work' # <<>>)
    BY <2>1, <2>4, IndexSteps DEF ToDo, Pending, W
  <2>8. CleanDisk'
    BY <2>1, <2>3, <2>7 DEF CleanInv, CleanDisk, computeHashes
  <2>9. CleanMemory'
    BY <1>1, <1>3, <2>0, <2>1, <2>3, <2>6 DEF CleanInv, CleanMemory
  <2>10. CleanIndex'
    <3>1. /\ (computeHashes(idx.table))' = computeHashes(idx.table)
          /\ (build(idx.table, idx.hash, Junk))' = build(idx.table, idx.hash, Junk)
      BY <2>5 DEF computeHashes, build
    <3>2. rel.table = idx.table
      BY <2>0 DEF Appended
    <3> QED
      BY <2>0, <2>3, <2>5, <2>7, <3>1, <3>2 DEF CleanIndex, Appended
  <2>11. CleanWork'
    BY <2>0, <2>3, <2>6, <2>7 DEF CleanWork
  <2> QED
    BY <2>8, <2>9, <2>10, <2>11 DEF CleanInv
<1> QED
  BY <1>2, <1>3

LEMMA AppendRowsClean == ASSUME CrashInv, CleanInv, AppendRows, UNCHANGED interrupted PROVE CleanInv'
<1>1. session = "up" /\ work # <<>> /\ Head(work) = work[1] /\ work[1].do = "appendRows"
  BY FirstStep DEF AppendRows, Doing
<1>2. CASE interrupted
  BY <1>2 DEF CleanInv, CleanDisk, CleanMemory, CleanIndex, CleanWork
<1>3. CASE ~interrupted
  <2>0. /\ rel \in Relations /\ idx # None /\ idx \in Indexes /\ rel.eager = TRUE /\ Tail(work) = <<>>
        /\ rel.table = Appended(idx.table) /\ rel.persist /\ idx.persist /\ ToDo("appendRows")
        /\ disk.meta = [rows |-> Len(rel.table), pk |-> idx # None] /\ disk.data = rel.table
        /\ idx.table # None /\ idx.table \in Seq(Rows)
    BY <1>1, <1>3, IndexStepFacts
  <2>1. rel # None /\ idx.persist = TRUE /\ rel.table \in Seq(Rows)
    BY <2>0, NoValue DEF Relations, Indexes
  <2> DEFINE t == Append(idx.table, Head(work).file)
  <2>2. t = rel.table
    <3>1. Len(work) = 1
      <4>1. TypeOK
        BY DEF CrashInv
      <4>2. Len(work) \in Nat /\ Len(Tail(work)) = Len(work) - 1
        BY <1>1, <4>1, WorkFacts
      <4>3. Len(Tail(work)) = 0
        BY <2>0, EmptySeq
      <4> DEFINE m == Len(work)
                 n == Len(Tail(work))
      <4>4. m \in Nat /\ n = m - 1 /\ n = 0
        BY <4>2, <4>3
      <4> HIDE DEF m, n
      <4>5. m = 1
        BY <4>4
      <4> QED
        BY <4>5 DEF m
    <3> QED
      BY <1>1, <2>0, <3>1 DEF Appended
  <2>3. /\ Proceed((IF idx.persist THEN rewrite("index") ELSE <<>>) \o <<>>)
        /\ idx' = [idx EXCEPT !.table = t, !.hash = computeHashes(t), !.built = build(t, computeHashes(t), Junk)]
        /\ rel' = [rel EXCEPT !.numRows = Len(t)] /\ UNCHANGED <<session, disk>>
    BY <2>0, Zenon DEF AppendRows
  <2> HIDE DEF t
  <2>4. work' = IndexFile(TRUE)
    BY <2>1, <2>3, IndexSteps DEF Proceed
  <2>5. /\ idx' \in Indexes /\ idx'.persist = idx.persist /\ idx'.table = t /\ idx'.hash = computeHashes(t)
        /\ idx'.built = build(t, computeHashes(t), Junk)
    BY <2>0, <2>1, <2>2, <2>3, HashTypes DEF Indexes
  <2>6. /\ rel' \in Relations /\ rel'.table = t /\ rel'.numRows = Len(t) /\ rel'.persist = rel.persist
        /\ rel'.eager = TRUE
    <3> DEFINE n == Len(t)
    <3>1. n \in Nat /\ rel' = [rel EXCEPT !.numRows = n]
      BY <2>1, <2>2, <2>3
    <3> HIDE DEF n
    <3>2. /\ rel' \in Relations /\ rel'.table = rel.table /\ rel'.numRows = n /\ rel'.persist = rel.persist
          /\ rel'.eager = rel.eager
      BY <2>0, <3>1 DEF Relations
    <3> QED
      BY <2>0, <2>2, <3>2 DEF n
  <2>7. idx' # None /\ rel' # None /\ t # None
    BY <2>1, <2>2, <2>5, <2>6, NoValue
  <2>8. ~ToDo("appendRows")' /\ Pending("index")' /\ work' # <<>>
    BY <2>4, IndexSteps DEF ToDo, Pending, W
  <2>9. CleanDisk'
    BY <2>0, <2>6, <2>7, <2>8 DEF CleanDisk
  <2>10. CleanMemory'
    BY <2>0, <2>6 DEF CleanMemory
  <2>11. CleanIndex'
    <3>1. (computeHashes(idx.table))' = computeHashes(t) /\ (build(idx.table, idx.hash, Junk))' = build(t, computeHashes(t), Junk)
      BY <2>5 DEF computeHashes, build
    <3> QED
      BY <2>1, <2>5, <2>6, <2>7, <2>8, <3>1 DEF CleanIndex, Appended
  <2>12. CleanWork'
    BY <2>0, <2>2, <2>3, <2>6, <2>7, <2>8 DEF CleanWork
  <2> QED
    BY <2>9, <2>10, <2>11, <2>12 DEF CleanInv
<1> QED
  BY <1>2, <1>3

LEMMA NextClean == ASSUME ~LazyWrites, ~UnpersistedAppends, CrashInv, CleanInv, [Next]_vars PROVE CleanInv'
<1>1. CASE Statement /\ UNCHANGED interrupted
  BY <1>1, OpenClean, OpenFailsClean, CreateTableClean, SetPersistClean, InsertClean, QueryClean, QueryFailsClean,
     OpenFileClean, WriteFileClean, IndexPersistClean, AppendRowsClean DEF Statement
<1> QED
  BY <1>1, KillClean, StutterClean DEF Next

(* HashIndex::build, appendRows and ensureLoaded keep the index of any table   *)
(* complete and exact over any number of appends, queries and restarts, with   *)
(* the index file or without it, as long as no statement was cut off.          *)
THEOREM IndexStaysComplete == ASSUME ~LazyWrites, ~UnpersistedAppends PROVE Spec => []IndexComplete
<1>1. ASSUME CrashInv, CleanInv PROVE IndexComplete
  <2>1. SUFFICES ASSUME Ready, ~interrupted, idx # None, idx.table # None
                 PROVE  /\ idx.table = rel.table
                        /\ idx.built = {<<Hash[r], r>> : r \in RowsOf(rel.table)}
    BY DEF IndexComplete
  <2>2. idx.table \in Seq(Rows)
    BY <1>1, <2>1 DEF CrashInv, TypeOK, ObjectType, Indexes
  <2>3. /\ rel.table = idx.table /\ idx.hash = computeHashes(idx.table) /\ idx.built = build(idx.table, idx.hash, Junk)
    BY <1>1, <2>1 DEF Ready, CleanInv, CleanIndex, Appended, ToDo
  <2> QED
    BY <2>2, <2>3, BuildIsIndex
<1> QED
  BY <1>1, InitCrashInv, InitClean, NextCrash, NextClean, PTL DEF Spec

(* The row count that the optimizer reads is that of the table a query loads,  *)
(* whichever of append, appendRows and computeHashes wrote it last.            *)
THEOREM RowCountStaysRight == ASSUME ~LazyWrites, ~UnpersistedAppends PROVE Spec => []RowCountRight
<1>1. ASSUME CrashInv, CleanInv PROVE RowCountRight
  BY <1>1, FilesMatch DEF RowCountRight
<1> QED
  BY <1>1, InitCrashInv, InitClean, NextCrash, NextClean, PTL DEF Spec

(* After each statement of a session that persists, the data, metadata and     *)
(* index files that DBRelation::flush and HashIndex::flush wrote describe the  *)
(* table in memory.                                                            *)
THEOREM PersistedStaysOnDisk == ASSUME ~LazyWrites, ~UnpersistedAppends PROVE Spec => []PersistedOnDisk
<1>1. ASSUME CrashInv, CleanInv PROVE PersistedOnDisk
  BY <1>1 DEF PersistedOnDisk, Ready, CleanInv, CleanWork, Pending, ToDo
<1> QED
  BY <1>1, InitCrashInv, InitClean, NextCrash, NextClean, PTL DEF Spec
=============================================================================
