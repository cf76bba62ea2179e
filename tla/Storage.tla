------------------------------- MODULE Storage -------------------------------
(***************************************************************************)
(* A relation of the database directory, with its files, its in-memory     *)
(* state and its primary-key hash index: DBCatalog, DBRelation, HashIndex  *)
(* and the runtime calls (RelationHelper) that SQL statements make.        *)
(*                                                                         *)
(* A session is opened eagerly (the sql shell, sql-web, the Python bridge) *)
(* or lazily (run-sql, run-mlir, measure-sql, mlir-to-json).  A lazy       *)
(* session lowers one module, all statements of a file, and the lowering   *)
(* loads what the module reads before any of it runs.  The process may be  *)
(* killed at any time: there is no shutdown hook, and a file is rewritten  *)
(* in place, by truncating it and writing it again.                        *)
(*                                                                         *)
(* Rows are model values; an Arrow table is the sequence of its rows, the  *)
(* index file the sequence of their key hashes.  Relations share nothing   *)
(* but the catalog's persist flag, so one relation is modelled.            *)
(***************************************************************************)
EXTENDS Integers, Sequences, FiniteSets

CONSTANTS
    Rows,                \* rows that statements may append
    Hashes, Hash,        \* the hash of a row's primary key
    HasPk,               \* whether CREATE TABLE declares a primary key
    None,                \* no such file; a null pointer
    Torn,                \* a file that is not a complete Arrow or JSON file
    Unset,               \* an uninitialised row count
    Junk,                \* a hash value read beyond the end of the array
    LazyWrites,          \* whether lazy sessions change the database
    UnpersistedAppends,  \* whether rows are appended without `set persist=1`
    KillInOperation      \* whether the process may die inside a statement

ASSUME StorageAssumption ==
    /\ Hash \in [Rows -> Hashes]
    /\ {HasPk, LazyWrites, UnpersistedAppends, KillInOperation} \subseteq BOOLEAN

VARIABLES
    disk,      \* the relation's four files
    session,   \* "down", "up", "failed" (aborted: ValueOrDie, an exception, a null pointer)
    eager,     \* eagerLoading of the session
    persist,   \* DBCatalog::persist
    rel,       \* the DBRelation object, or None
    idx,       \* its HashIndex, or None
    work,      \* what the running statement still has to do, in order
    reads,     \* what a lazy session's module loads: see Lowers
    acked,     \* rows of statements that completed while persist was set
    interrupted \* whether the process died inside a statement

mem == <<session, eager, persist, rel, idx, work, reads>>
vars == <<disk, session, eager, persist, rel, idx, work, reads, acked, interrupted>>

RowsOf(t) == {t[i] : i \in DOMAIN t}

(* computeHashes: `select hash(pk) from tmp` over the index's table *)
computeHashes(t) == [i \in DOMAIN t |-> Hash[t[i]]]

(* Slip: the loop over the record batch ends one row early *)
buildShort(t, h, junk) ==
    {<<IF i \in DOMAIN h THEN h[i] ELSE junk, t[i]>> : i \in DOMAIN t \ {Len(t)}}

(* HashIndex::build: one entry per row of the table, hashed with the value   *)
(* at the row's position.  Beyond the array's end the read is undefined.     *)
build(t, h, junk) ==
    {<<IF i \in DOMAIN h THEN h[i] ELSE junk, t[i]>> : i \in DOMAIN t}

(* HashIndex::ensureLoaded: the hashes come from the index file if there is  *)
(* one, whatever its length                                                  *)
indexHashes(t) == IF disk.index = None THEN computeHashes(t) ELSE disk.index

ensureLoaded(t, p, junk) ==
    [table |-> t, hash |-> indexHashes(t),
     built |-> build(t, indexHashes(t), junk), persist |-> p]

(* computeHashes runs its query on a temporary relation that shares the      *)
(* relation's metadata, whose row count its append overwrites                *)
countedRows(t, n) == IF t # <<>> /\ disk.index = None THEN Len(t) ELSE n

(* The index object before it has been loaded *)
emptyIndex == [table |-> None, hash |-> None, built |-> {}, persist |-> FALSE]

(* The steps that rewrite a file: opening it truncates it *)
rewrite(f) == <<[do |-> "open", file |-> f], [do |-> "write", file |-> f]>>

(* Slip: the data written only when there is a sample, which is null too often *)
flushMetaOnly(r) == IF ~r.persist THEN <<>> ELSE rewrite("meta")

(* DBRelation::flush: metadata, then the data, then the sample if there is one *)
flush(r) ==
    IF ~r.persist THEN <<>>
    ELSE rewrite("meta") \o rewrite("data") \o (IF r.sample THEN rewrite("sample") ELSE <<>>)

-----------------------------------------------------------------------------
Init ==
    /\ disk = [meta |-> None, data |-> None, sample |-> None, index |-> None]
    /\ session = "down"
    /\ eager = FALSE
    /\ persist = FALSE
    /\ rel = None
    /\ idx = None
    /\ work = <<>>
    /\ reads = "unknown"
    /\ interrupted = FALSE
    /\ acked = {}

(* What Relation::loadRelation reads: an empty metadata file gives a relation *)
(* without columns and indexes                                                *)
Indexed == disk.meta # None /\ disk.meta # Torn /\ disk.meta.pk
Unreadable(e) ==
    disk.meta # None /\
        \/ disk.meta = Torn
        \/ disk.sample = Torn
        \/ e /\ disk.data = Torn
        \/ e /\ Indexed /\ disk.index = Torn

(* Session::createSession: DBCatalog::create loads every relation that has a *)
(* metadata file, eagerly or with an empty table                             *)
Open(e) ==
    /\ session = "down"
    /\ ~Unreadable(e)
    /\ session' = "up"
    /\ eager' = e
    /\ persist' = FALSE
    /\ IF disk.meta = None THEN rel' = None /\ idx' = None
       ELSE LET t == IF e /\ disk.data # None THEN disk.data ELSE <<>> IN
            /\ rel' = [table |-> t,
                       numRows |-> IF e /\ disk.meta.pk THEN countedRows(t, disk.meta.rows)
                                   ELSE disk.meta.rows,
                       sample |-> disk.sample # None,
                       persist |-> FALSE, eager |-> e]
            /\ IF ~disk.meta.pk THEN idx' = None
               ELSE IF e THEN \E junk \in Hashes \cup {Junk} : idx' = ensureLoaded(t, FALSE, junk)
               ELSE idx' = emptyIndex
    /\ work' = <<>>
    /\ reads' = "unknown"
    /\ UNCHANGED <<disk, acked>>

(* A torn file ends the process with an exception or in ValueOrDie *)
OpenFails(e) ==
    /\ session = "down"
    /\ Unreadable(e)
    /\ session' = "failed"
    /\ eager' = e
    /\ UNCHANGED <<disk, persist, rel, idx, work, reads, acked>>

Ready == session = "up" /\ work = <<>>

(* RelAlgLoweringStep walks the GetExternal operations of the whole module: a *)
(* lazy session loads the table, or the table and its index, before its first *)
(* statement runs, or runs all of them on what Open left.                     *)
Lowers(what) == eager \/ reads \in {"unknown", what}
Loads(what) == reads' = IF eager THEN reads ELSE what
RunsUnloaded == reads' = IF ~eager /\ reads = "unknown" THEN "nothing" ELSE reads

(* CREATE TABLE: DBCatalog::addTable creates an empty relation (which counts *)
(* as eagerly loaded), loads its index, and sets its persist flag            *)
CreateTable ==
    /\ Ready
    /\ LazyWrites \/ eager
    /\ rel = None
    /\ rel' = [table |-> <<>>, numRows |-> 0, sample |-> FALSE, persist |-> persist, eager |-> TRUE]
    /\ idx' = IF HasPk THEN ensureLoaded(<<>>, persist, Junk) ELSE None
    /\ work' = flush(rel') \o (IF HasPk /\ persist THEN rewrite("index") ELSE <<>>)
    /\ RunsUnloaded
    /\ UNCHANGED <<disk, session, eager, persist, acked>>

(* SET persist = v: DBCatalog::setPersist, DBRelation::setPersist (which     *)
(* flushes) and HashIndex::setPersist (which flushes)                        *)
SetPersist(v) ==
    /\ Ready
    /\ LazyWrites \/ eager
    /\ persist' = v
    /\ IF rel = None THEN UNCHANGED <<rel, work>>
       ELSE /\ rel' = [rel EXCEPT !.persist = v]
            /\ work' = flush(rel') \o (IF idx = None THEN <<>> ELSE <<[do |-> "indexPersist", file |-> "index"]>>)
    /\ RunsUnloaded
    /\ UNCHANGED <<disk, session, eager, idx, acked>>

(* Slip: the metadata's row count is not updated *)
InsertUncounted(r) ==
    /\ Ready
    /\ rel # None
    /\ LazyWrites \/ eager
    /\ UnpersistedAppends \/ rel.persist
    /\ r \notin RowsOf(rel.table) \cup acked
    /\ rel' = [rel EXCEPT !.table = Append(rel.table, r), !.sample = TRUE]
    /\ work' = flush(rel') \o (IF idx = None THEN <<>> ELSE <<[do |-> "appendRows", file |-> r]>>)
    /\ RunsUnloaded
    /\ UNCHANGED <<disk, session, eager, persist, idx, acked>>

(* INSERT and COPY: DBRelation::append in memory, then flush, then the index *)
Insert(r) ==
    /\ Ready
    /\ rel # None
    /\ LazyWrites \/ eager
    /\ UnpersistedAppends \/ rel.persist
    /\ r \notin RowsOf(rel.table) \cup acked
    /\ LET t == Append(rel.table, r) IN
       rel' = [rel EXCEPT !.table = t, !.numRows = Len(t), !.sample = TRUE]
    /\ work' = flush(rel') \o (IF idx = None THEN <<>> ELSE <<[do |-> "appendRows", file |-> r]>>)
    /\ RunsUnloaded
    /\ UNCHANGED <<disk, session, eager, persist, idx, acked>>

(* A SELECT: the loading step calls loadData on each relation it reads       *)
loadData ==
    IF ~rel.eager /\ rel.table = <<>> /\ disk.data # None THEN disk.data ELSE rel.table

Query ==
    /\ Ready
    /\ Lowers("table")
    /\ rel # None
    /\ loadData # Torn
    /\ rel' = [rel EXCEPT !.table = loadData]
    /\ Loads("table")
    /\ UNCHANGED <<disk, session, eager, persist, idx, work, acked>>

(* A SELECT with an index join: loadData, then ensureLoaded, each time *)
IndexQuery ==
    /\ Ready
    /\ Lowers("index")
    /\ rel # None /\ idx # None
    /\ loadData # Torn /\ disk.index # Torn
    /\ rel' = [rel EXCEPT !.table = loadData, !.numRows = countedRows(loadData, @)]
    /\ \E junk \in Hashes \cup {Junk} : idx' = ensureLoaded(loadData, idx.persist, junk)
    /\ Loads("index")
    /\ UNCHANGED <<disk, session, eager, persist, work, acked>>

QueryFails ==
    /\ Ready
    /\ rel # None
    /\ \/ Lowers("table") /\ loadData = Torn
       \/ Lowers("index") /\ idx # None /\ (loadData = Torn \/ disk.index = Torn)
    /\ session' = "failed"
    /\ UNCHANGED <<disk, eager, persist, rel, idx, work, reads, acked>>

-----------------------------------------------------------------------------
(* The steps of a statement that changes files *)

Doing(what) == session = "up" /\ work # <<>> /\ Head(work).do = what

(* A statement ends with its last step: the rows it leaves are acknowledged *)
Proceed(rest) ==
    /\ work' = rest
    /\ acked' = IF rest = <<>> /\ rel.persist THEN acked \cup RowsOf(rel.table) ELSE acked

(* Opening a file for writing truncates it: Arrow cannot read such a file,   *)
(* and JSON that is empty, but not JSON that is cut off, passes for metadata *)
OpenFile ==
    /\ Doing("open")
    /\ \E torn \in IF Head(work).file = "meta" THEN {Torn, [rows |-> Unset, pk |-> FALSE]} ELSE {Torn} :
          disk' = [disk EXCEPT ![Head(work).file] = torn]
    /\ Proceed(Tail(work))
    /\ UNCHANGED <<session, eager, persist, rel, idx, reads>>

WriteFile ==
    /\ Doing("write")
    /\ disk' = [disk EXCEPT ![Head(work).file] =
                   CASE Head(work).file = "meta" -> [rows |-> rel.numRows, pk |-> idx # None]
                     [] Head(work).file = "data" -> rel.table
                     [] Head(work).file = "sample" -> "rows"
                     [] Head(work).file = "index" -> idx.hash]
    /\ Proceed(Tail(work))
    /\ UNCHANGED <<session, eager, persist, rel, idx, reads>>

(* HashIndex::setPersist: the flag, then flush.  An index that was never     *)
(* loaded has no hash array to write.                                        *)
IndexPersist ==
    /\ Doing("indexPersist")
    /\ idx' = [idx EXCEPT !.persist = rel.persist]
    /\ IF rel.persist /\ idx.hash = None
       THEN session' = "failed" /\ UNCHANGED <<work, acked, rel>>
       ELSE /\ UNCHANGED <<session, rel>>
            /\ Proceed((IF rel.persist THEN rewrite("index") ELSE <<>>) \o Tail(work))
    /\ UNCHANGED <<disk, eager, persist, reads>>

(* Slip: appendRows does not flush *)
AppendRowsUnflushed ==
    LET t == Append(idx.table, Head(work).file) IN
    /\ Doing("appendRows")
    /\ idx.table # None
    /\ idx' = [idx EXCEPT !.table = t, !.hash = computeHashes(t),
                          !.built = build(t, computeHashes(t), Junk)]
    /\ rel' = [rel EXCEPT !.numRows = Len(t)]
    /\ Proceed(Tail(work))
    /\ UNCHANGED <<session, disk, eager, persist, reads>>

(* HashIndex::appendRows: the index extends its own table, hashes and builds  *)
(* it anew and flushes.  An index that was never loaded has no table.         *)
AppendRows ==
    /\ Doing("appendRows")
    /\ IF idx.table = None
       THEN session' = "failed" /\ UNCHANGED <<idx, rel, work, acked>>
       ELSE LET t == Append(idx.table, Head(work).file) IN
            /\ idx' = [idx EXCEPT !.table = t, !.hash = computeHashes(t),
                                  !.built = build(t, computeHashes(t), Junk)]
            /\ rel' = [rel EXCEPT !.numRows = Len(t)]
            /\ Proceed((IF idx.persist THEN rewrite("index") ELSE <<>>) \o Tail(work))
            /\ UNCHANGED session
    /\ UNCHANGED <<disk, eager, persist, reads>>

(* The process ends: by \q, by a signal, or by a failure *)
Kill ==
    /\ session # "down"
    /\ KillInOperation \/ work = <<>> \/ session = "failed"
    /\ session' = "down"
    /\ interrupted' = (interrupted \/ work # <<>>)
    /\ persist' = FALSE
    /\ rel' = None
    /\ idx' = None
    /\ work' = <<>>
    /\ reads' = "unknown"
    /\ UNCHANGED <<disk, eager, acked>>

Statement ==
    \/ \E e \in BOOLEAN : Open(e) \/ OpenFails(e)
    \/ CreateTable
    \/ \E v \in BOOLEAN : SetPersist(v)
    \/ \E r \in Rows : Insert(r)
    \/ Query \/ IndexQuery \/ QueryFails
    \/ OpenFile \/ WriteFile \/ IndexPersist \/ AppendRows

Next == (Statement /\ UNCHANGED interrupted) \/ Kill

Spec == Init /\ [][Next]_vars

-----------------------------------------------------------------------------
(* Properties *)

Files == {"meta", "data", "sample", "index"}
Metas == [rows : Nat \cup {Unset}, pk : BOOLEAN]
Relations ==
    [table : Seq(Rows), numRows : Nat \cup {Unset}, sample : BOOLEAN, persist : BOOLEAN, eager : BOOLEAN]
Indexes ==
    [table : Seq(Rows) \cup {None}, hash : Seq(Hashes) \cup {None},
     built : SUBSET ((Hashes \cup {Junk}) \X Rows), persist : BOOLEAN]
Steps ==
    [do : {"open", "write"}, file : Files] \cup [do : {"indexPersist"}, file : {"index"}]
        \cup [do : {"appendRows"}, file : Rows]

(* A missing or cut-off file, and a null pointer, are no values *)
ASSUME ValuesAssumption ==
    /\ None # Torn
    /\ {None, Torn} \cap (Seq(Rows) \cup Seq(Hashes) \cup Metas \cup Relations \cup Indexes) = {}

DiskType ==
    disk \in [meta : {None, Torn} \cup Metas, data : {None, Torn} \cup Seq(Rows),
              sample : {None, Torn, "rows"}, index : {None, Torn} \cup Seq(Hashes)]
ObjectType == rel \in Relations \cup {None} /\ idx \in Indexes \cup {None} /\ work \in Seq(Steps)
SessionType == session \in {"down", "up", "failed"} /\ acked \subseteq Rows
FlagType ==
    /\ eager \in BOOLEAN /\ persist \in BOOLEAN /\ interrupted \in BOOLEAN
    /\ reads \in {"unknown", "nothing", "table", "index"}

(* The files, objects and pending steps have the shapes the code gives them. *)
TypeOK == DiskType /\ ObjectType /\ SessionType /\ FlagType

(* The rows of statements that completed while persist was set are there     *)
(* whenever the relation is loaded, in this session or after any number of   *)
(* restarts: the process may have been killed at any moment, and then either *)
(* refuses to open the database or has kept them.                            *)
AckedRowsKept ==
    (session = "up" /\ rel # None /\ (rel.eager \/ reads \in {"table", "index"})) =>
        acked \subseteq RowsOf(rel.table)

(* Between statements a loaded index finds every row of the table under its   *)
(* key's hash and nothing else, however appends, restarts and reloads of the  *)
(* index file were mixed, as long as no statement was cut off.                *)
IndexComplete ==
    (Ready /\ ~interrupted /\ idx # None /\ idx.table # None) =>
        /\ idx.table = rel.table
        /\ idx.built = {<<Hash[r], r>> : r \in RowsOf(rel.table)}

(* Between statements the row count the optimizer sees is the table's (a lazy *)
(* session's before it loads the data: the data file's).                      *)
RowCountRight ==
    (Ready /\ ~interrupted /\ rel # None) => rel.numRows = Len(loadData)

(* Between statements of a session that persists, the files hold the state:   *)
(* data, row count and key hashes, of the same table.                         *)
PersistedOnDisk ==
    (Ready /\ ~interrupted /\ rel # None /\ rel.persist) =>
        /\ disk.data = rel.table
        /\ disk.meta = [rows |-> Len(rel.table), pk |-> idx # None]
        /\ disk.index = IF idx = None THEN None ELSE computeHashes(rel.table)

(* "Load the required tables/indices for the query" (lib/execution/           *)
(* Execution.cpp:73), for tables: when a statement writes a relation's data   *)
(* file, the table it writes has been loaded, so that it has the acknowledged *)
(* rows.                                                                      *)
WrittenTableLoaded ==
    (Doing("write") /\ Head(work).file = "data") => acked \subseteq RowsOf(rel.table)

-----------------------------------------------------------------------------
(* The inductive invariant of the proofs, of sessions that write only when    *)
(* they are eager.  First the part that a kill at any moment leaves true.     *)

Pending(f) == \E i \in DOMAIN work : work[i] = [do |-> "write", file |-> f]
ToDo(what) == \E i \in DOMAIN work : work[i].do = what

(* A file that is opened is written next, files are touched only for a        *)
(* relation that persists, and the metadata file is created first.            *)
WorkOrdered ==
    /\ work # <<>> => session # "down" /\ rel # None /\ eager
    /\ \A i \in DOMAIN work :
          /\ work[i].do = "open" =>
                i + 1 \in DOMAIN work /\ work[i + 1] = [do |-> "write", file |-> work[i].file]
          /\ work[i].do \in {"open", "write"} => rel.persist
          /\ work[i].do \in {"indexPersist", "appendRows"} \/ work[i].file = "index" => idx # None
          /\ work[i].do \in {"indexPersist", "appendRows"} => i = Len(work)
    /\ (work # <<>> /\ disk.meta = None /\ rel.persist) => work[1] = [do |-> "open", file |-> "meta"]

(* A lazy session has not changed anything *)
SessionShape ==
    /\ session = "down" => rel = None
    /\ session = "up" /\ rel = None => disk.meta = None
    /\ rel = None => idx = None
    /\ (rel # None /\ session # "down") =>
          /\ rel.eager = eager
          /\ ~eager => ~rel.persist /\ rel.table \in {<<>>, disk.data} /\ disk.meta # None
          /\ rel.persist /\ work = <<>> => disk.meta # None
    /\ (idx # None /\ idx.persist) => rel.persist \/ ToDo("indexPersist")

(* What is on disk, if it can be read, has the acknowledged rows *)
DiskKeeps ==
    /\ disk.meta = None => disk.data = None /\ disk.sample = None /\ disk.index = None
    /\ disk.data = None => acked = {}
    /\ disk.data \notin {None, Torn} => acked \subseteq RowsOf(disk.data)

MemoryKeeps ==
    (session = "up" /\ rel # None) =>
        /\ rel.eager => acked \subseteq RowsOf(rel.table)
        /\ rel.persist => Pending("data") \/ disk.data = rel.table

CrashInv == TypeOK /\ WorkOrdered /\ SessionShape /\ DiskKeeps /\ MemoryKeeps /\ AckedRowsKept

(* Then what holds as long as no statement was cut off. *)
Appended(t) == IF ToDo("appendRows") THEN Append(t, work[Len(work)].file) ELSE t

(* Outside of statements that write, the files describe one table *)
CleanDisk ==
    (~interrupted /\ (work = <<>> \/ rel = None \/ ~rel.persist) /\ disk.meta # None) =>
        /\ disk.meta \in Metas /\ disk.data \in Seq(Rows)
        /\ disk.meta.rows = Len(disk.data)
        /\ disk.index = IF disk.meta.pk THEN computeHashes(disk.data) ELSE None

(* ... which is the one in memory; *)
CleanMemory ==
    (session # "down" /\ ~interrupted /\ rel # None) =>
        /\ rel.numRows = Len(IF rel.eager THEN rel.table ELSE disk.data)
        /\ ~rel.persist =>
              /\ disk.meta # None => disk.meta.pk = (idx # None)
              /\ rel.eager => rel.table = IF disk.meta = None THEN <<>> ELSE disk.data

(* the index is that of the table, but for the rows it will append, *)
CleanIndex ==
    (session # "down" /\ ~interrupted /\ idx # None) =>
        /\ rel.eager => idx.table # None
        /\ rel.persist => idx.persist \/ ToDo("indexPersist")
        /\ ToDo("appendRows") => rel.persist
        /\ idx.table # None =>
              /\ rel.table = Appended(idx.table)
              /\ ~rel.eager => rel.table = disk.data
              /\ idx.hash = computeHashes(idx.table)
              /\ idx.built = build(idx.table, idx.hash, Junk)

(* and a file that will not be written any more describes that table. *)
CleanWork ==
    (session # "down" /\ ~interrupted /\ rel # None /\ rel.persist) =>
        /\ Pending("meta") \/ disk.meta = [rows |-> Len(rel.table), pk |-> idx # None]
        /\ Pending("data") \/ disk.data = rel.table
        /\ \/ Pending("index") \/ ToDo("indexPersist") \/ ToDo("appendRows")
           \/ disk.index = IF idx = None THEN None ELSE computeHashes(rel.table)

CleanInv == CleanDisk /\ CleanMemory /\ CleanIndex /\ CleanWork
=============================================================================
