# LingoDB in TLA+: models, model-checking runs and proofs

LingoDB compiles SQL to machine code through a stack of MLIR dialects and runs the
code, on many threads, against a C++ runtime. This directory models the parts of it
that are hard to get right, checks them with TLC on small instances, and proves the
most important of their properties with TLAPS for every instance.

Paths below are relative to `src/`. `PROJECT.json` lists components, runs, mutants,
hazards and theorems, and maps every definition to the lines it models.

1. The system  2. Modules and code  3. Runs  4. Proofs  5. Where the code and
the properties disagree  6. Limits  7. Plan

## 1. The system

    SQL text --Parser--> RelAlg --optimizer--> RelAlg --> SubOp --passes--> SubOp
        --> control flow (scf/func) --> DB/DSA/Util lowering --> LLVM | C | Cranelift
        --> native code calling lib/runtime (tables, hash tables, buffers, indexes)

A query is one MLIR module that the passes rewrite in sequence. In the sub-operator
dialect it is a block of *pipelines* (a scan followed by tuple-at-a-time operators)
which communicate only through *states*: buffers, hash maps, heaps, views. The passes
decide which pipelines run in parallel; TBB worker threads then run the generated code
on chunks of the source. Tables live in memory as Arrow tables and are written to files
of the database directory.

| component | state | operations | interacts with | correct if |
|---|---|---|---|---|
| Catalog, relations, primary-key index (`Catalog.cpp`, `Relation.cpp`, `HashIndex.cpp`, `MetaData.cpp`, `RelationHelper.cpp`) | table, metadata, sample and index per relation; four files | create, append, set persist, lazy and eager load, index build | generated code (inserts), the loading step of `Execution.cpp` | rows of finished statements survive; index, row count and files describe the same table |
| Hash join table (`LazyJoinHashtable.cpp`) | slots of tagged pointers, chains | lock-free parallel build, probe | worker threads, generated probing code | no entry lost, a tag never hides a match |
| Entry locks (`Hashtable.cpp`, `PreAggregationHashtable.cpp`) | lock bits in the next pointers | lock, unlock, walks alongside | generated reductions | exclusion, no update lost, chain unchanged |
| Hash aggregation (`Hashtable.cpp`, `PreAggregationHashtable.cpp`) | thread-local tables; fragments with caches and partitions | insert, grow, evict, merge, look up | thread-local states | one entry per group with all its rows |
| Growing buffers (`Buffer.cpp`, `GrowingBuffer.cpp`) | blocks of doubling capacity | insert, merge, sort, copy, iterate in parallel | almost every other state | no write past a block, each element seen once |
| Parallelization (`ParallelizePass.cpp`, `SubOpDependencyAnalysis.cpp`, `EnforceOrder.cpp`) | the block; at run time the instances of its states | analysis of scans, thread-local states, merges, reordering, execution | all states | the result of one thread, always |
| Joins (`OptimizeImplementations.cpp`, `RelAlgToSubOp.cpp`) | plan; build side, markers | choice of implementation, key extraction, build, probe, scan | hash join table, index | the join of SQL |
| Set operations (`RelAlgToSubOp.cpp`) | one map with counters | read left, read right, scan | hash maps | SQL's multiplicities |
| Aggregation (`Parser.cpp`, `SimplifyAggregations.cpp`, `RelAlgToSubOp.cpp`, `EliminateNulls.cpp`) | states of aggregate functions | type, expand ROLLUP, rewrite AVG, reduce, merge | thread-local maps and simple states | SQL's value per group |
| Sorting, LIMIT, windows (`Heap.cpp`, `SegmentTreeView.cpp`, `RelAlgToSubOp.cpp`) | heaps, sorted views, segment trees | insert, merge, heap sort, build, look up | buffers, aggregate functions | order, first rows, value per frame |
| SELECT statements: parser, RelAlg passes, join ordering (`Parser.cpp`, `lib/RelAlg`) | the plan | translation and fifteen passes in a fixed order | each other; cost estimates choose between plans | every plan on the way computes the rows of the statement |
| Scalar expressions (`Parser.cpp`, `lib/DB`, `DBToStd/LowerToStd.cpp`, scalar runtime) | the operations of an expression | typing, folding, canonicalization, NULL elimination, lowering | the operators that evaluate them | SQL's value, NULL and error for every row |
| Automatic differentiation (`Parser.cpp`) | partial derivatives of a lambda | reverse and forward mode | scalar expressions, arrays | the derivative by each column |
| Arrays (`lib/runtime/Array`, `ArrayRuntime.cpp`) | a flat block per value | parse, print, append, index, slice, arithmetic, cast, aggregate | generated code, ARRAY[...], array_agg | the block stands for the nested value |
| Sub-operator passes, DSA and Util lowering | the query | sequential rewrites | each other | the query keeps its meaning |
| Backends, result tables, tools | none that outlives a call | code emission, printing | the rest | (pure) |

The hard behaviours are: lock-free and spin-locked updates of shared tables; rows split
over workers in any way and partial results merged in any order; compile-time decisions
(parallel or not, thread-local or not, before or after) that must be right for every such
interleaving; rewrites whose soundness depends on what other passes did before them and on
which plan the cost estimates happen to choose; operations executed on the undefined payload
of a NULL; flat blocks of memory with bit positions computed by hand; NULLs, ties, duplicates, empty inputs and hash collisions; kills between any
two file operations, with files rewritten in place; lazily loaded and stale copies. There
is no network, no timeout and no retry except the compare-exchange loop and the spin lock.

## 2. Modules and code

Definitions keep the names of the code. A definition whose comment calls it a mutant or a
slip is a plausible mistake that the runs are tested against: with it in the place of the
definition it names, the property it belongs to is violated. Nothing else uses it.

**HashIndexedView**: `HashIndexedView::build` and the probing code generated for it. One
action per access to shared memory: `Take`, `Load` of the slot, `Link` of the new entry,
`Publish` or `Retry` (compare-exchange; the weak one may fail for no reason), then `Lookup`,
`ScanNext`, `ScanEnd`. A pointer is a record of an entry and of a set of tag bits. It
implements **JoinTable**, in which an insertion is one step and a probe is handed each
match once.

**EntryLock**: one chain of a hash table whose next pointers double as locks. `LockRead`
and `LockExchange`, `UnlockRead` and `UnlockStore` are separate steps, as are the walks of
other workers over the same pointers and the load (`Gather`) and store (`Scatter`) of the
value the lock protects.

**Hashtable**, **PreAggregation**: the two implementations of parallel aggregation, over
the common operators of **ChainedTable** (tagged chains, reduce, combine). The merge of a
PreAggregationHashtable takes the entries of a partition (`input`) from the fragments in any
order of their calls; a partition's task has a state of its own (`part[p].task`), so tasks
race for the common buffer. Both implement **GroupBy**: rows are consumed in any order and
then there is one group per key with every row in it once. An aggregate is the bag of its
rows, so that a row lost or counted twice is seen whatever the function. **HashAggregation**
puts both tables side by side, each with hash values of its own (`PartitionHash`), so that an
instance can make both collide; a behaviour is one of either.

**GrowingBuffer**: thread-local buffers, their merge (blocks are moved, the other buffer's
first), sort (into any order that satisfies the comparison), copy, and the parallel iteration
that splits blocks into chunks. The model adds each block's real capacity, which the code
does not store.

**Parallelize**: the passes and the execution. `phase` runs from `analyze` (one scan of the
block after the other, and at its end the insertion of merges) through `depend` (the roots
without dependencies, in hash order) and `order` (the worklist of the dependency analysis) to
`run` and `done`. A node of the new block remembers its position in the program (`Placed`),
and roots on a cycle keep their block order (`InBlockOrder`) as in the code, although
`RootsInOrder` shows that there are none. `ProgramsAssumption` is what the lowering guarantees
of a block: only views are over another state, and rows are put into buffers and hash tables
only. In `run` the calling thread starts the next
node of the reordered block; a parallel pipeline's rows are taken by any thread, and each
sub-operator is one or two steps (a reduction that is neither atomic nor locked loads and
stores separately). Thread-local states have an instance per thread that touched them. The
blocks it runs on are those `RelAlgToSubOp` produces, in **MCParallelize**.

**Join**: `plan` (all implementations the optimizer could pick: the cardinality estimates
are nondeterministic) with both calls of `prepareForHash`, then the `build`, `probe` and
`scan` pipelines of all seven kinds of join. A predicate is a sequence of conjuncts over SSA
values, because key extraction replaces values; a column read from memory nobody wrote is
`Garbage`.

**SetOperation**: `left`, `right`, `scan`, `done` of UNION, EXCEPT, INTERSECT (ALL or not)
and DISTINCT into one map with two counters.

**AggregateFunctions**: default, aggregate and combine of COUNT, SUM, MIN, MAX, ANY and
ARRAY_AGG with the null checks `EliminateNulls` puts around them. **Aggregation** uses it:
`parse` (types, grouping sets of a ROLLUP, AVG and STDDEV_SAMP in terms of others, one
sub-aggregation per DISTINCT column), `run` (`StartSub`, then `GetLocal` and `Reduce` by any
worker, `Merge` in any order), `scan`.

**Ordering**: `plan` (LIMIT over a sort becomes TopK), `lower` (one action per kind of
operator), `scan` (workers fill heaps, buffers or maps of buffers), `view` after the merge: `ScanHeap` (heap sort in place), `ScanSortedView`, or one
`EvaluateWindow` per partition with the segment tree and the offsets of the frame in
integers of `Width` bits. A lookup that throws ends the query (`WindowFails`).

**Storage**: a relation with its files. A statement is a list `work` of file and memory
steps that `Proceed` and its siblings take one by one; `Kill` may come between any two, and
a file being rewritten is then `Torn` (an empty metadata file is one that parses). `Open`
starts a session eagerly or lazily.

**RelAlg**, **SqlQuery**, **Rewrites**, **JoinOrder** and **Optimizer** are the front end and the optimizer for SELECT. RelAlg has the plans (values: an
operator with several users is one subtree that occurs several times), the column sets of
`OperatorInterfaceImpl.cpp`, and the relation a plan stands for. SqlQuery has two readings of a
statement: its meaning, defined on the statement alone, and `Translate`, the plan the
parser makes of it. The next two modules are the passes, each a function from plans to
plans: Rewrites (NOT NULL inference, decomposed predicates, subqueries into joins, pushdown,
column folding, combined predicates, shared results, unnesting, functional dependencies with
reduced keys, transitive equalities), JoinOrder (query graph with its conflict
rules, DPHyp, GOO, the realized tree). Optimizer runs them: one action per pass in the
order of `createQueryOptPipeline`, and one per region for the join order, which may become
any tree that some costs prefer (`OrderByDPHyp`, `OrderByGOO`). `UnnestingOverflows` is the
compiler's crash.

**Scalars**, **Expressions**: the types, their common types and the runtime functions on
values; then the path of one expression, one action per pass: `phase` goes from its translation
over folding and canonicalization, NULL elimination and the choice of runtime functions
to its execution on a row. Lowering is modelled by what the lowered code computes, undefined
payloads included: each is any of `Payloads`. `Sql` is SQL's value of the parse
tree. **Autodiff** adds the derivatives of a lambda (`translateTableFunction`), which take the same
path (`CompileDerivatives`) and are compared with symbolic differentiation.

**Arrays**: the operations of `lib/runtime/Array` on the block: dimensions, start indices, widths
per level, elements that are not NULL, NULL bits. **ArrayValues** performs any sequence of
them, one action per operation of `ArrayRuntime.cpp`, next to the nested value that the
comments of `Array.h` promise.

Composition: JoinTable and GroupBy are what HashIndexedView, Hashtable and PreAggregation
promise. Parallelize, Join, SetOperation, Aggregation and Ordering use join tables, hash
maps and buffers at that level, as atomic operations, and EntryLock justifies the atomic
locked reduction of Parallelize: with the lock held, a reduction is one change of the entry,
made when its value is written (`ReductionIsAtomic`). Aggregation and Ordering share AggregateFunctions.
Autodiff is composed of Expressions; Optimizer of the four modules before it. The plans of
Optimizer are what Join, Aggregation and Ordering translate; predicates are abstract there,
and Expressions is the reason why they may be.

Runs whose questions belong together share a module that puts two specifications side by
side: a behaviour is one of either (HashAggregation, MCOperators,
MCAggregationOrdering).

Theorems are in eight modules: HashIndexedViewProofs, EntryLockProofs, HashAggregationProofs,
GrowingBufferProofs, ParallelizeProofs, StorageProofs and AggregationProofs extend the module
they are about, JoinSetOperationProofs extends Join and SetOperation. The inductive invariant of
a component is defined at the end of the component's own module, so that TLC can evaluate it
too; that of Aggregation, which speaks of the state of a function over any set of values, is in
its proof module.

## 3. Runs

| run | instance | shows |
|---|---|---|
| `join_table` | 3 workers, 4 entries, 4 slots, 2 tag bits; probes with every hash | `NoLostEntry`, `TagCovers`: while workers race, what was published stays reachable and the slot's tag covers it; `ProbeExact`; `BuildEnds`; `ImplementsJoinTable` |
| `entry_lock` | 3 workers, 4 tuples, a chain of 2 entries | `MutualExclusion`; `ChainKept`; `ReductionIsAtomic`: the steps of a reduction are one change of the entry, all others change none, also for walks that meet lock bits (`NoLostUpdate` follows); `AllDone` |
| `hash_aggregation` | 5 rows of 4 keys with equal hashes, slots and tags, 2 workers; Hashtable with capacity 1, PreAggregation with a cache of one slot and 4 partitions of which 2 are empty | `EntriesFindable` through every growth; `GroupsListedOnce` in spite of evictions and racing partition tasks; `LookupsRight`; `BothImplementGroupBy` |
| `growing_buffer` | 6 elements, 2 workers, capacity 1, chunks of 2 | `InsertInRoom`; `ResultComplete` of sort and copy; `VisitedOnce`; `IterationEnds` |
| `parallelize` | 14 blocks, 3 threads | `ResultMatchesSequential`: the parallel program computes what one thread computes; `NoInsertAfterMerge`; `ReadersAfterWriters` in the new order; `QueryFinishes` |
| `operators` | every kind of join, predicates with equalities, IS NOT DISTINCT, expressions, constants, OR and none, over tables of up to 2 rows with NULLs and duplicates, hash values modulo 5; 7 set operators, all inputs of 2 rows with up to 2 copies. 123 statements over three tables (inner joins of two to four inputs, outer joins nested and below predicates, EXISTS, ANY, ALL and scalar subqueries with five kinds of correlation, grouping, DISTINCT, LIMIT, WITH), three databases with NULLs, duplicates and an empty table; every join order that some costs prefer; GOO from 7 subgraphs on | `ResultIsJoin`; `MarkersAreMatches`; `ResultIsSetOperation`. `ResultIsQuery`: after every pass the plan computes the rows of the statement, each as often as SQL says; `ColumnsProvided`: once unnested, no operator reads a column its inputs do not provide; `OrdersFound`: DPHyp finds exactly the plans that the definition by all partitions has, and GOO always ends with one |
| `aggregation_ordering` | 10 grouping queries (keys or none, ROLLUP, DISTINCT, nullable or not), all tables of up to 3 of 12 rows; 25 queries with sort, LIMIT, TopK or windows, tables of up to 4 rows with ties and NULLs, offsets of 4 bits; 2 workers | `ResultIsAggregate`: one row per group of every grouping set, with SQL's value; `PartialsCombine`: at any moment the states of the workers combine, in any order, to the value of the rows read so far; `ResultIsOrdered`; `WindowValuesAreFrames` |
| `aggregation_null_sums` | the aggregation queries of the same run | `NullsSumToNull` is violated (section 5) |
| `storage` | 3 rows with 2 hashes, a primary key, sessions opened eagerly, kills anywhere | `AckedRowsKept`: rows of completed statements are on disk or the database refuses to open; `IndexComplete`, `RowCountRight`, `PersistedOnDisk` unless a statement was cut off |
| `storage_lazy_write` | the same without a key, lazily opened sessions may write | `WrittenTableLoaded` is violated (section 5) |
| `expressions` | 292 expressions over nullable and other columns of seven types, 64 rows, two values for every undefined payload; 381 calls of the derivation functions on numbers and arrays | `CompiledIsSql`; `TrapsAsSql`: a division by zero is executed exactly where SQL divides by zero; `DerivativesRight` |
| `arrays` | texts, ARRAY[...] and array_agg of up to three levels, ragged, with NULLs, empty structures and headers; two operations after each other; up to 18 elements, with bits that end in, at and behind a byte | `ArrayIsValue`: the block is well formed and stands for the documented value, and fails exactly when documented to; `PrintParses` |

The `TypeOK` definitions of modules without a theorem about them say what the variables hold.

*Why the bounds are enough.* Two workers suffice for races on one slot or entry; the third
is there so that one of them can fail a compare-exchange because of another that in turn
overtook. Hashes are chosen so that equal hashes, equal slots with different hashes, equal
tags, and a key that no row has all occur; capacities are 1 so that five rows cause two
growths, and a cache of one slot evicts at every change of key. Six elements are four blocks
(1, 2, 4 with merges), and chunks of 2 split the larger ones. Tables of two to four rows
with NULL and a duplicate contain each case the operators tell apart: no row, one, ties, a
group of NULLs only, a row without a partner, a limit below, at and above the number of rows,
a tree of depth three. All inputs of these sizes are enumerated, not sampled. For the
optimizer four inputs are the fewest with a bushy tree, a cycle that is not a triangle and a
predicate of three tables; a chain of three has 6 connected
subgraphs and a triangle 7, so both solvers are used, and `OrdersFound` asks both about every region. Two array operations suffice for one to read what the other
wrote; ragged arrays of three levels are the smallest on which the offsets of
a level differ from those of its parent; arrays of five to eight elements and an operand of nine put
the bits of a second array at every kind of place in a byte. Expressions are combined as deeply as the rewrites look
(two levels of AND and OR, constants on either side).

*Deadlock* is checked where the model has an explicit end; it is off in the models of
queries (their last state is `done`), in `parallelize` because `QueryFinishes` says more, and
in `growing_buffer`.

*Fairness.* In HashIndexedView every step of a worker is weakly fair, as the operating
system runs every thread, and `Publish` is strongly fair: the weak compare-exchange
may fail for no reason, but not forever while its expected value is current. EntryLock is
weakly fair per worker: strong fairness is not needed, since a worker with finitely many tuples
leaves the lock free at last, and `AllDone` is about finitely many. GrowingBuffer: the
tasks of the iteration run. Parallelize: the compiler's steps, the calling thread and
every thread's steps; no step of a worker blocks but the spin lock. No liveness is claimed for
the other models, whose actions are calls that a client may or may not make.

## 4. Proofs

Theorems hold for all values of the constants that satisfy the named ASSUMEs.

| theorem | states |
|---|---|
| `TypeCorrect`, `BuildCorrect`, `TagsCorrect`, `ProbeCorrect`, `Implements` | `TypeOK`, `NoLostEntry`, `TagCovers`, `ProbeExact` and the refinement of JoinTable |
| `LockExclusive`, `UpdatesKept`, `LockKeepsChain`, `UpdatesAtomic` | `MutualExclusion`, `NoLostUpdate`, `ChainKept`, and the refinement `ReductionIsAtomic` |
| `EntriesStayFindable`, `LookupsStayRight`, `GroupsStayListedOnce`, `TablesImplementGroupBy` | `EntriesFindable`, `LookupsRight`, `GroupsListedOnce` and the refinement of GroupBy by both tables |
| `BufferInvariant`, `InsertsStayInRoom`, `ResultsAreComplete`, `ElementsVisitedOnce` | `BufferInv`, `InsertInRoom`, `ResultComplete`, `VisitedOnce` |
| `PassesInvariant`, `RootsInOrder`, `NothingAfterMerge`, `ReadersFollowWriters` | `ParallelizeInv`, a topological order, `NoInsertAfterMerge`, `ReadersAfterWriters` |
| `StorageTypes`, `RowsSurvive`, `IndexStaysComplete`, `RowCountStaysRight`, `PersistedStaysOnDisk` | `TypeOK`, `AckedRowsKept`, `IndexComplete`, `RowCountRight`, `PersistedOnDisk` |
| `JoinInvHolds`, `JoinRight`, `MarkersRight` | `JoinInv`, `ResultIsJoin`, `MarkersAreMatches` |
| `SetInvHolds`, `SetOperationRight` | `SetInv`, `ResultIsSetOperation` |
| `AggregationInvHolds`, `PartialsRight`, `ResultRight` | `AggregationInv`, `PartialsCombine`, `ResultIsAggregate` |
| `ReduceCommutes`, `MergeOrderIrrelevant` | the algebra of the aggregate functions |

**HashIndexedViewProofs** (from `ViewAssumption`: hashes and tags are functions, at least
one slot). `TypeCorrect`, `BuildCorrect`, `TagsCorrect`, `ProbeCorrect`, and `Implements`,
the refinement of JoinTable. The invariant `ViewInv` adds to the properties what makes them
inductive: `Ownership` (each entry is owned by one worker, or untaken, or published, so
nobody else writes its next pointer), `Linked` (at the compare-exchange the entry's next
pointer is the expected value and the new value is tagged for both), `Acyclic` and
`ChainInSlot` (entries behind a published entry belong to the same slot, so the tag of the
slot speaks for them), and `ProbeAhead` (what a running scan has found, and what is still
in front of it, are together all matches). Reachability is defined as the smallest closed
set, so its lemmas (`ChainStep`, `ChainFrame`, ...) need no induction over the chain.

**EntryLockProofs** (from `EntryLockAssumption`): `LockExclusive`, `UpdatesKept`,
`LockKeepsChain`, and with them `UpdatesAtomic`: every step maps to an atomic update of
one entry or to a stutter. Both lock and unlock write back a word read earlier with a plain
load; it is right because of `SeenFresh` (the pointer part read is still the one in memory,
since nobody ever changes it) and `LockBits` (the lock bit is set exactly while a worker is
inside). `LoadedFresh` says that the value a worker has loaded under the lock is the current
one, `WalkBefore` and `OnEntry` that a walk has not passed its target.

**HashAggregationProofs** (from `ChainedTableAssumption` and `PartitionAssumption`). `Chained`
gives the shape of a table: there is one entry per group, every slot points to the latest of its
entries and every entry to the latest before it (`Linked`), and the tag of a slot covers those
behind it. `EntriesFindable` and `LookupsRight` follow from it, and growing and merging keep it. `CountedOnce` and `RowsCounted` say
that every consumed row is counted by exactly one live entry, while entries are evicted from a
cache, wait in an output buffer, are merged into another and leave. `PartitionsApart` separates the
tasks of the partitions, so that a step of one is no step of another; `Listed` relates the
common buffer to the finished partitions. With them every step of either table maps to a step of
GroupBy or to a stutter. Chains and prefixes are compared by the least counterexample
(`LeastNat`), which needs no induction scheme.

**GrowingBufferProofs** (from `GrowingBufferAssumption`, `NullAssumption`). `InsertInRoom`
is not inductive: the code compares the length of the last block with a capacity the vector keeps
for all its blocks. `LastOpen` says that `currCapacity` is always the room of the last block, also
after a merge has moved the other vector's blocks in front of the own ones, which is the reason
for that order. `HeldOnce` (an element is in one place of one live buffer) gives
`ResultComplete` for merge, sort and copy; `TaskedOnce` (an element that has not been visited is in
one task, at one place) gives `VisitedOnce`.

**ParallelizeProofs** (from `ThreadsAssumption`, `ProgramsAssumption`). `ParallelizeInv` has
one part per pass: `LocalsRight` (what `AnalyzeScan` has marked so far is what it decides of each
pipeline), `BlockRight` (the new block has every node once, in the old order, and each merge
before the first other user), `OrderRight` (the worklist: a root's count is the number of its
dependencies that are not yet in the order), `RunRight` (rows in flight belong to the pipeline at
`pos`; what is merged has its merge before). `RootsInOrder` uses that dependencies point
backwards in the block: if the worklist ran dry with roots left, the first of them would have all
of its dependencies in the order, and so a count of zero. The two safety theorems have hypotheses
about the program: `FilledFirst` (local instances are filled before the merged state is
used, and it is used), `ScansReported` (a scan of a written state reports a read of what was
written), `ViewsBuiltBetween` (a view is created between the pipeline that fills its buffer and
those that use it). All hold of the blocks of the run (TLC). The two programs of
section 5 that violate a proved property break one of them: `MCSequentialLeft` is not
`FilledFirst`, `MCCountUnion` not `ScansReported`.

**StorageProofs** (from `StorageAssumption`, and `ValuesAssumption`: a missing or torn file
is no content). The invariant has two layers. `CrashInv` holds
across kills at any moment: `WorkOrdered` (the rest of a statement opens a file only to write
it next, and changes the index last), `SessionShape` (a lazy session has changed nothing),
`DiskKeeps` and `MemoryKeeps` (a data file that can be read, and a loaded table, have the
acknowledged rows). `CleanInv` holds as long as no statement was cut off: `CleanDisk`,
`CleanMemory`, `CleanIndex` and `CleanWork` say which files and objects already describe the new
table and which the remaining steps will bring up to date. `RowsSurvive` needs `~LazyWrites`,
since with lazy sessions that write it is false (run `storage_lazy_write`); the other three also
need `~UnpersistedAppends`, as `storage` has it: rows appended without `set persist=1` are
in memory only, and the files do not describe them.

**JoinSetOperationProofs**, joins (no assumption on the constants): `JoinRight` and
`MarkersRight` hold of every join that satisfies `JoinCovered`, for all tables, predicates,
hash functions modulo `HashSize`, orders of the rows and choices of the optimizer. The
argument has three layers. *Extraction*: after n conjuncts the walk of `extractKeys` has
a closed form (`Walked`): the first n equalities between the sides are true, their keys of this
side are replaced in every comparison, and the key of conjunct i is at place `Rank(i)` of the
list. It uses that operands of one value are one operand (CSE), and that replacing a key
touches no other key and makes no other comparison a key. The walk for the right side starts from the
predicate that the left one has left, and the second `prepareForHash` from both, so that what a
walk needs is also what it keeps (`ReplacedRelated`). *Lookup*: equal keys
have equal hashes, the columns of an index are its keys, and so the rows that
pass the lookup and the remaining conjuncts are those that match (`FilteredIsMatch`).
*Pipelines*: `JoinInv` says what was materialized (`StoreHolds`), marked (`FlagHolds`) and emitted
(`ResultHolds`) in terms of the rows probed and scanned so far. `ResultIsJoin` speaks of the end
only and is not inductive; each step adds the pairs of one row, which no other row emits
(`EmittedFor`, `ScannedFor`).

`JoinCovered` is what the code relies on without testing it: `KeysApart` (no equality
compares constants only; no constant is compared with columns of both sides; an expression
that is a key is compared with the other side only), `KeysInOrder` for an index, and a row
on the right side of a constant join. All joins of the run satisfy it except
one with the conjunct `1 = 1`. Without it the theorems are false, see
`MCSharedConstantQueries`, `MCSharedExpressionQueries`, `MCIndexQueries` and `MCScalarQueries` in
section 5.

**JoinSetOperationProofs**, set operations (from `MaxCopiesAssumption`): `SetInvHolds` and
`SetOperationRight`, for any set of rows and any number of copies. The map and its counters always
agree with the difference between the inputs and their unread rest, and the result with the
scanned entries.

**AggregationProofs** (from `NullAssumption`, `MaxIntAssumption`, `QueriesAssumption`: the
functions the parser knows, ANY only beside the keys the optimizer left, ARRAY_AGG only over a
column that is not nullable and no STDDEV_SAMP(DISTINCT), see section 5, keys and no ROLLUP
where there are no functions, and at most 32 keys in a ROLLUP;
`TablesAssumption`: the column holds NULLs and integers of its type). `IsState` says what the
state of each function over a set of tuples is, default values included: MAX of a column that is
not nullable starts at 0 and SUM ends at 0 over NULLs, so these states are not yet SQL's
answers. `StateDefault`, `StateReduce` and `StateCombine` show that the three blocks of
`RelAlgToSubOp.cpp` start with the state of no tuples, add one, and unite those of two disjoint
sets; `StateIsValue` where the state is SQL's value and where it is one of the two exceptions
the property names. `PartialsCombine` compares a fold over the workers with the tuples
taken so far and is not inductive; `AggregationInv` has in `WorkersInv` a split of these tuples
among the workers such that each worker's map is `Right` for its part, and `MergeAllRight` unites
the parts in any order. That it may be any order is a matter of the functions:
`MergeOrderIrrelevant` (combine is commutative and associative with the default state as unit,
MIN's unit being `MaxInt`) and `ReduceCommutes` (merging commutes with reading one more row)
say so for COUNT, SUM, MIN and MAX. ANY and ARRAY_AGG have no such algebra, their states depend
on the order, and `IsState` admits every one that SQL does.

`ResultRight` goes on to the result. `ResultsInv`: every merged state is `Right` for all tuples
of its sub-aggregation, and those not yet run are the ones still to be started. The
tuples of a group are not its rows: a DISTINCT sub-aggregation reads a projection.
`RowsOfGroup` matches them with the rows that DISTINCT leaves (the first of each value),
`SumMatched` and `SizeMatched` carry sums and counts over, and `FinalRight` computes AVG and
STDDEV_SAMP from the states of their parts, NULLs and single rows included. `OutInv` is about the
rows: those written stand for groups of the grouping sets that are done, one for each group; two
grouping sets never write the same row because GROUPING tells them apart (`ShowsOnce`), so the
sizes add up.

Only model-checked: `ResultMatchesSequential` of Parallelize (its reference runs the block by
a fold over rows and operators, so the comparison is an induction over the program's data);
Ordering; the optimizer, expressions, derivatives and arrays; that
the inputs of the runs satisfy the hypotheses of the theorems; every liveness property.

Out of the prover's reach: liveness under fairness and ENABLED (`BuildEnds`, `AllDone`,
`IterationEnds`, `QueryFinishes`); induction over data (so what
the recursive heap, tree and fold operators compute for every input stays with TLC, and
Ordering, Expressions, Arrays and the modules of the optimizer, which are recursive over trees,
have no theorems).

## 5. Where the code and the properties disagree

`storage_lazy_write` shows that a lazily opened session (`run-sql`, `measure-sql`, `run-mlir`)
loses the rows of a relation that its module writes without reading it. The module of all
statements is lowered first, and the loop at `lib/execution/Execution.cpp:73` ("Load the required
tables/indices for the query") calls `loadData` only for relations with a `GetExternal`. If the
module then runs `SET persist=1`, `setPersist` (`lib/runtime/Relation.cpp:274`) flushes, and
`flush` (line 202) writes the table that was never loaded, which is empty, over the data file.

`aggregation_null_sums` shows that the SUM of a group of NULLs is 0: the aggregate block of a
nullable SUM (`lib/Conversion/RelAlgToSubOp/RelAlgToSubOp.cpp:1806`) replaces a NULL argument by
zero as it does a NULL state. `test/sqlite-small/unnesting.test:213-219` expects NULL. AVG and
STDDEV_SAMP, which are made of SUM, then divide by zero. The other aggregation properties exclude
these groups by name (`SumOfNulls`).

The following cases were met as well. Runs leave them out, by an exclusion named in the
property or by the choice of inputs, and would fail with them:

- **UNION with a sequential left side** (`VALUES`, `ORDER BY ... LIMIT`) and a scan on the
  right (`ParallelizePass.cpp:358`): the merge of the thread-local map is put before the first
  user that is not local, here the left pipeline; rows that other threads insert later are
  lost. `MCSequentialLeft` in MCParallelize; `ResultMatchesSequential` and
  `NoInsertAfterMerge` fail.
- **count(\*) over a UNION of two sequential sides** (`SubOpDependencyAnalysis.cpp:97`): a scan
  that gathers no member depends on nobody and may be ordered before its writers.
  `MCCountUnion`; `ReadersAfterWriters` fails.
- **Inner group join** (`SubOpToControlFlow.cpp:3577`, comment at 3534): the scatter of the
  marker writes all members of the entry back, also those another thread reduces under the
  lock. `MCInnerGroupJoin`; `ResultMatchesSequential` fails.
- **Index join** (`OptimizeImplementations.cpp:145`, comment at 144): accepts a predicate that
  mentions the key columns in another order or in an inequality. `MCIndexQueries` in MCOperators.
- **Full outer join with a constant that two conjuncts share** (`OptimizeImplementations.cpp:78`):
  the replacement of a key's value also changes the other conjunct. `MCSharedConstantQueries`.
- **Outer join with an expression in two conjuncts**, one a key, the other a comparison with
  its own side or a constant (`OptimizeImplementations.cpp:45`): the column that replaces the
  expression is created inside the walk and not in `required`, so that the other comparison
  counts as one between the sides and becomes a key too. `MCSharedExpressionQueries`;
  `ResultIsJoin` and `MarkersAreMatches` fail.
- **Scalar subquery without rows as a constant join** (`RelAlgToSubOp.cpp:1380`): reads the
  state nobody wrote; `test/sqlite-small/unnesting.test:53-60` expects NULL.
  `MCScalarQueries`.
- **Stale index** (`HashIndex.cpp:101`): after a kill between the data file and the index file
  the hashes loaded are those of the older table; `IndexComplete` holds unless a statement was
  cut off.
- **MAX over a column that is not nullable**, with GROUP BY, starts at 0
  (`RelAlgToSubOp.cpp:1679`): wrong for negative values. `MaxBelowDefault`.
- **ARRAY_AGG** over a nullable column has a nullable state. The combine block replaces NULL states
  by empty arrays but calls `ArrayAgg` on the original ones (`RelAlgToSubOp.cpp:2004`): a worker
  without rows makes the result NULL, and two arrays are nested instead of concatenated
  (`ArrayAggCombine`). For a column of numbers the aggregate block does not even compile: the array
  made of the value is not nullable, and is selected against the state, which is (lines 1904-1967).
  Nor does STDDEV_SAMP(DISTINCT), whose squares are computed behind the distinct projection.
  `QueriesAssumption` excludes both. Over no rows ARRAY_AGG is empty, not NULL.
- **Windows**: a frame bounded below and unbounded above overflows
  (`SubOpToControlFlow.cpp:4008`, `EndOverflows`) and mostly ends in an exception; a frame without
  its own row is clamped to the first or last row (`FrameMissesRow`); ROW_NUMBER counts from
  the frame's begin (`CountsInFrame`); RANK is ROW_NUMBER, also for ties; RANGE is treated as ROWS, so
  peers of the current row are left out, and CURRENT ROW as an end without ORDER BY always means
  the whole partition (`Parser.cpp:2431`); `count(*) OVER`
  dereferences a null node (`Parser.cpp:3089`).
- **LIMIT 0** (`Heap.cpp:36`) compares with an element that does not exist; not modelled.

Optimizer (the statements of MCOptimizer leave these out, except the first):

- **Unnesting does not end** for a correlated selection below a cross product: the first of
  `getAllSubOperators` is the operator itself (`Unnesting.cpp:178`). Action `UnnestingOverflows`.
- A correlated aggregate without GROUP BY loses its one row under EXISTS or ANY, in an
  expression (`count(*) + 1`) or under HAVING.
- Keys are reduced wrongly after general unnesting has added outer columns to a grouping that
  holds their key (`PropagateConstraints.cpp:54-98`).
- `leftTes` and `rightTes` drop the pseudo nodes of created columns (`QueryGraphBuilder.cpp:68`):
  a semi, anti or outer join whose predicate reads a column created by an outer join
  below it may be ordered below that join.
- `decomposeOuterJoin` leaves a return without an operand if the whole ON predicate reads the
  right side only and is no AND; all parts of an AND moved leave an empty AND.
- Columns of outer joins are named by position and name only (`Parser.cpp:1355`), names of common
  table expressions are global to the parser; ANY and ALL have FALSE and TRUE where SQL has
  NULL, and the meaning in SqlQuery follows the parser there.

Expressions (inputs of MCExpressions leave these out):

- IN with a NULL in its list, or BETWEEN with a NULL bound, is NULL even where another
  comparison decides.
- A constant LIKE pattern (`RuntimeFunctions.cpp:78`) takes `_` literally and `.` as any
  character, and without `%` means "ends with"; patterns in the run have `%` and neither `_` nor `.`.
- `OrOp::canonicalize` (`DBOps.cpp:348`) drops a disjunct all of whose parts are common:
  `(x AND y) OR (x AND y AND z)` becomes `x AND y AND z`.
- `%` of decimals with digits after the point; `round` of ties, toward zero; `0^0` is 0;
  `substring(s from a for b)` takes b as the end; a month added to a day the next month does
  not have runs into the month after it; days before 1970; a power with a nullable exponent; a
  literal as the operand of CASE; a decimal literal with more digits than its target.
- Integer overflow wraps silently and floats are rounded; neither is modelled, values are small
  and fractions exact. Only widening casts of numbers occur, and divisions of floats by zero do not.

Derivatives:

- The product `*` of arrays is elementwise but derived as a matrix product, right only with a
  scalar seed (`Parser.cpp:3803`); the gradient of `**` is transposed in reverse mode; forward
  mode turns `-m` of an array into `-1 - m'`. Each is in the run with the mode and the shapes for
  which it is right (`BackwardBodies`, `ForwardBodies`).
- A power whose exponent is not syntactically constant takes the logarithm of its base, NaN for a
  negative one (`Parser.cpp:4337`: "Skip log(base) term when exponent is constant
  (rightPartial == 0) to avoid nan from log(negative)"); exponents are constants or columns over a
  positive base. `t.x` and `x` count as two variables; columns of the same name collide.

Arrays (left out by MCArrays or by guards of ArrayValues):

- Behind a full byte of bits: a NULL appended at a multiple of eight elements is lost and the texts
  are moved by a byte (`ArrayAppend.cpp:223`; `NullKept`); two arrays of strings with a multiple of eight
  elements together have their texts one byte too far (`ArrayNullHandling.cpp:56`; `AppendKept`);
  a string appended at a multiple of eight copies the first character of the texts as bits, so that
  a later element reads as NULL (`ArrayNullHandling.cpp:30`; `TextsKept`). `copyNulls`, `append` and
  `appendNull` are modelled with these effects; without any one of the guards `ArrayIsValue` fails. All
  other appends, across a byte or behind a full one, are in the run.
- A slice of an array of one level reads past the widths (`StaleWord`), and a lower bound
  below the first index becomes the new start index.
- `appendFront` does not move the NULL bits; `transpose` of NULLs uses positions as element
  numbers; the shape checks that `Array.h` documents for `+`, `-`, `*`, `transpose` and
  `matrixMul` are commented out.
- Texts with a header deeper than their elements, with empty structures below the elements'
  level, or with unquoted words that start with n; `fill` with a zero length before the last;
  `getHighestPosition` of strings.
- ARRAY_AGG over a nullable column, whose states are those of AggregateFunctions (see above): its
  first array becomes the state instead of the only entry of one (`RelAlgToSubOp.cpp:1969`).
- ARRAY_AGG of two-level arrays onto an empty state throws.

## 6. Limits

- Rows, keys and predicates are small values; hashes and tags are tables given by the
  instance; strings, decimals and dates occur in Expressions and Arrays only. Integers keep their
  width where a wrapped offset matters (Ordering) and are unbounded elsewhere.
- Memory is sequentially consistent. The generated code and the runtime use plain loads and
  stores beside atomics; the models interleave them one by one but do not reorder them.
- Parallelize has no nested states or loops (a window's map of buffers, the fixpoint). Mark
  joins are two-valued, as the code is (`test/sqlite-small/join.test`: "todo: correct
  null-behavior not implemented"). Single joins have at most one match. CollectionJoin has no
  lowering.
- Sorting is any order that satisfies the comparison (the code calls `tbb::parallel_sort` with it).
- Plans are values: what an optimizer pass does to the text of the IR beyond its operators
  (order of operations, dead code, names made unique) is not visible. Passes over it that
  change no plan value (`ExtractNestedOperators`, common subexpressions, meta data) are no steps.
- Costs, cardinalities and samples are nondeterministic choices between the plans they compare.
  `joinPlans` conjoins the predicates in the order of their pointers' hashes and puts the smaller
  side of an inner join on the left; the model fixes both orders, which no result depends on.
- The mask of GROUPING is the set of its bits. It has 32 (`1 << (j - 1)` is an int shift,
  `Parser.cpp:2939`). A ROLLUP without aggregate functions is left out: its last part, the distinct
  projection on no columns, has no row for an empty input where SQL has one.
- Storage has one relation; relations share only the catalog's persist flag.

- Not modelled, and why: WITH RECURSIVE and its fixpoint (`Parser.cpp:880-1003`), array
  concatenation with `||`, `date_diff`, `hash`, `random`; the sub-operator passes `GlobalOpt`,
  `ReuseLocal`, `PullGatherUp`, `NormalizeSubOp` and `FoldColumns`, which change how a pipeline
  names and reads members and not which states it touches when (Parallelize starts after them);
  base table scans, maps and renames of the translation, one sub-operator each; backends, DSA
  and Util lowering, whose meaning is that of the target language; Arrow builders, printing,
  timing and tools.

## 7. Plan

Done, in this order: join table, storage, entry locks, the two aggregation tables, buffers,
parallelization, joins, set operations, aggregation, ordering; then the optimizer with
subqueries, predicates and join order, expressions with three-valued logic and types,
derivatives, and the array runtime.

Proved, in this order: join table, entry locks, set operations, aggregate functions; then
storage, both aggregation tables with their refinement of GroupBy, growing buffers, and the passes
of Parallelize; then joins, and the reduction under the lock as the atomic step Parallelize takes
it for, and the partial states and the result of aggregation. A theorem to add: that the
comparison of `ResultIsOrdered` is a strict weak order (in a module without recursion).

What could be modelled next: the sub-operator passes on the blocks of Parallelize, with
`ResultMatchesSequential` as the property to keep; recursive queries; hash multi-maps with
their slots; the loading and execution sequence of `QueryExecuter`.
