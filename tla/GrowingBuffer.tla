---------------------------- MODULE GrowingBuffer ----------------------------
(***************************************************************************)
(* runtime::GrowingBuffer and the FlexibleBuffer in it: thread-local       *)
(* buffers that grow by blocks of doubling capacity, are merged by moving  *)
(* the blocks, and are then iterated in parallel, sorted, or copied.       *)
(*                                                                         *)
(* Only the capacity of the last block is stored (currCapacity); a block   *)
(* knows how many elements it has but not how many fit.  The model keeps   *)
(* each block's real capacity, the argument of its malloc, as `room`.      *)
(***************************************************************************)
EXTENDS Integers, Sequences, FiniteSets, SequencesExt

CONSTANTS
    Threads,
    Source,             \* the tuples that are materialised: distinct numbers
    InitialCapacity,    \* 1024, or the initial_capacity attribute
    ChunkSize,          \* 20000
    Null

ASSUME GrowingBufferAssumption ==
    /\ Source \in Seq(Nat) /\ Cardinality(ToSet(Source)) = Len(Source)
    /\ InitialCapacity \in Nat \ {0}
    /\ ChunkSize \in Nat \ {0}

BufferType == [totalLen : Nat, currCapacity : Nat, blocks : Seq([elements : Seq(Nat), room : Nat])]

ASSUME NullAssumption == Null \notin BufferType

VARIABLES
    todo,       \* the rest of Source: which worker takes which is open, so one
                \* order of the source stands for all
    local,      \* thread-local buffers, Null before they are created
    phase,      \* "fill", "merge", "merged", "iterate", "done"
    first,      \* the buffer that merge returns
    tasks,      \* chunks of the parallel iteration that nobody has run yet
    visits,     \* how often the iteration's function has seen an element
    result      \* what sort or asContinuous returned

vars == <<todo, local, phase, first, tasks, visits, result>>

Elements == ToSet(Source)

(* The constructor *)
newBuffer ==
    [totalLen |-> 0, currCapacity |-> InitialCapacity,
     blocks |-> <<[elements |-> <<>>, room |-> InitialCapacity]>>]

(* FlexibleBuffer::nextBuffer *)
nextBuffer(b) ==
    [b EXCEPT !.blocks = Append(@, [elements |-> <<>>, room |-> 2 * b.currCapacity]),
              !.currCapacity = 2 * b.currCapacity]

(* FlexibleBuffer::insert, and the store into the place it returns *)
insert(b, x) ==
    LET c == IF Len(Last(b.blocks).elements) = b.currCapacity THEN nextBuffer(b) ELSE b
    IN  [c EXCEPT !.totalLen = @ + 1, !.blocks[Len(c.blocks)].elements = Append(@, x)]

(* Slips: the other buffer's blocks moved to the end; the length not added *)
mergeAtEnd(a, b) == [a EXCEPT !.blocks = @ \o b.blocks, !.totalLen = @ + b.totalLen]
mergeNoLen(a, b) == [a EXCEPT !.blocks = b.blocks \o @]

(* FlexibleBuffer::merge: b's blocks are moved in front of a's, whose last    *)
(* block stays the one that insert fills ...                                  *)
merge(a, b) == [a EXCEPT !.blocks = b.blocks \o @, !.totalLen = @ + b.totalLen]

(* ... and b is left without blocks *)
moved == [totalLen |-> 0, currCapacity |-> 0, blocks |-> <<>>]

(* FlexibleBuffer::iterate *)
iterate(b) == FlattenSeq([i \in DOMAIN b.blocks |-> b.blocks[i].elements])

chunksWhole(c) == <<c>>
chunksRounded(c) ==
    [i \in 1 .. Len(c) \div ChunkSize |-> SubSeq(c, (i - 1) * ChunkSize + 1, i * ChunkSize)]

(* The chunks that iterateBuffersParallel feeds back for a large block *)
chunks(c) ==
    [i \in 1 .. (Len(c) + ChunkSize - 1) \div ChunkSize |->
        SubSeq(c, (i - 1) * ChunkSize + 1, IF i * ChunkSize < Len(c) THEN i * ChunkSize ELSE Len(c))]

(* What toSort[0 .. len - 1] yields when len is totalLen: beyond the end of   *)
(* the vector, anything                                                       *)
copied(s, len) == [i \in 1 .. len |-> IF i \in DOMAIN s THEN s[i] ELSE Null]

(* tbb::parallel_sort of elements that differ: with k elements up to it, an   *)
(* element becomes the k-th                                                   *)
sorted(s) ==
    [k \in DOMAIN s |-> s[CHOOSE i \in DOMAIN s : Cardinality({j \in DOMAIN s : s[j] <= s[i]}) = k]]

-----------------------------------------------------------------------------
Init ==
    /\ todo = Source
    /\ local = [t \in Threads |-> Null]
    /\ phase = "fill"
    /\ first = Null
    /\ tasks = <<>>
    /\ visits = [x \in Elements |-> 0]
    /\ result = Null

(* A worker materialises a tuple into its buffer, which it creates first *)
Materialize(t) ==
    /\ phase = "fill"
    /\ todo # <<>>
    /\ todo' = Tail(todo)
    /\ local' = [local EXCEPT ![t] = insert(IF @ = Null THEN newBuffer ELSE @, Head(todo))]
    /\ UNCHANGED <<phase, first, tasks, visits, result>>

(* GrowingBuffer::merge: the enumeration creates a buffer if there is none,   *)
(* and its first one receives the others                                      *)
StartMerge ==
    /\ phase = "fill"
    /\ \E t \in Threads :
          /\ local[t] # Null \/ \A u \in Threads : local[u] = Null
          /\ first' = t
          /\ local' = [local EXCEPT ![t] = IF @ = Null THEN newBuffer ELSE @]
    /\ phase' = "merge"
    /\ UNCHANGED <<todo, tasks, visits, result>>

MergeNext ==
    /\ phase = "merge"
    /\ \E t \in Threads \ {first} :
          /\ local[t] # Null /\ local[t] # moved
          /\ local' = [local EXCEPT ![first] = merge(@, local[t]), ![t] = moved]
    /\ UNCHANGED <<todo, phase, first, tasks, visits, result>>

EndMerge ==
    /\ phase = "merge"
    /\ \A t \in Threads \ {first} : local[t] \in {Null, moved}
    /\ phase' = "merged"
    /\ UNCHANGED <<todo, local, first, tasks, visits, result>>

(* A pipeline that is not parallel materialises into the merged buffer *)
MaterializeMerged ==
    /\ phase = "merged"
    /\ result = Null
    /\ todo # <<>>
    /\ todo' = Tail(todo)
    /\ local' = [local EXCEPT ![first] = insert(@, Head(todo))]
    /\ UNCHANGED <<phase, first, tasks, visits, result>>

(* GrowingBuffer::sort: pointers to all elements, sorted by tbb::parallel_sort *)
(* with the comparison of the query, then the elements copied                 *)
Sort ==
    /\ phase = "merged"
    /\ result = Null
    /\ result' = [kind |-> "sorted",
                  values |-> copied(sorted(iterate(local[first])), local[first].totalLen)]
    /\ UNCHANGED <<todo, local, phase, first, tasks, visits>>

(* GrowingBuffer::asContinuous *)
AsContinuous ==
    /\ phase = "merged"
    /\ result = Null
    /\ result' = [kind |-> "continuous", values |-> copied(iterate(local[first]), local[first].totalLen)]
    /\ UNCHANGED <<todo, local, phase, first, tasks, visits>>

(* FlexibleBuffer::iterateBuffersParallel: one task per block *)
StartIterate ==
    /\ phase = "merged"
    /\ phase' = "iterate"
    /\ tasks' = [i \in DOMAIN local[first].blocks |-> local[first].blocks[i].elements]
    /\ UNCHANGED <<todo, local, first, visits, result>>

(* A worker runs a small chunk *)
RunChunk ==
    /\ phase = "iterate"
    /\ \E i \in DOMAIN tasks :
          /\ Len(tasks[i]) <= ChunkSize
          /\ visits' = [x \in Elements |-> visits[x] + Cardinality({j \in DOMAIN tasks[i] : tasks[i][j] = x})]
          /\ tasks' = RemoveAt(tasks, i)
    /\ UNCHANGED <<todo, local, phase, first, result>>

(* A large one is split instead *)
SplitChunk ==
    /\ phase = "iterate"
    /\ \E i \in DOMAIN tasks :
          /\ Len(tasks[i]) > ChunkSize
          /\ tasks' = RemoveAt(tasks, i) \o chunks(tasks[i])
    /\ UNCHANGED <<todo, local, phase, first, visits, result>>

EndIterate ==
    /\ phase = "iterate"
    /\ tasks = <<>>
    /\ phase' = "done"
    /\ UNCHANGED <<todo, local, first, tasks, visits, result>>

Next ==
    \/ \E t \in Threads : Materialize(t)
    \/ StartMerge \/ MergeNext \/ EndMerge
    \/ MaterializeMerged
    \/ Sort \/ AsContinuous
    \/ StartIterate \/ RunChunk \/ SplitChunk \/ EndIterate

(* tbb::parallel_for_each runs every task it has been given *)
FairSpec == Init /\ [][Next]_vars /\ WF_vars(RunChunk \/ SplitChunk \/ EndIterate)

-----------------------------------------------------------------------------
(* Properties *)

Buffers == {local[t] : t \in {u \in Threads : local[u] # Null}}

(* insert never writes beyond the end of a block, although it only knows one  *)
(* capacity for all blocks of a buffer that merges keep adding to.            *)
InsertInRoom ==
    \A b \in Buffers : \A i \in DOMAIN b.blocks : Len(b.blocks[i].elements) <= b.blocks[i].room

(* sort and asContinuous copy totalLen elements out of a vector they filled   *)
(* by iterating: every element of the buffer is in the copy once, in order    *)
(* if it was sorted, and nothing else is.                                     *)
ResultComplete ==
    result # Null =>
        /\ ToSet(result.values) = Elements \ ToSet(todo)
        /\ Len(result.values) = Cardinality(Elements \ ToSet(todo))
        /\ result.kind = "sorted" =>
              \A i \in 2 .. Len(result.values) : result.values[i - 1] < result.values[i]

(* The parallel iteration shows its function every element exactly once. *)
VisitedOnce ==
    phase = "done" => \A x \in Elements : visits[x] = IF x \in ToSet(todo) THEN 0 ELSE 1

(* The parallel iteration ends: splitting a block yields blocks that are not  *)
(* split again.                                                               *)
IterationEnds == (phase = "iterate") ~> (phase = "done")

-----------------------------------------------------------------------------
(* The inductive invariant *)

Distinct(v) == v \in Seq(Nat) /\ \A i, j \in DOMAIN v : v[i] = v[j] => i = j

(* No element is twice in the sequences s; x is in one of them; only those of S are *)
Spread(s) ==
    /\ s \in Seq(Seq(Nat))
    /\ \A i, k \in DOMAIN s : \A j \in DOMAIN s[i] : \A l \in DOMAIN s[k] :
          s[i][j] = s[k][l] => i = k /\ j = l
Has(s, x) == \E i \in DOMAIN s : \E j \in DOMAIN s[i] : s[i][j] = x
HasOnly(s, S) == \A i \in DOMAIN s : \A j \in DOMAIN s[i] : s[i][j] \in S

contents(b) == [i \in DOMAIN b.blocks |-> b.blocks[i].elements]
Holds(b, x) == b # Null /\ Has(contents(b), x)

(* currCapacity is the room of the last block, to which insert appends *)
LastOpen(b) == b.blocks # <<>> /\ b.blocks[Len(b.blocks)].room = b.currCapacity /\ b.currCapacity # 0

BufferOK(b) ==
    /\ b \in BufferType
    /\ \A i \in DOMAIN b.blocks : Len(b.blocks[i].elements) <= b.blocks[i].room
    /\ Spread(contents(b))
    /\ HasOnly(contents(b), Elements)
    /\ b.totalLen = Cardinality({x \in Elements : Has(contents(b), x)})

TypeOK ==
    /\ Distinct(todo) /\ ToSet(todo) \subseteq Elements
    /\ local = [t \in Threads |-> local[t]]
    /\ \A t \in Threads : local[t] # Null => BufferOK(local[t])
    /\ phase \in {"fill", "merge", "merged", "iterate", "done"}
    /\ visits \in [Elements -> Nat]

MergeInOrder ==
    /\ phase = "fill" => \A t \in Threads : local[t] # Null => LastOpen(local[t])
    /\ phase # "fill" => first \in Threads /\ local[first] # Null /\ LastOpen(local[first])
    /\ phase \notin {"fill", "merge"} => \A t \in Threads \ {first} : local[t] \in {Null, moved}
    /\ result # Null => phase \notin {"fill", "merge"}

(* An element that has been taken from the source is in one buffer *)
HeldOnce ==
    /\ \A x \in Elements : x \notin ToSet(todo) <=> \E t \in Threads : Holds(local[t], x)
    /\ \A x \in Elements : \A t, u \in Threads : Holds(local[t], x) /\ Holds(local[u], x) => t = u

(* An element that has not been visited is in one task *)
TaskedOnce ==
    /\ Spread(tasks)
    /\ HasOnly(tasks, Elements \ ToSet(todo))
    /\ phase \in {"fill", "merge", "merged"} => \A x \in Elements : visits[x] = 0
    /\ phase \in {"iterate", "done"} =>
          \A x \in Elements : visits[x] = IF x \in ToSet(todo) \/ Has(tasks, x) THEN 0 ELSE 1
    /\ phase # "iterate" => tasks = <<>>

BufferInv == TypeOK /\ MergeInOrder /\ HeldOnce /\ TaskedOnce /\ ResultComplete
=============================================================================
