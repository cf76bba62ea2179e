------------------------------ MODULE Ordering ------------------------------
(* ORDER BY, LIMIT and window functions: the choice of a bounded heap for LIMIT
   over a sort (OptimizeImplementations.cpp), the comparison of rows and the
   translation of windows (RelAlgToSubOp.cpp), the heap (Heap.cpp) and the segment
   tree (SegmentTreeView.cpp), filled by several workers and merged.

   A query is [specs, limit, window]: the sort keys [col, desc] of ORDER BY (the
   query's own or the window's), the number of rows or NoLimit, and the window
   function [fn, nullable, start, end, partition] or NoWindow, where partition is the
   sequence of PARTITION BY columns and start and end are the frame's bounds [kind, n]:
   "unbounded", "current", or n rows "preceding" or "following". Rows are known by
   their position in the input. *)
EXTENDS Integers, Sequences, FiniteSets, FiniteSetsExt, SequencesExt, AggregateFunctions

CONSTANTS
    Threads,        \* the workers of the parallel scan
    Queries,        \* the queries to run
    Tables,         \* the contents of the input, sequences of rows
    NoLimit,
    NoWindow,
    Width           \* the width of an offset in bits

VARIABLES
    query,          \* the query
    input,          \* the rows of its input
    pc,             \* "plan", "lower", "scan", "view", "done" or "failed"
    plan,           \* "sort", "limit", "topk" or "window"
    todo,           \* the rows no worker has taken yet
    local,          \* the states of the workers that have one
    merged,         \* the merged state
    out             \* the views returned so far, with a value for each row

vars == <<query, input, pc, plan, todo, local, merged, out>>

IntMax == 2 ^ (Width - 1) - 1
IntMin == -(2 ^ (Width - 1))

----------------------------------------------------------------------------
(* Comparing rows *)

\* NULL is larger than every value.
SortCompare(left, right) ==
    IF left = Null \/ right = Null
    THEN (IF left = right THEN 0 ELSE IF right = Null THEN -1 ELSE 1)
    ELSE (IF left < right THEN -1 ELSE IF left = right THEN 0 ELSE 1)

\* One sort key; DESC swaps the operands.
CompareBy(spec, i, j) ==
    IF spec.desc THEN SortCompare(input[j][spec.col], input[i][spec.col])
                 ELSE SortCompare(input[i][spec.col], input[j][spec.col])

\* The first key that differs decides.
spaceShipCompare(specs, i, j) ==
    LET differ == {p \in DOMAIN specs : CompareBy(specs[p], i, j) # 0}
    IN IF differ = {} THEN 0 ELSE CompareBy(specs[Min(differ)], i, j)

\* The comparison of a heap or a sort; a LIMIT without ORDER BY compares nothing.
cmpFn(specs, i, j) == spaceShipCompare(specs, i, j) < 0

----------------------------------------------------------------------------
(* The heap *)

isLt(data, l, r) == cmpFn(query.specs, data[l], data[r])

swap(data, l, r) == [data EXCEPT ![l] = data[r], ![r] = data[l]]

\* Moves an element down among the first ones, below its larger children.
RECURSIVE bubbleDown(_, _, _)
bubbleDown(data, idx, end) ==
    LET leftChild == idx * 2
        rightChild == idx * 2 + 1
        maxChild == IF rightChild <= end /\ isLt(data, leftChild, rightChild)
                    THEN rightChild ELSE leftChild
    IN IF leftChild > end \/ ~isLt(data, idx, maxChild) THEN data
       ELSE bubbleDown(swap(data, idx, maxChild), maxChild, end)

buildHeap(data) ==
    FoldLeft(LAMBDA d, i : bubbleDown(d, i, Len(d)), data,
             [k \in DOMAIN data |-> Len(data) + 1 - k])

\* Mutant: a full heap keeps its root until a larger row comes.
insertReversed(data, i) ==
    IF Len(data) < query.limit
    THEN LET d == Append(data, i) IN IF Len(d) = query.limit THEN buildHeap(d) ELSE d
    ELSE IF cmpFn(query.specs, data[1], i)
         THEN bubbleDown([data EXCEPT ![1] = i], 1, Len(data)) ELSE data

\* Appends until the limit is reached; then a smaller row replaces the root.
insert(data, i) ==
    IF Len(data) < query.limit
    THEN LET d == Append(data, i) IN IF Len(d) = query.limit THEN buildHeap(d) ELSE d
    ELSE IF cmpFn(query.specs, i, data[1])
         THEN bubbleDown([data EXCEPT ![1] = i], 1, Len(data)) ELSE data

mergeWithOther(data, other) == FoldLeft(insert, data, other)

\* Heap sort in place.
getBuffer(data) ==
    LET heap == IF Len(data) < query.limit THEN buildHeap(data) ELSE data
        n == Len(heap)
    IN FoldLeft(LAMBDA d, i : bubbleDown(swap(d, 1, n + 1 - i), 1, n - i), heap,
                [i \in 1 .. n |-> i])

----------------------------------------------------------------------------
(* The segment tree *)

Func == [fn |-> query.window.fn, nullable |-> query.window.nullable]

createInitialState(i) == aggregate(Func, createDefaultValue(Func), input[i].x)

\* The tree over the entries from .. to (positions counted from 0, both inclusive).
RECURSIVE buildRecursively(_, _, _)
buildRecursively(entries, from, to) ==
    IF from = to
    THEN [leftMin |-> from, rightMax |-> to, state |-> createInitialState(entries[from + 1]),
          children |-> <<>>]
    ELSE LET mid == from + ((to - from) \div 2)
             left == buildRecursively(entries, from, mid)
             right == buildRecursively(entries, mid + 1, to)
         IN [leftMin |-> from, rightMax |-> to, children |-> <<left, right>>,
             state |-> combine(Func, left.state, right.state)]

\* The states of the nodes a lookup combines, from left to right.
RECURSIVE lookupRecursively(_, _, _)
lookupRecursively(t, from, to) ==
    IF from <= t.leftMin /\ to >= t.rightMax THEN <<t.state>>
    ELSE IF from <= t.rightMax /\ to >= t.leftMin
    THEN lookupRecursively(t.children[1], from, to) \o lookupRecursively(t.children[2], from, to)
    ELSE <<>>

\* The first state is copied and the others combined into it.
lookup(root, from, to) ==
    LET states == lookupRecursively(root, from, to)
    IN FoldLeft(LAMBDA l, r : combine(Func, l, r), Head(states), Tail(states))

----------------------------------------------------------------------------
(* Windows *)

\* The offsets of the frame; the end CURRENT ROW counts only under an ORDER BY.
FrameStart ==
    LET start == query.window.start
    IN CASE start.kind = "unbounded" -> IntMin
         [] start.kind = "current"   -> 0
         [] start.kind = "preceding" -> -start.n
         [] start.kind = "following" -> start.n

FrameEnd ==
    LET end == query.window.end
    IN CASE end.kind = "current" /\ query.specs # <<>> -> 0
         [] end.kind = "preceding" -> -end.n
         [] end.kind = "following" -> end.n
         [] OTHER -> IntMax

\* Signed addition of the width, then clamped to the view of n entries.
Wrapped(i) == ((i + 2 ^ (Width - 1)) % (2 ^ Width)) - 2 ^ (Width - 1)

\* Mutant: the last entry of the view is left out.
OffsetReferenceByShort(i, offset, n) ==
    LET newIdx == Max({0, Wrapped(i + offset)}) IN Min({Max({0, n - 2}), newIdx})

OffsetReferenceBy(i, offset, n) ==
    LET newIdx == Max({0, Wrapped(i + offset)}) IN Min({n - 1, newIdx})

rangeBegin(i, n) ==
    IF FrameStart = 0 THEN i ELSE OffsetReferenceBy(i, FrameStart, n)

rangeEnd(i, n) ==
    IF FrameEnd = 0 THEN i ELSE OffsetReferenceBy(i, FrameEnd, n)

\* The whole partition is aggregated once if the frame is unbounded on both sides.
StaticFrame == FrameStart = IntMin /\ FrameEnd = IntMax

\* The lookup of the i-th row, counted from 0, throws.
LookupFails(view, i) ==
    query.window.fn # "row_number" /\ ~StaticFrame
        /\ rangeBegin(i, Len(view)) > rangeEnd(i, Len(view))

\* The value of the i-th row; RANK and ROW_NUMBER count the entries before it.
evaluate(view, i) ==
    LET n == Len(view)
    IN IF query.window.fn = "row_number" THEN i - rangeBegin(i, n) + 1
       ELSE IF StaticFrame
       THEN FoldLeft(LAMBDA state, r : aggregate(Func, state, input[r].x),
                     createDefaultValue(Func), view)
       ELSE lookup(buildRecursively(view, 0, n - 1), rangeBegin(i, n), rangeEnd(i, n))

----------------------------------------------------------------------------
(* Execution *)

KeyOf(i) == [c \in DOMAIN query.window.partition |-> input[i][query.window.partition[c]]]

Partitioned == plan = "window" /\ query.window.partition # <<>>

\* A fresh heap or buffer, or a map from partitions to buffers without an entry.
Instance == <<>>

\* The buffer of the row's partition, created when its first row comes.
Partition(map, i) ==
    LET k == KeyOf(i)
    IN [c \in DOMAIN map \union {k} |->
            IF c # k THEN map[c] ELSE IF k \in DOMAIN map THEN Append(map[k], i) ELSE <<i>>]

\* The combine block appends the other's buffers.
CombineBuffers(left, right) ==
    [k \in DOMAIN left \union DOMAIN right |->
        (IF k \in DOMAIN left THEN left[k] ELSE <<>>) \o
        (IF k \in DOMAIN right THEN right[k] ELSE <<>>)]

\* What sorting may make of a buffer; equal rows come in any order.
SortedViews(buffer) ==
    IF query.specs = <<>> THEN {buffer}
    ELSE {view \in SetToSeqs(Range(buffer)) :
            \A a, b \in DOMAIN view : a < b => ~cmpFn(query.specs, view[b], view[a])}

Init ==
    /\ query \in Queries
    /\ input \in {t \in Tables : query.window = NoWindow \/ query.window.nullable
                                    \/ \A i \in DOMAIN t : t[i].x # Null}
    /\ pc = "plan" /\ plan = "none"
    /\ todo = {} /\ local = <<>> /\ merged = <<>> /\ out = {}

\* A LIMIT whose input is a sort becomes a TopK.
OptimizeImplementations ==
    /\ pc = "plan"
    /\ plan' = IF query.window # NoWindow THEN "window"
               ELSE IF query.limit = NoLimit THEN "sort"
               ELSE IF query.specs = <<>> THEN "limit" ELSE "topk"
    /\ pc' = "lower"
    /\ UNCHANGED <<query, input, todo, local, merged, out>>

\* The operator becomes a pipeline into its state and a scan of it.
Lower ==
    /\ pc = "lower"
    /\ todo' = DOMAIN input
    /\ pc' = "scan"
    /\ UNCHANGED <<query, input, plan, local, merged, out>>

LowerLimit == plan = "limit" /\ Lower
LowerTopK == plan = "topk" /\ Lower
LowerSort == plan = "sort" /\ Lower
LowerWindow == plan = "window" /\ Lower

GetLocal(t) ==
    /\ pc = "scan" /\ t \notin DOMAIN local
    /\ local' = (t :> Instance) @@ local
    /\ UNCHANGED <<query, input, pc, plan, todo, merged, out>>

\* A worker with a local state puts the row i into it.
Materialize(t, i, state) ==
    /\ pc = "scan" /\ i \in todo
    /\ local' = [local EXCEPT ![t] = state]
    /\ todo' = todo \ {i}
    /\ UNCHANGED <<query, input, pc, plan, merged, out>>

MaterializeHeap(t) ==
    /\ plan \in {"limit", "topk"} /\ t \in DOMAIN local
    /\ \E i \in todo : Materialize(t, i, insert(local[t], i))

MaterializeBuffer(t) ==
    /\ plan \in {"sort", "window"} /\ ~Partitioned /\ t \in DOMAIN local
    /\ \E i \in todo : Materialize(t, i, Append(local[t], i))

MaterializePartition(t) ==
    /\ Partitioned /\ t \in DOMAIN local
    /\ \E i \in todo : Materialize(t, i, Partition(local[t], i))

\* The first local state, of which there is always one, absorbs the others.
MergeWith(op(_, _)) ==
    /\ pc = "scan" /\ todo = {}
    /\ \E order \in SetToSeqs(DOMAIN local) :
        LET states == [n \in DOMAIN order |-> local[order[n]]]
        IN merged' = IF states = <<>> THEN Instance ELSE FoldLeft(op, Head(states), Tail(states))
    /\ local' = <<>>
    /\ pc' = "view"
    /\ UNCHANGED <<query, input, plan, todo, out>>

MergeHeap == plan \in {"limit", "topk"} /\ MergeWith(mergeWithOther)
MergeBuffer == plan \in {"sort", "window"} /\ ~Partitioned /\ MergeWith(LAMBDA l, r : l \o r)
MergePartitions == Partitioned /\ MergeWith(CombineBuffers)

\* A heap is sorted and scanned.
ScanHeap ==
    /\ pc = "view" /\ plan \in {"limit", "topk"}
    /\ out' = {[key |-> <<>>, view |-> getBuffer(merged), vals |-> <<>>]}
    /\ pc' = "done"
    /\ UNCHANGED <<query, input, plan, todo, local, merged>>

\* A buffer is sorted and scanned.
ScanSortedView ==
    /\ pc = "view" /\ plan = "sort"
    /\ \E view \in SortedViews(merged) :
        out' = {[key |-> <<>>, view |-> view, vals |-> <<>>]}
    /\ pc' = "done"
    /\ UNCHANGED <<query, input, plan, todo, local, merged>>

\* What is still to be evaluated: the partitions, or the one buffer.
Buffers == IF Partitioned THEN merged ELSE [k \in {<<>>} \ {r.key : r \in out} |-> merged]

\* One partition after the other is sorted and its rows evaluated.
EvaluateWindow ==
    /\ pc = "view" /\ plan = "window"
    /\ \E k \in DOMAIN Buffers : \E view \in SortedViews(Buffers[k]) :
        /\ \A i \in DOMAIN view : ~LookupFails(view, i - 1)
        /\ out' = out \union {[key |-> k, view |-> view,
                               vals |-> [i \in DOMAIN view |-> evaluate(view, i - 1)]]}
        /\ merged' = [c \in DOMAIN Buffers \ {k} |-> Buffers[c]]
    /\ UNCHANGED <<query, input, pc, plan, todo, local>>

\* The exception of a lookup ends the query.
WindowFails ==
    /\ pc = "view" /\ plan = "window"
    /\ \E k \in DOMAIN Buffers : \E view \in SortedViews(Buffers[k]) :
        \E i \in DOMAIN view : LookupFails(view, i - 1)
    /\ pc' = "failed"
    /\ UNCHANGED <<query, input, plan, todo, local, merged, out>>

EndWindow ==
    /\ pc = "view" /\ plan = "window" /\ DOMAIN Buffers = {}
    /\ pc' = "done"
    /\ UNCHANGED <<query, input, plan, todo, local, merged, out>>

Next ==
    \/ OptimizeImplementations
    \/ LowerLimit \/ LowerTopK \/ LowerSort \/ LowerWindow
    \/ \E t \in Threads : GetLocal(t) \/ MaterializeHeap(t) \/ MaterializeBuffer(t)
                            \/ MaterializePartition(t)
    \/ MergeHeap \/ MergeBuffer \/ MergePartitions
    \/ ScanHeap
    \/ ScanSortedView
    \/ EvaluateWindow
    \/ WindowFails
    \/ EndWindow

Spec == Init /\ [][Next]_vars

----------------------------------------------------------------------------
(* Properties *)

\* What ORDER BY asks of two rows, key by key from the front.
Precedes(i, j) ==
    \E p \in DOMAIN query.specs :
        LET spec == query.specs[p]
            a == IF spec.desc THEN input[j][spec.col] ELSE input[i][spec.col]
            b == IF spec.desc THEN input[i][spec.col] ELSE input[j][spec.col]
        IN /\ a # Null /\ (b = Null \/ a < b)
           /\ \A p2 \in 1 .. p - 1 : input[i][query.specs[p2].col] = input[j][query.specs[p2].col]

\* A sorted or limited result has no row twice, as many as asked for, in order,
\* and no row it leaves out belongs before one it returns: however the rows were
\* split over the workers' heaps and in whatever order these were merged.
ResultIsOrdered ==
    pc = "done" /\ plan # "window" =>
        \E result \in out :
            LET view == result.view
                n == Len(input)
            IN /\ IsInjective(view) /\ Range(view) \subseteq DOMAIN input
               /\ Len(view) = IF query.limit = NoLimit \/ query.limit > n THEN n ELSE query.limit
               /\ \A a, b \in DOMAIN view : a < b => ~Precedes(view[b], view[a])
               /\ \A i \in DOMAIN input \ Range(view) :
                    \A a \in DOMAIN view : ~Precedes(i, view[a])

\* Frames with an unbounded end and a bounded start: the end's offset overflows.
EndOverflows == FrameEnd = IntMax /\ FrameStart # IntMin

\* Frames that miss their own row are clamped to the first or the last row.
FrameMissesRow == FrameStart > 0 \/ FrameEnd < 0

\* ROW_NUMBER counts from the frame's begin.
CountsInFrame == query.window.fn = "row_number" /\ FrameStart # IntMin

\* Whether the b-th row of a view is in the frame of the a-th; without an ORDER BY all
\* rows are peers of the current one.
InFrame(a, b) ==
    LET start == query.window.start
        end == query.window.end
    IN /\ start.kind = "current" => b >= a
       /\ start.kind = "preceding" => b >= a - start.n
       /\ start.kind = "following" => b >= a + start.n
       /\ end.kind = "current" /\ query.specs # <<>> => b <= a
       /\ end.kind = "preceding" => b <= a - end.n
       /\ end.kind = "following" => b <= a + end.n

\* The value SQL defines over the rows I; a sum of NULLs is 0.
IsFrameValue(I, val) ==
    LET some == {i \in I : input[i].x # Null}
        sum == FoldSet(LAMBDA i, s : s + input[i].x, 0, some)
    IN IF query.window.fn = "count" THEN val = Cardinality(some)
       ELSE IF query.window.fn = "sum" THEN val = sum
       ELSE IF some = {} THEN val = Null
       ELSE val \in {input[i].x : i \in some} /\
            \A i \in some : IF query.window.fn = "min" THEN val <= input[i].x ELSE val >= input[i].x

\* Every row is in exactly one view, that of its partition, the view is in the
\* window's order, and the value next to the row is the function over the rows of
\* its frame, or its number in the partition: the segment tree combines exactly
\* the frame's rows. The three kinds of frame named above are excluded.
WindowValuesAreFrames ==
    pc = "done" /\ plan = "window" /\ ~EndOverflows /\ ~FrameMissesRow /\ ~CountsInFrame =>
        /\ \A i \in DOMAIN input :
            Cardinality({<<r, a>> \in out \X DOMAIN input :
                            a \in DOMAIN r.view /\ r.view[a] = i}) = 1
        /\ \A r \in out : \A a \in DOMAIN r.view :
            LET i == r.view[a]
                frame == {b \in DOMAIN r.view : InFrame(a, b)}
            IN /\ KeyOf(i) = r.key
               /\ \A b \in DOMAIN r.view : b < a => ~Precedes(i, r.view[b])
               /\ IF query.window.fn = "row_number" THEN r.vals[a] = a
                  ELSE IsFrameValue({r.view[b] : b \in frame}, r.vals[a])
=============================================================================
