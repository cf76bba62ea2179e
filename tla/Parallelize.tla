---------------------------- MODULE Parallelize ----------------------------
(***************************************************************************)
(* How a query becomes a parallel program, and what that program computes. *)
(*                                                                         *)
(* A query is a block of sub-operator pipelines that communicate through   *)
(* states (buffers, hash maps, simple states ...).  Three passes decide    *)
(* how it runs:                                                            *)
(*   - ParallelizePass looks at every scan pipeline, decides whether       *)
(*     several threads may run it, which states must then be thread-local, *)
(*     which reductions must be atomic or locked, and inserts for every    *)
(*     thread-local state a merge before its first other user;             *)
(*   - EnforceOrderPass reorders the block by the dependencies that        *)
(*     SubOpDependencyAnalysis finds between pipelines and merges;         *)
(*   - the lowering gives each sub-operator its loads and stores.          *)
(* The module runs the passes on a program of Programs and then executes   *)
(* the result with the threads of Threads interleaved load by load.        *)
(*                                                                         *)
(* A state's content is a sequence of entries [key, vals]; a thread-local  *)
(* state has one instance per thread that touched it, in creation order,   *)
(* and its merge folds the others into the first.                          *)
(***************************************************************************)
EXTENDS Naturals, Sequences, FiniteSets, TLC, SequencesExt

CONSTANTS Threads,   \* the TBB worker threads, the calling thread included
          Main,      \* the calling thread: it runs everything not parallel
          Programs,  \* the queries, as blocks of pipelines
          Shared,    \* the owner of the one instance of a state that is not thread-local
          None       \* no row, no reference, no state operand

ASSUME ThreadsAssumption == Main \in Threads /\ Shared \notin Threads

OpType ==
    [op : {"materialize", "insert", "lookup", "lookupOrInsert", "offsetRef", "gather", "scatter", "reduce"},
     st : STRING, mem : SUBSET STRING, combine : BOOLEAN, bump : SUBSET STRING]
NodeType ==
    [kind : {"pipe"}, source : STRING, rows : Seq(Nat), ops : Seq(OpType)] \cup [kind : {"view", "result"}, st : STRING]

\* Only views are over another state, and rows are put into buffers and hash tables only.
ProgramOK(p) ==
    /\ p.block \in Seq(NodeType)
    /\ \A s \in DOMAIN p.states : p.states[s].type # "HashIndexedView" => p.states[s].of = s
    /\ \A s \in DOMAIN p.states : p.states[s].of \in DOMAIN p.states /\ p.states[p.states[s].of].type # "HashIndexedView"
    /\ \A i \in DOMAIN p.block : p.block[i].kind = "pipe" =>
          \A j \in DOMAIN p.block[i].ops : LET o == p.block[i].ops[j] IN
              /\ o.st \in DOMAIN p.states
              /\ o.op \in {"materialize", "insert", "lookupOrInsert"} =>
                    p.states[o.st].type \notin {"HashIndexedView", "SimpleState"}
    /\ \A i \in DOMAIN p.block : p.block[i].kind # "pipe" => p.block[i].st \in DOMAIN p.states

ASSUME ProgramsAssumption == \A p \in Programs : ProgramOK(p)

VARIABLES
  prog,      \* the query
  phase,     \* "analyze", "merge", "order", "run" or "done"
  pos,       \* next block position to analyze; in "run", next one to start
  parallel,  \* block positions of the scans marked parallel
  locals,    \* <<position, op index>> of the users that get the local instance
  combines,  \* states whose merge was given a combine region
  block,     \* the block with the merges inserted
  queue, count, order,   \* SubOpDependencyAnalysis: worklist, open dependencies, result
  inst,      \* inst[s]: owner -> content, for the instances that exist
  tls,       \* tls[s]: the owners of the instances in creation order
  merged,    \* the states that have been merged
  todo,      \* the rows of the running pipeline no thread has taken
  th,        \* per thread: the row it works on
  locked     \* the entries whose lock is held

passVars == <<parallel, locals, combines>>
orderVars == <<queue, count, order>>
heapVars == <<inst, tls, merged>>
vars == <<prog, phase, pos, passVars, block, orderVars, heapVars, todo, th, locked>>

-----------------------------------------------------------------------------
(* Programs.                                                               *)
(*   prog.states[s]: [type, vals, num, of] - its type, its value members,  *)
(*     those of them that are plain integers or floats, and for a          *)
(*     HashIndexedView the buffer it indexes (itself otherwise);           *)
(*   prog.block: sequence of nodes                                         *)
(*     [kind |-> "pipe", source, rows, ops], where source is "table",      *)
(*       "sequential" (a generate, or a scan with that attribute) or the   *)
(*       state scanned, and rows the keys of a table's rows;               *)
(*     [kind |-> "view", st] (CreateHashIndexedView);                      *)
(*     [kind |-> "result", st] (the user of the result table);             *)
(*   an op: [op, st, mem, combine, bump] - kind, state of its operand or   *)
(*     of its reference, the members it maps or reduces, whether it has a  *)
(*     combine region, and the members its reduce function increments.     *)

Base(s) == prog.states[s].of
Type(s) == prog.states[s].type
Vals(s) == prog.states[s].vals
Members(s) == {Base(s)} \X (Vals(s) \cup {"key", "hash"})
Mapped(o) == {Base(o.st)} \X o.mem

\* The member accesses the sub-operators report (getReadMembers, getWrittenMembers).
ReadMembers(o) ==
    CASE o.op = "lookup" -> Members(o.st)
      [] o.op \in {"gather", "reduce"} -> Mapped(o)
      [] OTHER -> {}

WrittenMembers(o) ==
    CASE o.op \in {"lookupOrInsert", "insert"} -> Members(o.st)
      [] o.op = "materialize" -> Mapped(o) \cup ({Base(o.st)} \X {"key", "hash"})
      [] o.op \in {"reduce", "scatter"} -> Mapped(o)
      [] OTHER -> {}

\* The operators that have the state itself as an operand; the others go by reference.
HasStateOperand(o) == o.op \in {"materialize", "insert", "lookup", "lookupOrInsert", "offsetRef"}

-----------------------------------------------------------------------------
(* ParallelizePass                                                         *)

\* getCollisions: the earlier operators of the pipeline that write what ops[i]
\* reads or read what it writes.
Collisions(ops, i) ==
    {j \in 1 .. i - 1 :
        \/ ReadMembers(ops[i]) \cap WrittenMembers(ops[j]) # {}
        \/ WrittenMembers(ops[i]) \cap ReadMembers(ops[j]) # {}}

\* The one collision is with an operator of kind k.
OnlyWith(ops, C, k) == Cardinality(C) = 1 /\ \A j \in C : ops[j].op = k

\* A reduction that a generic atomic can perform.
IsAtomicable(o) == Cardinality(o.mem) = 1 /\ o.mem \subseteq prog.states[o.st].num

\* Mutant: a reduction behind a lookup in a hash map is taken to be safe.
ReduceVerdictUnlocked(ops, i, C) ==
    LET o == ops[i] IN
    CASE C = {} /\ Type(o.st) # "Array" -> "ok"
      [] C = {} /\ IsAtomicable(o) -> "atomic"
      [] OnlyWith(ops, C, "lookup") /\ Type(o.st) = "SimpleState" -> "localLookup"
      [] OnlyWith(ops, C, "lookup") /\ Type(o.st) = "HashMap" -> "ok"
      [] OnlyWith(ops, C, "lookupOrInsert") -> "combine"
      [] OTHER -> "problem"

ReduceVerdict(ops, i, C) ==
    LET o == ops[i] IN
    CASE C = {} /\ Type(o.st) # "Array" -> "ok"
      [] C = {} /\ IsAtomicable(o) -> "atomic"
      [] OnlyWith(ops, C, "lookup") /\ Type(o.st) = "SimpleState" /\ o.combine
            /\ Cardinality(o.mem) = Cardinality(Vals(o.st)) -> "localLookup"
      [] OnlyWith(ops, C, "lookup") /\ IsAtomicable(o) -> "atomic"
      [] OnlyWith(ops, C, "lookup") /\ Type(o.st) = "HashMap" -> "lock"
      [] OnlyWith(ops, C, "lookupOrInsert") /\ Type(o.st) = "HashMap" /\ o.combine
            /\ Cardinality(o.mem) = Cardinality(Vals(o.st)) -> "combine"
      [] OTHER -> "problem"

\* What the pass decides for the i-th operator of a pipeline.
Verdict(ops, i) ==
    LET C == Collisions(ops, i)
        o == ops[i] IN
    CASE o.op = "offsetRef" -> "ok"
      [] o.op \in {"materialize", "lookupOrInsert"} /\ C = {} -> "local"
      [] o.op \in {"lookup", "gather", "scatter"} /\ C = {} -> "ok"
      [] o.op = "scatter" /\ OnlyWith(ops, C, "lookup") -> "ok"
      [] o.op = "reduce" -> ReduceVerdict(ops, i, C)
      [] OTHER -> "problem"

CanBeParallel(ops) == \A i \in DOMAIN ops : Verdict(ops, i) # "problem"

\* The operators of a parallel pipeline that shall use the thread-local instance.
LocalUsers(ops) ==
    {i \in DOMAIN ops : Verdict(ops, i) = "local"}
    \cup UNION {Collisions(ops, i) : i \in {j \in DOMAIN ops : Verdict(ops, j) = "localLookup"}}

CombinedStates(ops) ==
    {ops[i].st : i \in {j \in DOMAIN ops : Verdict(ops, j) \in {"combine", "localLookup"}}}

IsParallelSource(n) == n.kind = "pipe" /\ n.source # "sequential"

\* The walk over the module reaches the next top-level node.
AnalyzeScan ==
    /\ phase = "analyze"
    /\ pos <= Len(prog.block)
    /\ LET n == prog.block[pos] IN
       IF IsParallelSource(n) /\ CanBeParallel(n.ops)
       THEN /\ parallel' = parallel \cup {pos}
            /\ locals' = locals \cup ({pos} \X LocalUsers(n.ops))
            /\ combines' = combines \cup CombinedStates(n.ops)
       ELSE UNCHANGED passVars
    /\ pos' = pos + 1
    /\ UNCHANGED <<prog, phase, block, orderVars, heapVars, todo, th, locked>>

ThreadLocalStates == {prog.block[u[1]].ops[u[2]].st : u \in locals}

\* Mutant: the users of the local instances count as other users.
OtherUsersAll(s) ==
    {p \in DOMAIN prog.block :
        LET n == prog.block[p] IN
        \/ n.kind \in {"view", "result"} /\ prog.states[n.st].of = s
        \/ n.kind = "pipe" /\ (n.source = s \/ \E i \in DOMAIN n.ops : HasStateOperand(n.ops[i]) /\ n.ops[i].st = s)}

\* The block positions with a user of s that keeps the merged state.
OtherUsers(s) ==
    {p \in DOMAIN prog.block :
        LET n == prog.block[p] IN
        \/ n.kind \in {"view", "result"} /\ prog.states[n.st].of = s
        \/ n.kind = "pipe" /\ n.source = s
        \/ n.kind = "pipe" /\ \E i \in DOMAIN n.ops :
              HasStateOperand(n.ops[i]) /\ n.ops[i].st = s /\ <<p, i>> \notin locals}

\* The first other user in block order; the pass asserts that there is one.
MergePoint(s) == CHOOSE p \in OtherUsers(s) : \A q \in OtherUsers(s) : p <= q

\* The merges inserted before block position p.
MergesAt(p) ==
    SetToSeq({[kind |-> "merge", st |-> s, at |-> p] : s \in {x \in ThreadLocalStates : MergePoint(x) = p}})

\* A node of the block, with its position before the merges were inserted.
Placed(n, p) == [f \in DOMAIN n \cup {"at"} |-> IF f = "at" THEN p ELSE n[f]]

InsertMerges ==
    /\ phase = "analyze"
    /\ pos > Len(prog.block)
    /\ block' = FlattenSeq([p \in DOMAIN prog.block |-> Append(MergesAt(p), Placed(prog.block[p], p))])
    /\ inst' = [s \in DOMAIN prog.states |->
                  IF s \in ThreadLocalStates THEN << >> ELSE Shared :> prog.states[s].init]
    /\ phase' = "depend"
    /\ UNCHANGED <<prog, pos, passVars, orderVars, tls, merged, todo, th, locked>>

-----------------------------------------------------------------------------
(* SubOpDependencyAnalysis and EnforceOrderPass                            *)

\* The SSA value an operator has as its state operand (getDirectStateValue):
\* each local user gets a GetLocal of its own, all others use the merged state.
StateValue(p, i, o) ==
    IF <<p, i>> \in locals THEN <<"local", p, i>> ELSE <<"state", o.st>>

\* The member accesses of a root: a pipeline, a merge or a view.
Accesses(n) ==
    CASE n.kind = "pipe" ->
            {[val |-> IF HasStateOperand(n.ops[i]) THEN StateValue(n.at, i, n.ops[i]) ELSE None,
              reads |-> ReadMembers(n.ops[i]), writes |-> WrittenMembers(n.ops[i])] : i \in DOMAIN n.ops}
      [] n.kind = "merge" ->
            {[val |-> None, reads |-> Members(n.st), writes |-> Members(n.st)]}
      [] n.kind = "view" ->
            {[val |-> <<"state", Base(n.st)>>, reads |-> {<<Base(n.st), "hash">>}, writes |-> {}]}
      [] OTHER -> {}

\* Mutant: an access by reference conflicts with nothing but other references.
DifferentStatesNull(a, b) == a.val # b.val

DifferentStates(a, b) == a.val # None /\ b.val # None /\ a.val # b.val

MemberConflict(m, n) ==
    \E a \in Accesses(m), b \in Accesses(n) :
        /\ ~DifferentStates(a, b)
        /\ \/ a.reads \cap b.writes # {}
           \/ a.writes \cap (b.writes \cup b.reads) # {}

\* m has an operand that the sub-operator n defines.
UsesResultOf(m, n) ==
    \/ n.kind = "merge" /\ m.at \in OtherUsers(n.st) /\ m.kind # "merge"
    \/ n.kind = "view" /\ m.kind = "pipe" /\ \E i \in DOMAIN m.ops : m.ops[i].st = n.st

\* The roots: everything but the user of the result, which is not a sub-operator.
Roots == {q \in DOMAIN block : block[q].kind # "result"}

dependencies(m) ==
    {n \in Roots : n < m /\ (UsesResultOf(block[m], block[n]) \/ MemberConflict(block[m], block[n]))}

\* The roots without dependencies enter the worklist in hash order.
StartOrder ==
    /\ phase = "depend"
    /\ phase' = "order"
    /\ count' = [m \in Roots |-> Cardinality(dependencies(m))]
    /\ queue' \in SetToSeqs({m \in Roots : dependencies(m) = {}})
    /\ UNCHANGED <<prog, pos, passVars, block, order, heapVars, todo, th, locked>>

PopRoot ==
    /\ phase = "order"
    /\ queue # << >>
    /\ LET r == Head(queue)
           freed == {m \in Roots : r \in dependencies(m) /\ count[m] = 1} IN
       /\ count' = [m \in Roots |-> IF r \in dependencies(m) /\ count[m] > 0 THEN count[m] - 1 ELSE count[m]]
       /\ \E new \in SetToSeqs(freed) : queue' = Tail(queue) \o new
       /\ order' = Append(order, r)
    /\ UNCHANGED <<prog, phase, pos, passVars, block, heapVars, todo, th, locked>>

\* The positions of S in block order.
InBlockOrder(S) == [k \in 1 .. Cardinality(S) |-> CHOOSE m \in S : Cardinality({n \in S : n <= m}) = k]

\* Roots on a cycle keep their block order.
FinishOrder ==
    /\ phase = "order"
    /\ queue = << >>
    /\ order' = order \o InBlockOrder({m \in Roots : count[m] # 0})
    /\ phase' = "run"
    /\ pos' = 1
    /\ UNCHANGED <<prog, passVars, block, queue, count, heapVars, todo, th, locked>>

-----------------------------------------------------------------------------
(* Execution                                                               *)

Idle == [pc |-> 0]
Zeros(ms) == [m \in ms |-> 0]
Running == phase = "run" /\ pos <= Len(order)
Node == block[order[pos]]
IsParallel == Node.at \in parallel

\* The instance behind the merged, or never thread-local, state s.
OwnerOf(s) == IF Base(s) \in ThreadLocalStates THEN tls[Base(s)][1] ELSE Shared
ContentOf(s) == inst[Base(s)][OwnerOf(s)]

\* The entry of a key; every key hits the one entry of a simple state.
FindKey(c, s, k) == {i \in DOMAIN c : c[i].key = k \/ Type(s) = "SimpleState"}

\* combine, per key: the members of an entry that is already there are added up
\* when the merge has a combine region, and left alone when it has none.
MergeEntry(s, c, e) ==
    LET found == {i \in DOMAIN c : c[i].key = e.key} IN
    IF found = {} \/ Type(s) \in {"Buffer", "ResultTable"} THEN Append(c, e)
    ELSE LET i == CHOOSE x \in found : TRUE IN
         IF s \in combines THEN [c EXCEPT ![i].vals = [m \in DOMAIN @ |-> @[m] + e.vals[m]]] ELSE c

\* MergeOp: the other instances are folded into the first; the calling thread's
\* instance is created when no thread has one.
RunMerge ==
    /\ Running /\ Node.kind = "merge"
    /\ LET s == Node.st
           owners == IF tls[s] = << >> THEN <<Main>> ELSE tls[s]
           others == FlattenSeq([i \in 1 .. Len(owners) - 1 |-> inst[s][owners[i + 1]]])
           first == IF tls[s] = << >> THEN prog.states[s].init ELSE inst[s][owners[1]] IN
       /\ tls' = [tls EXCEPT ![s] = owners]
       /\ inst' = [inst EXCEPT ![s] =
                     (owners[1] :> FoldLeft(LAMBDA c, e : MergeEntry(s, c, e), first, others)) @@ @]
       /\ merged' = merged \cup {s}
    /\ pos' = pos + 1
    /\ UNCHANGED <<prog, phase, passVars, block, orderVars, todo, th, locked>>

\* CreateHashIndexedView indexes the buffer in place.
RunView ==
    /\ Running /\ Node.kind = "view"
    /\ pos' = pos + 1
    /\ UNCHANGED <<prog, phase, passVars, block, orderVars, heapVars, todo, th, locked>>

\* The rows a pipeline's source produces.
SourceRows(n) ==
    IF n.source \in {"table", "sequential"}
    THEN [i \in DOMAIN n.rows |-> [key |-> n.rows[i], vals |-> << >>, ref |-> None]]
    ELSE [i \in DOMAIN ContentOf(n.source) |->
            [key |-> ContentOf(n.source)[i].key, vals |-> << >>, ref |-> <<Base(n.source), OwnerOf(n.source), i>>]]

StartPipe ==
    /\ Running /\ Node.kind = "pipe" /\ todo = None
    /\ todo' = SourceRows(Node)
    /\ UNCHANGED <<prog, phase, pos, passVars, block, orderVars, heapVars, th, locked>>

\* A thread takes the next row; a pipeline that is not parallel runs on the calling thread.
TakeRow(t) ==
    /\ Running /\ todo \notin {None, << >>}
    /\ th[t] = Idle
    /\ IsParallel \/ t = Main
    /\ th' = [th EXCEPT ![t] = [row |-> Head(todo), pc |-> 1, stage |-> "begin", got |-> None]]
    /\ todo' = Tail(todo)
    /\ UNCHANGED <<prog, phase, pos, passVars, block, orderVars, heapVars, locked>>

FinishPipe ==
    /\ Running /\ todo = << >>
    /\ \A t \in Threads : th[t] = Idle
    /\ todo' = None
    /\ pos' = pos + 1
    /\ UNCHANGED <<prog, phase, passVars, block, orderVars, heapVars, th, locked>>

Op(t) == Node.ops[th[t].pc]

\* The row goes on to the next operator, or is done.
Advance(t, row) ==
    th' = [th EXCEPT ![t] = IF th[t].pc = Len(Node.ops) THEN Idle
                            ELSE [row |-> row, pc |-> th[t].pc + 1, stage |-> "begin", got |-> None]]

Drop(t) == th' = [th EXCEPT ![t] = Idle]

\* The instance an operator with a state operand works on, and its content:
\* GetLocal creates the thread's instance on first use.
Target(t) == IF <<Node.at, th[t].pc>> \in locals THEN t ELSE OwnerOf(Op(t).st)
TargetContent(t) ==
    LET s == Base(Op(t).st) IN
    IF Target(t) \in DOMAIN inst[s] THEN inst[s][Target(t)] ELSE prog.states[s].init

Assign(t, c) ==
    LET s == Base(Op(t).st) IN
    /\ inst' = [inst EXCEPT ![s] = (Target(t) :> c) @@ @]
    /\ tls' = IF Target(t) \in DOMAIN inst[s] THEN tls
              ELSE [tls EXCEPT ![s] = Append(@, Target(t))]
    /\ UNCHANGED merged

RowUnchanged == UNCHANGED <<prog, phase, pos, passVars, block, orderVars, todo>>

Busy(t) == Running /\ th[t] # Idle

Materialize(t) ==
    /\ Busy(t) /\ Op(t).op \in {"materialize", "insert"}
    /\ Assign(t, Append(TargetContent(t), [key |-> th[t].row.key, vals |-> th[t].row.vals @@ Zeros(Op(t).mem)]))
    /\ Advance(t, th[t].row)
    /\ UNCHANGED locked /\ RowUnchanged

LookupOrInsert(t) ==
    /\ Busy(t) /\ Op(t).op = "lookupOrInsert"
    /\ LET s == Op(t).st
           c == TargetContent(t)
           found == FindKey(c, s, th[t].row.key)
           c2 == IF found = {} THEN Append(c, [key |-> th[t].row.key, vals |-> Zeros(Vals(s))]) ELSE c
           i == IF found = {} THEN Len(c2) ELSE CHOOSE x \in found : TRUE IN
       /\ Assign(t, c2)
       /\ Advance(t, [th[t].row EXCEPT !.ref = <<Base(s), Target(t), i>>])
    /\ UNCHANGED locked /\ RowUnchanged

\* A lookup that finds nothing drops the row.
Lookup(t) ==
    /\ Busy(t) /\ Op(t).op \in {"lookup", "offsetRef"}
    /\ LET s == Op(t).st
           found == FindKey(TargetContent(t), s, th[t].row.key) IN
       IF found = {} THEN Drop(t)
       ELSE Advance(t, [th[t].row EXCEPT !.ref = <<Base(s), Target(t), CHOOSE x \in found : TRUE>>])
    /\ Assign(t, TargetContent(t))
    /\ UNCHANGED locked /\ RowUnchanged

Entry(ref) == inst[ref[1]][ref[2]][ref[3]]
Ref(t) == th[t].row.ref

Gather(t) ==
    /\ Busy(t) /\ Op(t).op = "gather"
    /\ Advance(t, [th[t].row EXCEPT !.vals = [m \in Op(t).mem \cap Vals(Op(t).st) |-> Entry(Ref(t)).vals[m]]])
    /\ UNCHANGED <<heapVars, locked>> /\ RowUnchanged

\* What the pass marked the operator with; marks exist only in parallel pipelines.
Mark(t) == IF IsParallel THEN Verdict(Node.ops, th[t].pc) ELSE "ok"

Bump(vals, o) == [m \in DOMAIN vals |-> IF m \in o.bump THEN vals[m] + 1 ELSE vals[m]]

SetVals(ref, vals) ==
    /\ inst' = [inst EXCEPT ![ref[1]][ref[2]][ref[3]].vals = vals]
    /\ UNCHANGED <<tls, merged>>

\* implementAtomicReduce: one atomic read-modify-write of the one member.
AtomicReduce(t) ==
    /\ Busy(t) /\ Op(t).op = "reduce" /\ Mark(t) = "atomic"
    /\ SetVals(Ref(t), Bump(Entry(Ref(t)).vals, Op(t)))
    /\ Advance(t, th[t].row)
    /\ UNCHANGED locked /\ RowUnchanged

\* LockOp around the reduction.
LockEntry(t) ==
    /\ Busy(t) /\ Op(t).op = "reduce" /\ Mark(t) = "lock"
    /\ th[t].stage = "begin"
    /\ Ref(t) \notin locked
    /\ locked' = locked \cup {Ref(t)}
    /\ th' = [th EXCEPT ![t].stage = "locked"]
    /\ UNCHANGED heapVars /\ RowUnchanged

\* A reduction or a scatter loads all members of the entry ...
LoadValues(t) ==
    /\ Busy(t) /\ Op(t).op \in {"reduce", "scatter"}
    /\ Mark(t) # "atomic"
    /\ th[t].stage = (IF Mark(t) = "lock" THEN "locked" ELSE "begin")
    /\ th' = [th EXCEPT ![t].stage = "loaded", ![t].got = Entry(Ref(t)).vals]
    /\ UNCHANGED <<heapVars, locked>> /\ RowUnchanged

Updated(o, got) ==
    IF o.op = "reduce" THEN Bump(got, o)
    ELSE [m \in DOMAIN got |-> IF m \in o.mem THEN 1 ELSE got[m]]

\* Mutant: the lock is not released.
StoreValuesLocked(t) ==
    /\ Busy(t) /\ th[t].stage = "loaded"
    /\ SetVals(Ref(t), Updated(Op(t), th[t].got))
    /\ Advance(t, th[t].row)
    /\ UNCHANGED locked /\ RowUnchanged

\* ... and stores all of them, those it did not change with the value it loaded;
\* the lock, if any, is released after that.
StoreValues(t) ==
    /\ Busy(t) /\ th[t].stage = "loaded"
    /\ SetVals(Ref(t), Updated(Op(t), th[t].got))
    /\ locked' = IF Mark(t) = "lock" THEN locked \ {Ref(t)} ELSE locked
    /\ Advance(t, th[t].row)
    /\ RowUnchanged

Finish ==
    /\ phase = "run" /\ pos > Len(order)
    /\ phase' = "done"
    /\ UNCHANGED <<prog, pos, passVars, block, orderVars, heapVars, todo, th, locked>>

Step(t) ==
    \/ TakeRow(t)
    \/ Materialize(t)
    \/ LookupOrInsert(t)
    \/ Lookup(t)
    \/ Gather(t)
    \/ AtomicReduce(t)
    \/ LockEntry(t)
    \/ LoadValues(t)
    \/ StoreValues(t)

Compile == AnalyzeScan \/ InsertMerges \/ StartOrder \/ PopRoot \/ FinishOrder

Drive == RunMerge \/ RunView \/ StartPipe \/ FinishPipe \/ Finish

Next == Compile \/ Drive \/ \E t \in Threads : Step(t)

Init ==
    /\ prog \in Programs
    /\ phase = "analyze" /\ pos = 1
    /\ parallel = {} /\ locals = {} /\ combines = {}
    /\ block = << >> /\ queue = << >> /\ count = << >> /\ order = << >>
    /\ inst = << >>
    /\ tls = [s \in DOMAIN prog.states |-> << >>]
    /\ merged = {}
    /\ todo = None
    /\ th = [t \in Threads |-> Idle]
    /\ locked = {}

\* The compiler and the calling thread do not stop, and the operating system
\* lets every thread that can take a step take one.
Fairness == WF_vars(Compile) /\ WF_vars(Drive) /\ \A t \in Threads : WF_vars(Step(t))

Spec == Init /\ [][Next]_vars /\ Fairness
-----------------------------------------------------------------------------
(* The reference: the block executed as written, one row at a time, with   *)
(* one instance of every state.                                            *)

SeqRows(mem, n) ==
    IF n.source \in {"table", "sequential"}
    THEN [i \in DOMAIN n.rows |-> [key |-> n.rows[i], vals |-> << >>, ref |-> 0]]
    ELSE [i \in DOMAIN mem[Base(n.source)] |-> [key |-> mem[Base(n.source)][i].key, vals |-> << >>, ref |-> i]]

\* One operator applied to the row of acc = [mem, row]; row is None once dropped.
SeqOp(acc, o) ==
    LET s == Base(o.st)
        c == acc.mem[s]
        r == acc.row
        found == FindKey(c, o.st, r.key)
        at == CHOOSE x \in found : TRUE IN
    CASE r = None -> acc
      [] r # None /\ o.op \in {"materialize", "insert"} ->
            [acc EXCEPT !.mem[s] = Append(@, [key |-> r.key, vals |-> r.vals @@ Zeros(o.mem)])]
      [] r # None /\ o.op = "lookupOrInsert" /\ found = {} ->
            [mem |-> [acc.mem EXCEPT ![s] = Append(@, [key |-> r.key, vals |-> Zeros(Vals(o.st))])],
             row |-> [r EXCEPT !.ref = Len(c) + 1]]
      [] r # None /\ o.op \in {"lookup", "offsetRef"} /\ found = {} -> [acc EXCEPT !.row = None]
      [] r # None /\ o.op \in {"lookup", "offsetRef", "lookupOrInsert"} /\ found # {} ->
            [acc EXCEPT !.row.ref = at]
      [] r # None /\ o.op = "gather" ->
            [acc EXCEPT !.row.vals = [m \in o.mem \cap Vals(o.st) |-> c[r.ref].vals[m]]]
      [] OTHER -> [acc EXCEPT !.mem[s][r.ref].vals = Updated(o, @)]

SeqNode(mem, n) ==
    IF n.kind # "pipe" THEN mem
    ELSE FoldLeft(LAMBDA m, row : FoldLeft(SeqOp, [mem |-> m, row |-> row], n.ops).mem, mem, SeqRows(mem, n))

SequentialRun ==
    FoldLeft(SeqNode, [s \in DOMAIN prog.states |-> prog.states[s].init], prog.block)

ResultState == Last(prog.block).st

-----------------------------------------------------------------------------
(* Properties                                                              *)

\* Every variable has its shape: positions are positions of the block, only
\* parallel pipelines have local users, and a thread-local state has exactly the
\* instances that its merge will find.
TypeOK ==
    /\ phase \in {"analyze", "depend", "order", "run", "done"}
    /\ parallel \subseteq DOMAIN prog.block
    /\ \A u \in locals : u[1] \in parallel
    /\ \A s \in DOMAIN inst : DOMAIN inst[s] \subseteq Threads \cup {Shared}
    /\ inst # << >> => \A s \in ThreadLocalStates : DOMAIN inst[s] = Range(tls[s])

\* Whatever the passes decide and however the threads interleave, the result
\* table holds the rows that the block gives when it runs as written on one
\* thread (the pass that sets "parallel", the merges, the atomic and locked
\* reductions, and the order EnforceOrderPass chose).
ResultMatchesSequential ==
    phase = "done" => ToBag(ContentOf(ResultState)) = ToBag(SequentialRun[Base(ResultState)])

\* No row is put into a thread's instance of a state after the instances were
\* merged: a merge inserted before the first other user must come after every
\* pipeline that still fills the local instances.
NoInsertAfterMerge ==
    \A t \in Threads :
        (Busy(t) /\ <<Node.at, th[t].pc>> \in locals) => Base(Op(t).st) \notin merged

\* The members a pipeline's threads really read: those its operators report, and
\* the entries of the state its source scans.
ReallyRead(n) ==
    (UNION {a.reads : a \in Accesses(n)}) \cup (IF n.source \in DOMAIN prog.states THEN Members(n.source) ELSE {})

\* While a pipeline runs, every earlier pipeline of the block that writes what it
\* reads has finished, although EnforceOrderPass recomputed the order of the block
\* from the dependencies between members and states.
ReadersAfterWriters ==
    (Running /\ todo # None) =>
        \A q \in Roots :
            (/\ q < order[pos] /\ block[q].kind = "pipe"
             /\ ReallyRead(Node) \cap UNION {b.writes : b \in Accesses(block[q])} # {})
               => \E i \in 1 .. pos - 1 : order[i] = q

\* Every query comes to its end: no pipeline waits for rows that nobody takes or
\* for an entry lock that nobody releases.
QueryFinishes == <>(phase = "done")

-----------------------------------------------------------------------------
(* The inductive invariant of the passes and of the order of execution.      *)

Pipes == {p \in DOMAIN prog.block : prog.block[p].kind = "pipe"}
OpsAt(p) == prog.block[p].ops

\* What the pass decides of the program, whatever it has visited: the operators
\* that get the local instance, and the positions that use the merged state.
LocalAt(p, i) == IsParallelSource(prog.block[p]) /\ CanBeParallel(OpsAt(p)) /\ i \in LocalUsers(OpsAt(p))

UsesMerged(p, s) ==
    LET n == prog.block[p] IN
    \/ n.kind \in {"view", "result"} /\ Base(n.st) = s
    \/ n.kind = "pipe" /\ n.source = s
    \/ n.kind = "pipe" /\ \E i \in DOMAIN n.ops : HasStateOperand(n.ops[i]) /\ n.ops[i].st = s /\ ~LocalAt(p, i)

\* The thread-local instances of a state are filled before the merged state is
\* used, which it is (the pass asserts so).
FilledFirst ==
    \A p \in Pipes : \A i \in DOMAIN OpsAt(p) : \A s \in DOMAIN prog.states :
        (LocalAt(p, i) /\ s = Base(OpsAt(p)[i].st)) =>
            /\ \E q \in DOMAIN prog.block : UsesMerged(q, s)
            /\ \A q \in DOMAIN prog.block : UsesMerged(q, s) => p < q

\* A pipeline that scans a state which an earlier one writes reports, for one of
\* the operators that go by reference, to read something of what was written.
ScansReported ==
    \A p, r \in Pipes :
        (/\ p < r /\ prog.block[r].source \in DOMAIN prog.states
         /\ \E i \in DOMAIN OpsAt(p) : WrittenMembers(OpsAt(p)[i]) \cap Members(prog.block[r].source) # {})
            => \E i \in DOMAIN OpsAt(p), j \in DOMAIN OpsAt(r) :
                  ~HasStateOperand(OpsAt(r)[j]) /\ ReadMembers(OpsAt(r)[j]) \cap WrittenMembers(OpsAt(p)[i]) # {}

Fills(o) == o.op \in {"materialize", "insert", "lookupOrInsert"}

\* The view that a pipeline uses has been created after its buffer was filled.
ViewsBuiltBetween ==
    \A r \in Pipes : \A j \in DOMAIN OpsAt(r) :
        LET v == OpsAt(r)[j].st IN
        Base(v) # v =>
            \E n \in DOMAIN prog.block :
                /\ n < r /\ prog.block[n].kind = "view" /\ prog.block[n].st = v
                /\ \A p \in Pipes : (p < r /\ \E i \in DOMAIN OpsAt(p) : Fills(OpsAt(p)[i]) /\ OpsAt(p)[i].st = Base(v)) => p < n

LocalsOf(P) == UNION {{p} \X {i \in DOMAIN OpsAt(p) : LocalAt(p, i)} : p \in P}

LocalsRight ==
    /\ locals = LocalsOf({p \in Pipes : phase = "analyze" => p < pos})
    /\ IsFiniteSet(locals)
    /\ phase = "analyze" => pos \in Nat \ {0}

NodeOf(p) == Placed(prog.block[p], p)
MergeOf(s) == [kind |-> "merge", st |-> s, at |-> MergePoint(s)]
BlockNodes == {NodeOf(p) : p \in DOMAIN prog.block} \cup {MergeOf(s) : s \in ThreadLocalStates}

\* The block has the nodes of the program once and in their order, and before the
\* first user of a merged state its merge.
BlockRight ==
    phase # "analyze" =>
        /\ block \in Seq(BlockNodes)
        /\ \A p \in DOMAIN prog.block : \E q \in DOMAIN block : block[q] = NodeOf(p)
        /\ \A s \in ThreadLocalStates : MergePoint(s) \in DOMAIN prog.block => \E q \in DOMAIN block : block[q] = MergeOf(s)
        /\ \A q, r \in DOMAIN block :
              block[q].at < block[r].at \/ (block[q].at = block[r].at /\ block[q].kind = "merge" /\ block[r].kind # "merge")
                  => q < r
        /\ \A q, r \in DOMAIN block : block[q] = block[r] /\ block[q].kind # "merge" => q = r

\* The order has no root before those it depends on, or twice; the worklist has
\* the roots whose dependencies it has all.
OrderRight ==
    /\ phase \in {"analyze", "depend"} => order = << >>
    /\ phase \notin {"analyze", "depend"} =>
          /\ order \in Seq(Roots)
          /\ \A i, j \in DOMAIN order : order[i] = order[j] => i = j
          /\ \A m \in Roots : \A n \in dependencies(m) :
                \A i \in DOMAIN order : order[i] = m => \E j \in 1 .. i - 1 : order[j] = n
    /\ phase = "order" =>
          /\ queue \in Seq(Roots)
          /\ \A i, j \in DOMAIN queue : queue[i] = queue[j] => i = j
          /\ \A i \in DOMAIN queue : queue[i] \notin ToSet(order)
          /\ count \in [Roots -> Nat]
          /\ \A m \in Roots : count[m] = Cardinality(dependencies(m) \ ToSet(order))
          /\ \A m \in Roots : count[m] = 0 <=> m \in ToSet(queue) \cup ToSet(order)
    /\ phase \in {"run", "done"} => \A m \in Roots : m \in ToSet(order)

\* Threads only work on the rows of the pipeline at pos; what has been merged has
\* its merge before pos.
RunRight ==
    /\ (todo # None \/ \E t \in Threads : th[t] # Idle) => Running /\ Node.kind = "pipe"
    /\ phase \in {"run", "done"} => pos \in Nat \ {0}
    /\ \A s \in merged :
          /\ phase \in {"run", "done"}
          /\ \E i \in DOMAIN order : i < pos /\ block[order[i]].kind = "merge" /\ block[order[i]].st = s

ParallelizeInv ==
    /\ prog \in Programs
    /\ phase \in {"analyze", "depend", "order", "run", "done"}
    /\ LocalsRight /\ BlockRight /\ OrderRight /\ RunRight
=============================================================================
