------------------------------ MODULE EntryLock ------------------------------
(***************************************************************************)
(* The spin lock of a hash-table entry (Hashtable::lock and unlock, the    *)
(* same in PreAggregationHashtable), taken by generated code around the    *)
(* update of an entry that several workers may have found.                 *)
(*                                                                         *)
(* The lock has no word of its own: it is the upper 16 bits of the entry's *)
(* next pointer, so the chain is walked by lookups while its pointers are  *)
(* being locked.  Both lock and unlock first read the pointer with a plain *)
(* load and then exchange or store the word.                               *)
(*                                                                         *)
(* One chain is modelled, of the entries 1, 2, ..., N from its head on;    *)
(* buckets share nothing.  A pointer is a record of the entry and of the   *)
(* lock bits, all set or all clear.                                        *)
(***************************************************************************)
EXTENDS Integers, FiniteSets

CONSTANTS
    Threads,    \* workers that run the pipeline
    Tuples,     \* tuples of its source
    N,          \* entries in the chain
    Target      \* the entry whose key equals a tuple's, 0 if there is none

Null == 0
Entries == 1 .. N

ASSUME EntryLockAssumption ==
    /\ N \in Nat
    /\ Target \in [Tuples -> Entries \cup {Null}]

VARIABLES
    next,       \* entry->next: pointer and lock bits
    value,      \* the aggregate of an entry: the tuples that are in it
    todo,       \* tuples no worker has been given yet
    pc,         \* what each worker does next
    tuple,      \* the tuple it works on
    at,         \* the pointer it has loaded last while walking the chain
    seen,       \* its plain load of nextPtr
    loaded      \* the aggregate it has gathered in the locked region

vars == <<next, value, todo, pc, tuple, at, seen, loaded>>

Pointers == [ptr : Entries \cup {Null}, locked : BOOLEAN]

(* The chain as the build has left it: an entry's next is the slot's previous *)
(* first entry, which is null for the slot's first                            *)
ChainNext(e) == IF e < N THEN e + 1 ELSE Null
FirstPtr == [ptr |-> IF N = 0 THEN Null ELSE 1, locked |-> FALSE]

(* Slip: a locked pointer taken for the end of the chain *)
untagNot(p) == IF p.locked THEN Null ELSE p.ptr

(* util.untag_ptr, at the head of every step of the chain walk *)
untag(p) == p.ptr

Init ==
    /\ next = [e \in Entries |-> [ptr |-> ChainNext(e), locked |-> FALSE]]
    /\ value = [e \in Entries |-> {}]
    /\ todo = Tuples
    /\ pc = [t \in Threads |-> "idle"]
    /\ tuple \in [Threads -> Tuples]
    /\ at = [t \in Threads |-> FirstPtr]
    /\ seen = [t \in Threads |-> FirstPtr]
    /\ loaded = [t \in Threads |-> {}]

(* A worker starts the next tuple: it loads the bucket's first pointer *)
Take(t) ==
    /\ pc[t] = "idle"
    /\ \E x \in todo :
          /\ todo' = todo \ {x}
          /\ tuple' = [tuple EXCEPT ![t] = x]
    /\ at' = [at EXCEPT ![t] = FirstPtr]
    /\ pc' = [pc EXCEPT ![t] = "walk"]
    /\ UNCHANGED <<next, value, seen, loaded>>

(* The entry does not match: load its next pointer, whoever holds its lock *)
WalkOn(t) ==
    /\ pc[t] = "walk"
    /\ untag(at[t]) \notin {Null, Target[tuple[t]]}
    /\ at' = [at EXCEPT ![t] = next[untag(at[t])]]
    /\ UNCHANGED <<next, value, todo, pc, tuple, seen, loaded>>

(* The end of the chain: no match, and the tuple is finished *)
WalkMiss(t) ==
    /\ pc[t] = "walk"
    /\ untag(at[t]) = Null
    /\ pc' = [pc EXCEPT ![t] = "idle"]
    /\ UNCHANGED <<next, value, todo, tuple, at, seen, loaded>>

(* The key matches: call lock on the entry *)
WalkHit(t) ==
    /\ pc[t] = "walk"
    /\ untag(at[t]) = Target[tuple[t]]
    /\ untag(at[t]) # Null
    /\ pc' = [pc EXCEPT ![t] = "lock"]
    /\ UNCHANGED <<next, value, todo, tuple, at, seen, loaded>>

(* lock: the plain read of nextPtr in l.exchange(nextPtr | mask) *)
LockRead(t) ==
    /\ pc[t] = "lock"
    /\ seen' = [seen EXCEPT ![t] = next[Target[tuple[t]]]]
    /\ pc' = [pc EXCEPT ![t] = "exchange"]
    /\ UNCHANGED <<next, value, todo, tuple, at, loaded>>

(* Slip: the exchanged value is not looked at *)
LockExchangeBlind(t) ==
    LET e == Target[tuple[t]] IN
    /\ pc[t] = "exchange"
    /\ next' = [next EXCEPT ![e] = [ptr |-> seen[t].ptr, locked |-> TRUE]]
    /\ pc' = [pc EXCEPT ![t] = "gather"]
    /\ UNCHANGED <<value, todo, tuple, at, seen, loaded>>

(* lock: the exchange, repeated while the old value had lock bits *)
LockExchange(t) ==
    LET e == Target[tuple[t]] IN
    /\ pc[t] = "exchange"
    /\ next' = [next EXCEPT ![e] = [ptr |-> seen[t].ptr, locked |-> TRUE]]
    /\ pc' = [pc EXCEPT ![t] = IF next[e].locked THEN "lock" ELSE "gather"]
    /\ UNCHANGED <<value, todo, tuple, at, seen, loaded>>

(* The nested region of subop.lock: gather, compute, scatter *)
Gather(t) ==
    /\ pc[t] = "gather"
    /\ loaded' = [loaded EXCEPT ![t] = value[Target[tuple[t]]]]
    /\ pc' = [pc EXCEPT ![t] = "scatter"]
    /\ UNCHANGED <<next, value, todo, tuple, at, seen>>

Scatter(t) ==
    /\ pc[t] = "scatter"
    /\ value' = [value EXCEPT ![Target[tuple[t]]] = loaded[t] \cup {tuple[t]}]
    /\ pc' = [pc EXCEPT ![t] = "unlock"]
    /\ UNCHANGED <<next, todo, tuple, at, seen, loaded>>

(* unlock: the plain read of nextPtr in l.store(nextPtr & ~mask) *)
UnlockRead(t) ==
    /\ pc[t] = "unlock"
    /\ seen' = [seen EXCEPT ![t] = next[Target[tuple[t]]]]
    /\ pc' = [pc EXCEPT ![t] = "store"]
    /\ UNCHANGED <<next, value, todo, tuple, at, loaded>>

(* Slips: the whole word cleared; the word stored as it was read *)
UnlockStoreZero(t) ==
    /\ pc[t] = "store"
    /\ next' = [next EXCEPT ![Target[tuple[t]]] = [ptr |-> Null, locked |-> FALSE]]
    /\ pc' = [pc EXCEPT ![t] = "idle"]
    /\ UNCHANGED <<value, todo, tuple, at, seen, loaded>>
UnlockStoreUnmasked(t) ==
    /\ pc[t] = "store"
    /\ next' = [next EXCEPT ![Target[tuple[t]]] = seen[t]]
    /\ pc' = [pc EXCEPT ![t] = "idle"]
    /\ UNCHANGED <<value, todo, tuple, at, seen, loaded>>

(* unlock: the store *)
UnlockStore(t) ==
    /\ pc[t] = "store"
    /\ next' = [next EXCEPT ![Target[tuple[t]]] = [ptr |-> seen[t].ptr, locked |-> FALSE]]
    /\ pc' = [pc EXCEPT ![t] = "idle"]
    /\ UNCHANGED <<value, todo, tuple, at, seen, loaded>>

Step(t) ==
    \/ Take(t) \/ WalkOn(t) \/ WalkMiss(t) \/ WalkHit(t)
    \/ LockRead(t) \/ LockExchange(t)
    \/ Gather(t) \/ Scatter(t)
    \/ UnlockRead(t) \/ UnlockStore(t)

Done == todo = {} /\ \A t \in Threads : pc[t] = "idle"

(* The pipeline has ended *)
Finished == Done /\ UNCHANGED vars

Next == (\E t \in Threads : Step(t)) \/ Finished

Spec == Init /\ [][Next]_vars

(* TBB's workers are operating-system threads: each one that can go on does  *)
FairSpec == Spec /\ \A t \in Threads : WF_vars(Step(t))

-----------------------------------------------------------------------------
(* Properties *)

Holding == {"gather", "scatter", "unlock", "store"}
PCs == {"idle", "walk", "lock", "exchange"} \cup Holding

(* Every variable holds values of its C++ or generated counterpart. *)
TypeOK ==
    /\ next \in [Entries -> Pointers]
    /\ value \in [Entries -> SUBSET Tuples]
    /\ todo \in SUBSET Tuples
    /\ pc \in [Threads -> PCs]
    /\ tuple \in [Threads -> Tuples]
    /\ at \in [Threads -> Pointers]
    /\ seen \in [Threads -> Pointers]
    /\ loaded \in [Threads -> SUBSET Tuples]

(* lock admits one worker to an entry at a time, although it decides with an *)
(* exchange that writes the word whether or not it was free.                 *)
MutualExclusion ==
    \A t, u \in Threads :
        (t # u /\ pc[t] \in Holding /\ pc[u] \in Holding)
            => Target[tuple[t]] # Target[tuple[u]]

(* Tuples whose work on their entry is not visible yet *)
Pending == todo \cup {tuple[t] : t \in {u \in Threads : pc[u] \in PCs \ {"idle", "unlock", "store"}}}

(* No update is lost and no lookup misses its entry, while the pointers it    *)
(* follows are being locked and unlocked by others: an entry's aggregate has  *)
(* exactly the tuples of its key that are not pending.                        *)
NoLostUpdate ==
    \A e \in Entries : value[e] = {x \in Tuples \ Pending : Target[x] = e}

(* Locking never changes where an entry's next pointer leads, although lock  *)
(* and unlock write back what they have read before.                         *)
ChainKept == \A e \in Entries : next[e].ptr = ChainNext(e)

(* The parts of the inductive invariant that TypeOK, ChainKept,              *)
(* MutualExclusion and NoLostUpdate need                                     *)

(* What lock and unlock are about to write back leads where it should *)
SeenFresh ==
    \A t \in Threads : pc[t] \in {"exchange", "store"}
        => seen[t].ptr = ChainNext(Target[tuple[t]])

(* A walk has not passed the entry it looks for *)
WalkBefore ==
    \A t \in Threads : (pc[t] = "walk" /\ Target[tuple[t]] # Null)
        => at[t].ptr # Null /\ at[t].ptr <= Target[tuple[t]]

(* Only entries are locked, and exactly those that a worker holds have bits set *)
OnEntry ==
    \A t \in Threads : pc[t] \in {"lock", "exchange"} \cup Holding
        => Target[tuple[t]] # Null
LockBits ==
    \A e \in Entries :
        next[e].locked <=> \E t \in Threads : pc[t] \in Holding /\ Target[tuple[t]] = e

(* A tuple is worked on by one worker, once *)
OwnTuple ==
    /\ \A t \in Threads : pc[t] # "idle" => tuple[t] \notin todo
    /\ \A t, u \in Threads :
          (t # u /\ pc[t] # "idle" /\ pc[u] # "idle") => tuple[t] # tuple[u]

(* What was gathered is still the entry's aggregate when it is scattered *)
LoadedFresh ==
    \A t \in Threads : pc[t] = "scatter" => loaded[t] = value[Target[tuple[t]]]

LockInv ==
    /\ TypeOK /\ ChainKept /\ SeenFresh /\ WalkBefore /\ OnEntry /\ LockBits
    /\ MutualExclusion /\ OwnTuple /\ LoadedFresh /\ NoLostUpdate

(* What Parallelize and the sequential code take the locked region for: one  *)
(* step that finishes a pending tuple, having put it into the aggregate of   *)
(* its entry, if it has one                                                  *)
AtomicUpdate ==
    \E x \in Pending :
        /\ Pending' = Pending \ {x}
        /\ value' = IF Target[x] = Null THEN value
                    ELSE [value EXCEPT ![Target[x]] = @ \cup {x}]

(* Lock, gather, scatter and unlock of all workers together implement that   *)
(* atomic reduction: what a step does to the aggregates is one update of one *)
(* tuple or nothing, and nothing is taken back.                              *)
ReductionIsAtomic ==
    /\ value = [e \in Entries |-> {}] /\ Pending = Tuples
    /\ [][AtomicUpdate]_<<value, Pending>>

(* Every tuple is worked off: no worker waits for a lock for ever. *)
AllDone == <>Done
=============================================================================
