--------------------------- MODULE HashIndexedView ---------------------------
(***************************************************************************)
(* The hash table of a hash join (runtime::HashIndexedView): built in      *)
(* parallel over the materialised build side, then probed by generated     *)
(* code.                                                                   *)
(*                                                                         *)
(* HashIndexedView::build lets every worker of a parallel_for_each push    *)
(* the entries it is given onto lock-free chains: load the slot, link the  *)
(* entry in front of the chain, and publish it with a weak                 *)
(* compare-exchange that is retried until it succeeds.  The upper 16 bits  *)
(* of a pointer carry a tag: the union of the tag bits of the hashes in    *)
(* the chain behind it, which a probe uses to stop early.                  *)
(*                                                                         *)
(* Pointers are records of an entry (or Null) and a set of tag bits, so    *)
(* the bit operations on the tag are set operations.                       *)
(***************************************************************************)
EXTENDS Integers, FiniteSets

CONSTANTS
    Threads,      \* workers of tbb::parallel_for_each
    Entries,      \* entries of the build side's GrowingBuffer
    Hashes,       \* 64 bit hash values that occur on either side
    Hash,         \* entry->hashValue
    TagBits,      \* bit positions 48..63 of a hash
    TagOf,        \* hash & tagMask, as the set of bits that are set
    HtSize,       \* max(nextPow2(len * 1.25), 1)
    TagFilter,    \* FALSE: the C++ filterTagged, which compares a hash with itself
    Null

ASSUME ViewAssumption ==
    /\ Hashes \subseteq Nat
    /\ Hash \in [Entries -> Hashes]
    /\ TagOf \in [Hashes -> SUBSET TagBits]
    /\ HtSize \in Nat \ {0}
    /\ TagFilter \in BOOLEAN
    /\ Null \notin Entries

VARIABLES
    ht,           \* slot -> tagged pointer
    next,         \* entry->next
    todo,         \* entries no worker has been given yet
    pc,           \* where each worker is in the callback of build
    entry,        \* the entry each worker is pushing
    current,      \* the local `current`: what it read from the slot
    newEntry,     \* the local `newEntry`: the pointer it wants to publish
    probe         \* the probe of the finished table

buildVars == <<ht, next, todo, pc, entry, current, newEntry>>
vars == <<ht, next, todo, pc, entry, current, newEntry, probe>>

Slots == 0 .. HtSize - 1
Pointers == [ptr : Entries \cup {Null}, tag : SUBSET TagBits]
NullPtr == [ptr |-> Null, tag |-> {}]

(* hash & htMask, htMask being a power of two minus one *)
Pos(h) == h % HtSize

(* Slip: the previous tag dropped *)
tagForgetsChain(e, previous, h) == [ptr |-> e, tag |-> TagOf[h]]

(* runtime::tag: the new pointer keeps the tag bits of the chain it hides *)
tag(e, previous, h) == [ptr |-> e, tag |-> previous.tag \cup TagOf[h]]

(* util.filter_tagged_ptr: Null unless the tag covers the hash's tag bits *)
filterTagged(p, h) ==
    IF TagFilter => TagOf[h] \subseteq p.tag THEN p.ptr ELSE Null

-----------------------------------------------------------------------------
(* Building *)

Init ==
    /\ ht = [s \in Slots |-> NullPtr]
    /\ next = [e \in Entries |-> NullPtr]
    /\ todo = Entries
    /\ pc = [t \in Threads |-> "idle"]
    /\ entry = [t \in Threads |-> Null]
    /\ current = [t \in Threads |-> NullPtr]
    /\ newEntry = [t \in Threads |-> NullPtr]
    /\ probe = [state |-> "none", hash |-> 0, at |-> Null, found |-> {}]

(* values.iterateParallel hands the next entry to a worker *)
Take(t) ==
    /\ pc[t] = "idle"
    /\ \E e \in todo :
          /\ todo' = todo \ {e}
          /\ entry' = [entry EXCEPT ![t] = e]
    /\ pc' = [pc EXCEPT ![t] = "load"]
    /\ UNCHANGED <<ht, next, current, newEntry, probe>>

(* Entry* current = slot.load() *)
Load(t) ==
    /\ pc[t] = "load"
    /\ current' = [current EXCEPT ![t] = ht[Pos(Hash[entry[t]])]]
    /\ pc' = [pc EXCEPT ![t] = "link"]
    /\ UNCHANGED <<ht, next, todo, entry, newEntry, probe>>

(* The loop's body: entry->next = current; newEntry = tag(entry, current, hash) *)
Link(t) ==
    /\ pc[t] = "link"
    /\ next' = [next EXCEPT ![entry[t]] = current[t]]
    /\ newEntry' = [newEntry EXCEPT ![t] = tag(entry[t], current[t], Hash[entry[t]])]
    /\ pc' = [pc EXCEPT ![t] = "cas"]
    /\ UNCHANGED <<ht, todo, entry, current, probe>>

(* Slip: a plain store instead of the compare-exchange *)
PublishByStore(t) ==
    /\ pc[t] = "cas"
    /\ ht' = [ht EXCEPT ![Pos(Hash[entry[t]])] = newEntry[t]]
    /\ entry' = [entry EXCEPT ![t] = Null]
    /\ pc' = [pc EXCEPT ![t] = "idle"]
    /\ UNCHANGED <<next, todo, current, newEntry, probe>>

(* slot.compare_exchange_weak succeeds, and the callback returns *)
Publish(t) ==
    LET slot == Pos(Hash[entry[t]]) IN
    /\ pc[t] = "cas"
    /\ ht[slot] = current[t]
    /\ ht' = [ht EXCEPT ![slot] = newEntry[t]]
    /\ entry' = [entry EXCEPT ![t] = Null]
    /\ pc' = [pc EXCEPT ![t] = "idle"]
    /\ UNCHANGED <<next, todo, current, newEntry, probe>>

(* Slip: a failed exchange that does not refresh `current` *)
RetryStale(t) ==
    /\ pc[t] = "cas"
    /\ pc' = [pc EXCEPT ![t] = "link"]
    /\ UNCHANGED <<ht, next, todo, entry, current, newEntry, probe>>

(* It fails: because another worker changed the slot, or spuriously.  Either *)
(* way `current` receives what the slot holds, and the loop runs again.      *)
Retry(t) ==
    /\ pc[t] = "cas"
    /\ current' = [current EXCEPT ![t] = ht[Pos(Hash[entry[t]])]]
    /\ pc' = [pc EXCEPT ![t] = "link"]
    /\ UNCHANGED <<ht, next, todo, entry, newEntry, probe>>

Built == todo = {} /\ \A t \in Threads : pc[t] = "idle"

-----------------------------------------------------------------------------
(* Probing the finished table: subop.lookup, then subop.scan_list over the   *)
(* chain it returns                                                          *)

(* The entries that pass the scan's comparison of hashes *)
Matches(h) == {e \in Entries : Hash[e] = h}

(* Load ht[hash & htMask] and filter the pointer with the hash *)
Lookup(h) ==
    /\ Built
    /\ probe.state # "scan"
    /\ probe' = [state |-> "scan", hash |-> h,
                 at |-> filterTagged(ht[Pos(h)], h), found |-> {}]
    /\ UNCHANGED buildVars

(* Slip: every entry of the chain is passed on, whatever its hash *)
ScanNextUnchecked ==
    /\ probe.state = "scan"
    /\ probe.at # Null
    /\ probe' = [state |-> "scan", hash |-> probe.hash,
                 at |-> filterTagged(next[probe.at], probe.hash),
                 found |-> probe.found \cup {probe.at}]
    /\ UNCHANGED buildVars

(* One round of the scan's loop: an entry with the probe's hash is passed on *)
(* and the filtered next pointer followed                                    *)
ScanNext ==
    /\ probe.state = "scan"
    /\ probe.at # Null
    /\ probe' = [state |-> "scan", hash |-> probe.hash,
                 at |-> filterTagged(next[probe.at], probe.hash),
                 found |-> probe.found \cup ({probe.at} \cap Matches(probe.hash))]
    /\ UNCHANGED buildVars

ScanEnd ==
    /\ probe.state = "scan"
    /\ probe.at = Null
    /\ probe' = [state |-> "done", hash |-> probe.hash, at |-> Null, found |-> probe.found]
    /\ UNCHANGED buildVars

Next ==
    \/ \E t \in Threads : Take(t) \/ Load(t) \/ Link(t) \/ Publish(t) \/ Retry(t)
    \/ \E h \in Hashes : Lookup(h)
    \/ ScanNext
    \/ ScanEnd

Spec == Init /\ [][Next]_vars

(* Workers are not descheduled for ever, and a compare-exchange that keeps   *)
(* being retried succeeds eventually: a failed one means another worker's    *)
(* has succeeded, and a spurious failure does not happen for ever.           *)
Fairness ==
    /\ \A t \in Threads :
          /\ WF_vars(Take(t)) /\ WF_vars(Load(t)) /\ WF_vars(Link(t))
          /\ WF_vars(Publish(t) \/ Retry(t)) /\ SF_vars(Publish(t))
    /\ WF_vars(ScanNext) /\ WF_vars(ScanEnd)

FairSpec == Spec /\ Fairness
-----------------------------------------------------------------------------
(* Properties *)

(* The worker's entry, if it has one, is not yet in the table *)
InFlight == {e \in Entries : \E t \in Threads : entry[t] = e}

Published == Entries \ (todo \cup InFlight)

(* The entries on the chain that starts at e: the least set that contains e  *)
(* and, with an entry, the one its next pointer names                        *)
ClosedUnder(nx, C) == \A f \in C : nx[f].ptr \in C \cup {Null}
ChainOf(nx, e) ==
    {f \in Entries : \A C \in SUBSET Entries :
        (e \in C \cup {Null} /\ ClosedUnder(nx, C)) => f \in C}
Chain(e) == ChainOf(next, e)

(* Every variable keeps the shape of the C++ object it models.              *)
TypeOK ==
    /\ ht \in [Slots -> Pointers]
    /\ next \in [Entries -> Pointers]
    /\ todo \in SUBSET Entries
    /\ pc \in [Threads -> {"idle", "load", "link", "cas"}]
    /\ entry \in [Threads -> Entries \cup {Null}]
    /\ current \in [Threads -> Pointers]
    /\ newEntry \in [Threads -> Pointers]
    /\ probe \in [state : {"none", "scan", "done"}, hash : Hashes \cup {0},
                  at : Entries \cup {Null}, found : SUBSET Entries]

(* Whatever the interleaving of the workers' compare-exchanges, a slot's    *)
(* chain holds exactly the entries of the slot that were published: no push *)
(* overwrites another one's entry and none ends up on two chains.           *)
NoLostEntry ==
    \A s \in Slots : Chain(ht[s].ptr) = {e \in Published : Pos(Hash[e]) = s}

(* A chain never leads back to an entry it has left, so scan_list ends.     *)
Acyclic == \A e \in Published : e \notin Chain(next[e].ptr)

(* The tag of a pointer (a slot's, or a published entry's next) covers the   *)
(* tag bits of every hash on the chain behind it: filter_tagged_ptr, which   *)
(* gives up the rest of the chain, never gives up a match.                   *)
TagCovers ==
    /\ \A s \in Slots : \A e \in Chain(ht[s].ptr) : TagOf[Hash[e]] \subseteq ht[s].tag
    /\ \A f \in Published : \A e \in Chain(next[f].ptr) : TagOf[Hash[e]] \subseteq next[f].tag

(* A probe that has ended passed on exactly the build side entries with the *)
(* probe's hash, and never passes one on twice.                             *)
ProbeExact ==
    /\ probe.state = "done" => probe.found = Matches(probe.hash)
    /\ probe.state = "scan" => probe.at \notin probe.found

(* The inductive strengthening.  A worker's entry is its own until it is     *)
(* published; at the compare-exchange the entry is linked to what the worker *)
(* believes the slot to hold; a published entry's chain stays inside the     *)
(* published entries of its slot; and a scan still has ahead of it exactly   *)
(* the matches that it has not passed on.                                    *)
Ownership ==
    \A t \in Threads :
        /\ entry[t] = Null <=> pc[t] = "idle"
        /\ entry[t] \notin todo
        /\ \A u \in Threads : entry[t] # Null /\ entry[u] = entry[t] => u = t

Linked ==
    \A t \in Threads : pc[t] = "cas" =>
        /\ next[entry[t]] = current[t]
        /\ newEntry[t] = tag(entry[t], current[t], Hash[entry[t]])

ChainInSlot ==
    \A e \in Published : \A f \in Chain(next[e].ptr) :
        f \in Published /\ Pos(Hash[f]) = Pos(Hash[e])

ProbeAhead ==
    probe.state = "scan" =>
        /\ Built
        /\ probe.hash \in Hashes
        /\ probe.found \subseteq Matches(probe.hash)
        /\ Matches(probe.hash) \subseteq probe.found \cup Chain(probe.at)
        /\ probe.found \cap Chain(probe.at) = {}

ViewInv ==
    /\ TypeOK
    /\ Ownership
    /\ Linked
    /\ NoLostEntry
    /\ Acyclic
    /\ TagCovers
    /\ ChainInSlot
    /\ ProbeAhead
    /\ ProbeExact

(* The lock-free table implements the abstract one: an entry is inserted at  *)
(* the instant its compare-exchange succeeds, and the rounds of a scan hand   *)
(* over the matches.                                                         *)
Abstract == INSTANCE JoinTable WITH
    inserted <- Published,
    probing <- probe.state = "scan",
    hash <- probe.hash,
    handed <- probe.found
ImplementsJoinTable == Abstract!Spec

(* The build ends: the workers' retries do not keep each other from          *)
(* publishing for ever.                                                      *)
BuildEnds == <>[]Built
=============================================================================
