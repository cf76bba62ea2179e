------------------------ MODULE HashIndexedViewProofs ------------------------
(***************************************************************************)
(* For any number of workers, entries, hash values and slots: building a   *)
(* HashIndexedView in parallel loses no entry, its chains are acyclic, its *)
(* tags cover their chains, and a probe finds exactly its matches.         *)
(***************************************************************************)
EXTENDS HashIndexedView, TLAPS

-----------------------------------------------------------------------------
(* Chains *)

(* The chain behind the null pointer is empty. *)
LEMMA ChainNull == ASSUME NEW nx PROVE ChainOf(nx, Null) = {}
  <1>1. {} \in SUBSET Entries /\ ClosedUnder(nx, {}) /\ Null \in {} \cup {Null}
    BY DEF ClosedUnder
  <1> QED BY <1>1 DEF ChainOf

(* A chain contains its first entry and is closed under next. *)
LEMMA ChainClosed ==
  ASSUME NEW nx \in [Entries -> Pointers], NEW e \in Entries \cup {Null}
  PROVE  /\ ChainOf(nx, e) \in SUBSET Entries
         /\ e \in ChainOf(nx, e) \cup {Null}
         /\ ClosedUnder(nx, ChainOf(nx, e))
  <1>1. ChainOf(nx, e) \in SUBSET Entries
    BY DEF ChainOf
  <1>2. e \in ChainOf(nx, e) \cup {Null}
    BY DEF ChainOf
  <1>3. ASSUME NEW f \in ChainOf(nx, e), nx[f].ptr # Null
        PROVE  nx[f].ptr \in ChainOf(nx, e)
    <2>1. f \in Entries /\ nx[f].ptr \in Entries
      BY <1>3 DEF ChainOf, Pointers
    <2>2. ASSUME NEW C \in SUBSET Entries, e \in C \cup {Null}, ClosedUnder(nx, C)
          PROVE  nx[f].ptr \in C
      <3>1. f \in C
        BY <2>2 DEF ChainOf
      <3> QED BY <3>1, <2>2, <1>3 DEF ClosedUnder
    <2> QED BY <2>1, <2>2 DEF ChainOf
  <1> QED BY <1>1, <1>2, <1>3 DEF ClosedUnder

(* A chain is inside every closed set that contains its first entry. *)
LEMMA ChainLeast ==
  ASSUME NEW nx, NEW e, NEW C \in SUBSET Entries,
         e \in C \cup {Null}, ClosedUnder(nx, C)
  PROVE  ChainOf(nx, e) \subseteq C
  BY DEF ChainOf

(* A chain is its first entry followed by the chain behind it. *)
LEMMA ChainStep ==
  ASSUME NEW nx \in [Entries -> Pointers], NEW e \in Entries
  PROVE  ChainOf(nx, e) = {e} \cup ChainOf(nx, nx[e].ptr)
  <1> DEFINE q == nx[e].ptr
             D == {e} \cup ChainOf(nx, q)
  <1>1. q \in Entries \cup {Null}
    BY DEF Pointers
  <1>2. /\ ChainOf(nx, q) \in SUBSET Entries
        /\ q \in ChainOf(nx, q) \cup {Null}
        /\ ClosedUnder(nx, ChainOf(nx, q))
    BY <1>1, ChainClosed
  <1>3. D \in SUBSET Entries /\ e \in D \cup {Null} /\ ClosedUnder(nx, D)
    BY <1>2 DEF ClosedUnder
  <1>4. ChainOf(nx, e) \subseteq D
    BY <1>3, ChainLeast
  <1>5. /\ ChainOf(nx, e) \in SUBSET Entries
        /\ e \in ChainOf(nx, e)
        /\ ClosedUnder(nx, ChainOf(nx, e))
    BY ChainClosed, ViewAssumption
  <1>6. q \in ChainOf(nx, e) \cup {Null}
    BY <1>5 DEF ClosedUnder
  <1>7. ChainOf(nx, q) \subseteq ChainOf(nx, e)
    BY <1>5, <1>6, ChainLeast
  <1> QED BY <1>4, <1>5, <1>7

(* A chain depends only on the next pointers of its own entries. *)
LEMMA ChainFrame ==
  ASSUME NEW nx \in [Entries -> Pointers], NEW ny \in [Entries -> Pointers],
         NEW e \in Entries \cup {Null},
         \A f \in ChainOf(nx, e) : ny[f] = nx[f]
  PROVE  ChainOf(ny, e) = ChainOf(nx, e)
  <1> DEFINE D == ChainOf(nx, e)
             B == ChainOf(ny, e)
  <1>1. D \in SUBSET Entries /\ e \in D \cup {Null} /\ ClosedUnder(nx, D)
    BY ChainClosed
  <1>2. B \in SUBSET Entries /\ e \in B \cup {Null} /\ ClosedUnder(ny, B)
    BY ChainClosed
  <1>3. ClosedUnder(ny, D)
    BY <1>1 DEF ClosedUnder
  <1>4. B \subseteq D
    BY <1>1, <1>3, ChainLeast
  <1>5. ClosedUnder(nx, B)
    BY <1>2, <1>4 DEF ClosedUnder
  <1>6. D \subseteq B
    BY <1>2, <1>5, ChainLeast
  <1> QED BY <1>4, <1>6

-----------------------------------------------------------------------------
(* The inductive invariant *)

(* The facts about a slot number and a tagged pointer that every step needs. *)
LEMMA PosInSlots == \A h \in Hashes : Pos(h) \in Slots
  BY ViewAssumption DEF Pos, Slots

LEMMA TagIsPointer ==
  ASSUME NEW e \in Entries, NEW p \in Pointers, NEW h \in Hashes
  PROVE  tag(e, p, h) \in Pointers /\ tag(e, p, h).ptr = e
  BY ViewAssumption DEF tag, Pointers

(* The empty table satisfies the invariant. *)
LEMMA InitInv == Init => ViewInv
  <1> SUFFICES ASSUME Init PROVE ViewInv
    OBVIOUS
  <1> USE DEF Init
  <1>0. NullPtr \in Pointers /\ NullPtr.ptr = Null
    BY DEF NullPtr, Pointers
  <1>1. TypeOK
    BY <1>0 DEF TypeOK
  <1>2. Published = {}
    BY DEF Published
  <1>3. Ownership /\ Linked
    BY ViewAssumption DEF Ownership, Linked
  <1>4. \A s \in Slots : Chain(ht[s].ptr) = {}
    BY <1>0, ChainNull DEF Chain
  <1>5. NoLostEntry /\ Acyclic /\ TagCovers /\ ChainInSlot
    BY <1>2, <1>4 DEF NoLostEntry, Acyclic, TagCovers, ChainInSlot
  <1>6. ProbeAhead /\ ProbeExact
    BY DEF ProbeAhead, ProbeExact
  <1> QED BY <1>1, <1>3, <1>5, <1>6 DEF ViewInv

(* A step that leaves the table, the published entries and their next        *)
(* pointers alone keeps what the invariant says of the table.                *)
LEMMA TableFrame ==
  ASSUME TypeOK, next' \in [Entries -> Pointers],
         NoLostEntry, Acyclic, TagCovers, ChainInSlot,
         ht' = ht, Published' = Published,
         \A e \in Published : next'[e] = next[e]
  PROVE  /\ NoLostEntry' /\ Acyclic' /\ TagCovers' /\ ChainInSlot'
         /\ \A s \in Slots : Chain(ht[s].ptr)' = Chain(ht[s].ptr)
  <1>0. next \in [Entries -> Pointers] /\ ht \in [Slots -> Pointers]
    BY DEF TypeOK
  <1>1. \A s \in Slots : ChainOf(next', ht[s].ptr) = ChainOf(next, ht[s].ptr)
    <2> TAKE s \in Slots
    <2>1. ht[s].ptr \in Entries \cup {Null}
      BY <1>0 DEF Pointers
    <2>2. \A f \in ChainOf(next, ht[s].ptr) : next'[f] = next[f]
      BY DEF NoLostEntry, Chain
    <2> QED BY <1>0, <2>1, <2>2, ChainFrame
  <1>2. \A e \in Published : ChainOf(next', next[e].ptr) = ChainOf(next, next[e].ptr)
    <2> TAKE e \in Published
    <2>1. next[e].ptr \in Entries \cup {Null}
      BY <1>0 DEF Pointers, Published
    <2>2. \A f \in ChainOf(next, next[e].ptr) : next'[f] = next[f]
      BY DEF ChainInSlot, Chain
    <2> QED BY <1>0, <2>1, <2>2, ChainFrame
  <1>3. NoLostEntry'
    BY <1>1 DEF NoLostEntry, Chain
  <1>4. Acyclic' /\ ChainInSlot'
    BY <1>2 DEF Acyclic, ChainInSlot, Chain
  <1>5. TagCovers'
    BY <1>1, <1>2 DEF TagCovers, Chain
  <1> QED BY <1>1, <1>3, <1>4, <1>5 DEF Chain

(* Only a successful compare-exchange changes the set of published entries. *)
LEMMA TakeKeeps ==
  ASSUME TypeOK, Ownership, NEW t \in Threads, Take(t)
  PROVE  Published' = Published
  <1>1. PICK e \in todo : todo' = todo \ {e} /\ entry' = [entry EXCEPT ![t] = e]
    BY DEF Take
  <1>2. InFlight' = InFlight \cup {e}
    BY <1>1, ViewAssumption DEF InFlight, TypeOK, Ownership, Take
  <1> QED BY <1>1, <1>2 DEF Published

LEMMA PublishGrows ==
  ASSUME TypeOK, Ownership, NEW t \in Threads, Publish(t)
  PROVE  /\ entry[t] \in Entries \ Published
         /\ Published' = Published \cup {entry[t]}
  <1>1. entry[t] \in Entries /\ entry[t] \in InFlight
    BY DEF Publish, Ownership, TypeOK, InFlight
  <1>2. InFlight' = InFlight \ {entry[t]}
    BY <1>1, ViewAssumption DEF InFlight, Ownership, TypeOK, Publish
  <1> QED BY <1>1, <1>2 DEF Published, Ownership, Publish

(* When every worker is done, every entry is published. *)
LEMMA AllPublished == ASSUME Ownership, Built PROVE Published = Entries
  <1>1. \A t \in Threads : entry[t] = Null
    BY DEF Built, Ownership
  <1>2. InFlight = {}
    BY <1>1, ViewAssumption DEF InFlight
  <1> QED BY <1>2 DEF Published, Built

(* Every step of a worker or of a probe keeps the invariant. *)
LEMMA StepInv == ViewInv /\ [Next]_vars => ViewInv'
  <1> SUFFICES ASSUME ViewInv, [Next]_vars PROVE ViewInv'
    OBVIOUS
  <1> USE DEF ViewInv
  <1>typ. /\ ht \in [Slots -> Pointers] /\ next \in [Entries -> Pointers]
          /\ pc \in [Threads -> {"idle", "load", "link", "cas"}]
          /\ entry \in [Threads -> Entries \cup {Null}]
          /\ current \in [Threads -> Pointers] /\ newEntry \in [Threads -> Pointers]
    BY DEF TypeOK
  (* While a worker is at work no probe scans the table. *)
  <1>busy. ASSUME NEW t \in Threads, pc[t] # "idle", UNCHANGED probe
           PROVE  ProbeAhead' /\ ProbeExact'
    BY <1>busy DEF ProbeAhead, ProbeExact, Built, Matches
  <1>mine. ASSUME NEW t \in Threads, pc[t] # "idle"
           PROVE  /\ entry[t] \in Entries /\ entry[t] \notin Published
                  /\ Hash[entry[t]] \in Hashes /\ Pos(Hash[entry[t]]) \in Slots
    BY <1>typ, <1>mine, PosInSlots, ViewAssumption DEF Ownership, Published, InFlight
  <1>1. ASSUME NEW t \in Threads, Take(t) PROVE ViewInv'
    <2> USE <1>1 DEF Take
    <2>1. PICK e \in todo : todo' = todo \ {e} /\ entry' = [entry EXCEPT ![t] = e]
      OBVIOUS
    <2>2. TypeOK'
      BY <2>1 DEF TypeOK
    <2>3. Ownership'
      BY <2>1, <1>typ, ViewAssumption DEF Ownership, TypeOK
    <2>4. Linked'
      BY <2>1, <1>typ DEF Linked
    <2>6. Published' = Published
      BY TakeKeeps
    <2>7. NoLostEntry' /\ Acyclic' /\ TagCovers' /\ ChainInSlot'
      BY <2>6, <1>typ, TableFrame
    <2>8. ProbeAhead' /\ ProbeExact'
      BY <2>1 DEF ProbeAhead, ProbeExact, Built, Matches
    <2> QED BY <2>2, <2>3, <2>4, <2>7, <2>8
  <1>2. ASSUME NEW t \in Threads, Load(t) \/ Retry(t) PROVE ViewInv'
    <2> USE <1>2 DEF Load, Retry
    <2>1. TypeOK'
      BY <1>mine, <1>typ DEF TypeOK
    <2>2. Ownership' /\ Linked'
      BY <1>typ DEF Ownership, Linked
    <2>3. Published' = Published
      BY DEF Published, InFlight
    <2>4. NoLostEntry' /\ Acyclic' /\ TagCovers' /\ ChainInSlot'
      BY <2>3, <1>typ, TableFrame
    <2> QED BY <2>1, <2>2, <2>4, <1>busy
  <1>3. ASSUME NEW t \in Threads, Link(t) PROVE ViewInv'
    <2> USE <1>3 DEF Link
    <2>1. next' \in [Entries -> Pointers] /\ newEntry' \in [Threads -> Pointers]
      BY <1>mine, <1>typ, TagIsPointer
    <2>2. TypeOK'
      BY <2>1, <1>typ DEF TypeOK
    <2>3. Ownership'
      BY <1>typ DEF Ownership
    <2>4. Linked'
      BY <1>mine, <1>typ DEF Linked, Ownership
    <2>5. Published' = Published
      BY DEF Published, InFlight
    <2>6. \A e \in Published : next'[e] = next[e]
      BY <1>mine, <1>typ DEF Published
    <2>7. NoLostEntry' /\ Acyclic' /\ TagCovers' /\ ChainInSlot'
      BY <2>1, <2>5, <2>6, TableFrame
    <2> QED BY <2>2, <2>3, <2>4, <2>7, <1>busy
  <1>4. ASSUME NEW t \in Threads, Publish(t) PROVE ViewInv'
    <2> DEFINE e == entry[t]
               slot == Pos(Hash[e])
    <2>0. pc[t] = "cas" /\ ht[slot] = current[t] /\ ht' = [ht EXCEPT ![slot] = newEntry[t]]
          /\ entry' = [entry EXCEPT ![t] = Null] /\ pc' = [pc EXCEPT ![t] = "idle"]
          /\ UNCHANGED <<next, todo, current, newEntry, probe>>
      BY <1>4 DEF Publish
    <2>1. e \in Entries /\ e \notin Published /\ Hash[e] \in Hashes /\ slot \in Slots
      BY <2>0, <1>mine
    <2>2. /\ next[e] = ht[slot]
          /\ newEntry[t] = tag(e, ht[slot], Hash[e])
          /\ newEntry[t].ptr = e
          /\ newEntry[t].tag = ht[slot].tag \cup TagOf[Hash[e]]
      BY <2>0 DEF Linked, tag
    <2>3. TypeOK'
      BY <2>0, <2>1, <1>typ DEF TypeOK
    <2>4. Ownership'
      BY <2>0, <1>typ, ViewAssumption DEF Ownership, TypeOK
    <2>5. Linked'
      BY <2>0, <1>typ DEF Linked
    <2>7. Published' = Published \cup {e}
      BY <1>4, PublishGrows
    <2>8. ChainOf(next, e) = {e} \cup ChainOf(next, ht[slot].ptr)
      BY <2>1, <2>2, <1>typ, ChainStep
    <2>9. ChainOf(next, next[e].ptr) = {f \in Published : Pos(Hash[f]) = slot}
      BY <2>1, <2>2 DEF NoLostEntry, Chain
    <2>10. ht'[slot] = newEntry[t] /\ \A s \in Slots : s # slot => ht'[s] = ht[s]
      BY <2>0, <2>1, <1>typ
    <2>11. NoLostEntry'
      <3> SUFFICES ASSUME NEW s \in Slots
                   PROVE  ChainOf(next, ht'[s].ptr) = {f \in Published' : Pos(Hash[f]) = s}
        BY <2>0 DEF NoLostEntry, Chain
      <3>1. CASE s = slot
        BY <3>1, <2>2, <2>7, <2>8, <2>9, <2>10
      <3>2. CASE s # slot
        BY <3>2, <2>7, <2>10 DEF NoLostEntry, Chain
      <3> QED BY <3>1, <3>2
    <2>12. Acyclic'
      BY <2>0, <2>1, <2>7, <2>9 DEF Acyclic, Chain
    <2>13. ChainInSlot'
      BY <2>0, <2>1, <2>7, <2>9 DEF ChainInSlot, Chain
    <2>14. TagCovers'
      <3>1. ASSUME NEW s \in Slots, NEW f \in ChainOf(next, ht'[s].ptr)
            PROVE  TagOf[Hash[f]] \subseteq ht'[s].tag
        <4>1. CASE s = slot
          <5>1. f = e \/ f \in ChainOf(next, ht[slot].ptr)
            BY <4>1, <3>1, <2>2, <2>8, <2>10
          <5>2. f \in ChainOf(next, ht[slot].ptr) => TagOf[Hash[f]] \subseteq ht[slot].tag
            BY <2>1 DEF TagCovers, Chain
          <5> QED BY <5>1, <5>2, <4>1, <2>2, <2>10
        <4>2. CASE s # slot
          BY <4>2, <3>1, <2>10 DEF TagCovers, Chain
        <4> QED BY <4>1, <4>2
      <3>2. ASSUME NEW g \in Published', NEW f \in ChainOf(next, next[g].ptr)
            PROVE  TagOf[Hash[f]] \subseteq next[g].tag
        <4>1. CASE g = e
          BY <4>1, <3>2, <2>1, <2>2 DEF TagCovers, Chain
        <4>2. CASE g \in Published
          BY <4>2, <3>2 DEF TagCovers, Chain
        <4> QED BY <4>1, <4>2, <2>7
      <3> QED BY <3>1, <3>2, <2>0 DEF TagCovers, Chain
    <2>15. ProbeAhead' /\ ProbeExact'
      BY <2>0, <1>busy
    <2> QED BY <2>3, <2>4, <2>5, <2>11, <2>12, <2>13, <2>14, <2>15
  (* A probe changes nothing but its own state. *)
  <1>probe. ASSUME UNCHANGED buildVars
            PROVE  /\ Ownership' /\ Linked' /\ NoLostEntry' /\ Acyclic' /\ TagCovers' /\ ChainInSlot'
                   /\ probe' \in [state : {"none", "scan", "done"}, hash : Hashes \cup {0},
                                  at : Entries \cup {Null}, found : SUBSET Entries] => TypeOK'
    <2>1. Published' = Published
      BY <1>probe DEF Published, InFlight, buildVars
    <2>2. NoLostEntry' /\ Acyclic' /\ TagCovers' /\ ChainInSlot'
      BY <2>1, <1>typ, <1>probe, TableFrame DEF buildVars
    <2> QED BY <2>2, <1>probe DEF Ownership, Linked, TypeOK, buildVars
  (* What the filter lets a scan skip holds no match. *)
  <1>filter. ASSUME NEW h \in Hashes, NEW p \in Pointers,
                    \A e \in Chain(p.ptr) : TagOf[Hash[e]] \subseteq p.tag
             PROVE  /\ filterTagged(p, h) \in Entries \cup {Null}
                    /\ Chain(filterTagged(p, h)) \subseteq Chain(p.ptr)
                    /\ Matches(h) \cap Chain(p.ptr) \subseteq Chain(filterTagged(p, h))
    <2>1. CASE TagFilter => TagOf[h] \subseteq p.tag
      BY <2>1 DEF filterTagged, Pointers
    <2>2. CASE ~(TagFilter => TagOf[h] \subseteq p.tag)
      <3>1. filterTagged(p, h) = Null /\ Chain(Null) = {}
        BY <2>2, ChainNull DEF filterTagged, Chain
      <3>2. Matches(h) \cap Chain(p.ptr) = {}
        BY <2>2, <1>filter DEF Matches
      <3> QED BY <3>1, <3>2
    <2> QED BY <2>1, <2>2
  <1>5. ASSUME NEW h \in Hashes, Lookup(h) PROVE ViewInv'
    <2> DEFINE p == ht[Pos(h)]
    <2>0. Built /\ UNCHANGED buildVars
          /\ probe' = [state |-> "scan", hash |-> h, at |-> filterTagged(p, h), found |-> {}]
      BY <1>5 DEF Lookup
    <2>1. Pos(h) \in Slots /\ p \in Pointers /\ \A e \in Chain(p.ptr) : TagOf[Hash[e]] \subseteq p.tag
      BY <1>typ, PosInSlots DEF TagCovers
    <2>2. Published = Entries
      BY <2>0, AllPublished
    <2>3. Matches(h) \subseteq Chain(p.ptr)
      BY <2>1, <2>2 DEF NoLostEntry, Matches
    <2>4. /\ filterTagged(p, h) \in Entries \cup {Null}
          /\ Matches(h) \subseteq Chain(filterTagged(p, h))
      BY <2>1, <2>3, <1>filter
    <2>5. TypeOK'
      BY <2>0, <2>4, <1>probe
    <2>6. ProbeAhead' /\ ProbeExact'
      BY <2>0, <2>4 DEF ProbeAhead, ProbeExact, Built, buildVars, Chain, Matches
    <2> QED BY <2>0, <2>5, <2>6, <1>probe
  <1>6. CASE ScanNext
    <2> DEFINE e == probe.at
               h == probe.hash
               p == next[e]
               a == filterTagged(p, h)
    <2>0. probe.state = "scan" /\ e # Null /\ UNCHANGED buildVars
          /\ probe' = [state |-> "scan", hash |-> h, at |-> a,
                       found |-> probe.found \cup ({e} \cap Matches(h))]
      BY <1>6 DEF ScanNext
    <2>1. e \in Entries /\ probe.found \in SUBSET Entries /\ p \in Pointers
      BY <2>0, <1>typ DEF TypeOK
    <2>2. Built /\ Published = Entries
      BY <2>0, AllPublished DEF ProbeAhead
    <2>3. Chain(e) = {e} \cup Chain(p.ptr) /\ e \notin Chain(p.ptr)
      BY <2>1, <2>2, <1>typ, ChainStep DEF Chain, Acyclic
    <2>h. h \in Hashes
      BY <2>0 DEF ProbeAhead
    <2>4. /\ a \in Entries \cup {Null}
          /\ Chain(a) \subseteq Chain(p.ptr)
          /\ Matches(h) \cap Chain(p.ptr) \subseteq Chain(a)
      BY <2>h, <2>1, <2>2, <1>filter DEF TagCovers
    <2>5. /\ probe'.state = "scan" /\ probe'.hash = h /\ probe'.at = a
          /\ probe'.found = probe.found \cup ({e} \cap Matches(h))
      BY <2>0
    <2>6. TypeOK'
      <3>1. probe' \in [state : {"none", "scan", "done"}, hash : Hashes \cup {0},
                        at : Entries \cup {Null}, found : SUBSET Entries]
        BY <2>0, <2>1, <2>4 DEF TypeOK
      <3> QED BY <3>1, <2>0, <1>probe
    <2>8. probe'.found \cap Chain(a) = {}
      BY <2>0, <2>3, <2>4, <2>5 DEF ProbeAhead
    <2>9. ProbeAhead'
      <3>1. Built'
        BY <2>0, <2>2 DEF Built, buildVars
      <3>2. probe'.found \subseteq Matches(h)
        BY <2>0, <2>1, <2>5 DEF ProbeAhead, Matches
      <3>3. Matches(h) \subseteq probe'.found \cup Chain(a)
        BY <2>0, <2>3, <2>4, <2>5 DEF ProbeAhead, Matches
      <3> QED BY <3>1, <3>2, <3>3, <2>5, <2>8, <2>0 DEF ProbeAhead, Chain, Matches, buildVars
    <2>10. ProbeExact'
      <3>1. a \in Chain(a) \cup {Null}
        BY <2>4, <1>typ, ChainClosed DEF Chain
      <3>2. Null \notin probe'.found
        BY <2>1, <2>5, ViewAssumption
      <3> QED BY <3>1, <3>2, <2>5, <2>8 DEF ProbeExact
    <2> QED BY <2>6, <2>9, <2>10, <2>0, <1>probe
  <1>7. CASE ScanEnd
    <2>0. probe.state = "scan" /\ probe.at = Null /\ UNCHANGED buildVars
          /\ probe' = [state |-> "done", hash |-> probe.hash, at |-> Null, found |-> probe.found]
      BY <1>7 DEF ScanEnd
    <2>1. TypeOK'
      <3>1. probe' \in [state : {"none", "scan", "done"}, hash : Hashes \cup {0},
                        at : Entries \cup {Null}, found : SUBSET Entries]
        BY <2>0 DEF TypeOK
      <3> QED BY <3>1, <2>0, <1>probe
    <2>2. probe.found = Matches(probe.hash)
      BY <2>0, ChainNull DEF ProbeAhead, Chain
    <2>3. ProbeAhead' /\ ProbeExact'
      BY <2>0, <2>2 DEF ProbeAhead, ProbeExact, Matches, TypeOK
    <2> QED BY <2>0, <2>1, <2>3, <1>probe
  <1>8. CASE UNCHANGED vars
    <2>1. UNCHANGED buildVars /\ probe' = probe
      BY <1>8 DEF vars, buildVars
    <2>2. TypeOK'
      BY <2>1, <1>probe DEF TypeOK
    <2>3. ProbeAhead' /\ ProbeExact'
      BY <2>1 DEF ProbeAhead, ProbeExact, Built, Matches, Chain, buildVars
    <2> QED BY <2>1, <2>2, <2>3, <1>probe
  <1> QED BY <1>1, <1>2, <1>3, <1>4, <1>5, <1>6, <1>7, <1>8 DEF Next

(* Whatever the schedule of the workers, the shape of the state is kept.     *)
THEOREM TypeCorrect == Spec => []TypeOK
  <1>1. ViewInv => TypeOK
    BY DEF ViewInv
  <1> QED BY InitInv, StepInv, <1>1, PTL DEF Spec

(* The parallel build loses no entry and files none under two slots, and its *)
(* chains are acyclic, for any number of workers.                            *)
THEOREM BuildCorrect == Spec => [](NoLostEntry /\ Acyclic)
  <1>1. ViewInv => NoLostEntry /\ Acyclic
    BY DEF ViewInv
  <1> QED BY InitInv, StepInv, <1>1, PTL DEF Spec

(* The pointer tags never hide an entry from a probe.                        *)
THEOREM TagsCorrect == Spec => []TagCovers
  <1>1. ViewInv => TagCovers
    BY DEF ViewInv
  <1> QED BY InitInv, StepInv, <1>1, PTL DEF Spec

(* A probe of the finished table returns exactly the entries with its hash,  *)
(* each of them once.                                                        *)
THEOREM ProbeCorrect == Spec => []ProbeExact
  <1>1. ViewInv => ProbeExact
    BY DEF ViewInv
  <1> QED BY InitInv, StepInv, <1>1, PTL DEF Spec

-----------------------------------------------------------------------------
(* Refinement *)

(* The lock-free table implements JoinTable: a successful compare-exchange   *)
(* is an atomic insertion, a round of a scan hands over one match or none,   *)
(* and a scan ends only when every match has been handed over.               *)
THEOREM Implements == Spec => ImplementsJoinTable
  <1>1. Init => Abstract!Init
    <2> SUFFICES ASSUME Init PROVE Abstract!Init
      OBVIOUS
    <2>1. Published = {}
      BY DEF Init, Published
    <2> QED BY <2>1 DEF Init, Abstract!Init
  <1>2. ViewInv /\ ViewInv' /\ [Next]_vars => [Abstract!Next]_(Abstract!vars)
    <2> SUFFICES ASSUME ViewInv, ViewInv', [Next]_vars
                 PROVE  Abstract!Next \/ UNCHANGED Abstract!vars
      OBVIOUS
    <2>inv. TypeOK /\ Ownership /\ ProbeAhead /\ ProbeExact /\ ProbeAhead'
      BY DEF ViewInv
    <2>1. ASSUME NEW t \in Threads, Take(t) PROVE UNCHANGED Abstract!vars
      BY <2>1, <2>inv, TakeKeeps DEF Take, Abstract!vars
    <2>2. ASSUME NEW t \in Threads, Load(t) \/ Link(t) \/ Retry(t)
          PROVE  UNCHANGED Abstract!vars
      BY <2>2 DEF Load, Link, Retry, Abstract!vars, Published, InFlight
    <2>3. ASSUME NEW t \in Threads, Publish(t) PROVE Abstract!Next
      <3>1. entry[t] \in Entries /\ Abstract!Insert(entry[t])
        BY <2>3, <2>inv, PublishGrows DEF Abstract!Insert, Publish
      <3> QED BY <3>1 DEF Abstract!Next
    <2>4. ASSUME NEW h \in Hashes, Lookup(h) PROVE Abstract!Next
      <3>1. Published' = Published /\ Published = Entries
        BY <2>4, <2>inv, AllPublished DEF Lookup, buildVars, Published, InFlight
      <3>2. Abstract!Probe(h)
        BY <2>4, <3>1 DEF Lookup, Abstract!Probe
      <3> QED BY <3>2 DEF Abstract!Next
    <2>5. CASE ScanNext
      <3> DEFINE e == probe.at
      <3>1. /\ probe.state = "scan" /\ probe'.state = "scan" /\ probe'.hash = probe.hash
            /\ probe'.found = probe.found \cup ({e} \cap Matches(probe.hash))
            /\ e # Null /\ UNCHANGED buildVars
        BY <2>5 DEF ScanNext
      <3>2. e \in Entries /\ e \notin probe.found
        BY <3>1, <2>inv DEF TypeOK, ProbeExact
      <3>3. Published' = Published
        BY <3>1 DEF Published, InFlight, buildVars
      <3>4. CASE e \in Matches(probe.hash)
        <4>1. Abstract!HandOver(e)
          BY <3>1, <3>2, <3>3, <3>4 DEF Abstract!HandOver, Abstract!Matching, Matches
        <4> QED BY <4>1, <3>2 DEF Abstract!Next
      <3>5. CASE e \notin Matches(probe.hash)
        BY <3>1, <3>3, <3>5 DEF Abstract!vars
      <3> QED BY <3>4, <3>5
    <2>6. CASE ScanEnd
      <3>1. /\ probe.state = "scan" /\ probe.at = Null /\ UNCHANGED buildVars
            /\ probe'.state = "done" /\ probe'.hash = probe.hash /\ probe'.found = probe.found
        BY <2>6 DEF ScanEnd
      <3>2. probe.found = Matches(probe.hash)
        BY <3>1, <2>inv, ChainNull DEF ProbeAhead, Chain
      <3>3. Published' = Published
        BY <3>1 DEF Published, InFlight, buildVars
      <3>4. Abstract!EndProbe
        BY <3>1, <3>2, <3>3 DEF Abstract!EndProbe, Abstract!Matching, Matches
      <3> QED BY <3>4 DEF Abstract!Next
    <2>7. CASE UNCHANGED vars
      BY <2>7 DEF vars, Abstract!vars, Published, InFlight
    <2> QED BY <2>1, <2>2, <2>3, <2>4, <2>5, <2>6, <2>7 DEF Next
  <1> QED BY <1>1, <1>2, InitInv, StepInv, PTL DEF Spec, ImplementsJoinTable, Abstract!Spec
=============================================================================
