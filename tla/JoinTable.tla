------------------------------ MODULE JoinTable ------------------------------
(***************************************************************************)
(* What the pipelines of a hash join rely on: the build side is inserted   *)
(* entry by entry, each insertion at one instant, and once it is complete  *)
(* a probe is handed every entry with its hash, once and in any order.     *)
(***************************************************************************)
CONSTANTS Entries, Hashes, Hash

VARIABLES inserted, probing, hash, handed

vars == <<inserted, probing, hash, handed>>

Matching(h) == {e \in Entries : Hash[e] = h}

Init == inserted = {} /\ probing = FALSE /\ hash = 0 /\ handed = {}

Insert(e) ==
    /\ e \in Entries \ inserted
    /\ inserted' = inserted \cup {e}
    /\ UNCHANGED <<probing, hash, handed>>

Probe(h) ==
    /\ ~probing
    /\ inserted = Entries
    /\ probing' = TRUE
    /\ hash' = h
    /\ handed' = {}
    /\ UNCHANGED inserted

HandOver(e) ==
    /\ probing
    /\ e \in Matching(hash) \ handed
    /\ handed' = handed \cup {e}
    /\ UNCHANGED <<inserted, probing, hash>>

EndProbe ==
    /\ probing
    /\ handed = Matching(hash)
    /\ probing' = FALSE
    /\ UNCHANGED <<inserted, hash, handed>>

Next ==
    \/ \E e \in Entries : Insert(e) \/ HandOver(e)
    \/ \E h \in Hashes : Probe(h)
    \/ EndProbe

Spec == Init /\ [][Next]_vars
=============================================================================
