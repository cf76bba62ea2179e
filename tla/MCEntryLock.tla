----------------------------- MODULE MCEntryLock -----------------------------
(* An instance of EntryLock: a chain of two entries, one tuple for its first  *)
(* entry, two for its second and one without a match.                         *)
EXTENDS EntryLock, TLC

CONSTANTS x1, x2, x3, x4

MCTuples == {x1, x2, x3, x4}
MCTarget == x1 :> 1 @@ x2 :> 2 @@ x3 :> 2 @@ x4 :> 0
=============================================================================
