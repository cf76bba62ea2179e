-------------------------- MODULE MCHashIndexedView --------------------------
(* A small instance of HashIndexedView: the hashes of four build side        *)
(* entries share slots, tag bits or both, and one probe hash has no match.   *)
EXTENDS HashIndexedView, TLC

CONSTANTS e1, e2, e3, e4

MCEntries == {e1, e2, e3, e4}
(* 0, 4 and 8 fall in slot 0 of four, 1 in slot 1 *)
MCHashes == {0, 1, 4, 8}
MCHash == e1 :> 4 @@ e2 :> 8 @@ e3 :> 4 @@ e4 :> 1
MCTagBits == {48, 49}
MCTagOf == 0 :> {} @@ 1 :> {48} @@ 4 :> {48} @@ 8 :> {49}
=============================================================================
