------------------------------ MODULE MCStorage ------------------------------
(* Instances of Storage: three rows, two of which have the same key hash.    *)
EXTENDS Storage, TLC

CONSTANTS r1, r2, r3, h1, h2

MCHash == r1 :> h1 @@ r2 :> h2 @@ r3 :> h1
=============================================================================
