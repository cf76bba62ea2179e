--------------------------- MODULE MCGrowingBuffer ---------------------------
(* An instance of GrowingBuffer in which blocks of one, two and four elements *)
(* occur, and blocks of three and four are split into chunks of two.          *)
EXTENDS GrowingBuffer

MCSource == <<4, 2, 6, 1, 3, 5>>
=============================================================================
