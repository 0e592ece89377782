--------------------------- MODULE MCPublication ---------------------------
(* Publication for TLC: two writers that meet at one destination or write  *)
(* to two, beside other programs that may take either.                     *)
EXTENDS Publication
=============================================================================
