---------------------------- MODULE MCLostResult ----------------------------
(* LostResult for TLC: two observations, two payloads, three crossings.    *)
EXTENDS LostResult
=============================================================================
