----------------------------- MODULE MCCommands -----------------------------
(* Commands for TLC: two commands, any of the three each, over three       *)
(* paths, so that a replay can have one for each of its files, and two     *)
(* kinds of evidence, one of them eligible for a report.                   *)
EXTENDS Commands, TLC

CONSTANTS q1, q2, p1, p2, p3

Interchangeable == Permutations({q1, q2}) \cup Permutations({p1, p2, p3})
=============================================================================
