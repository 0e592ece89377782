---------------------------- MODULE MCEvaluation ----------------------------
(* Evaluation for TLC: one clean assertion with one retry invariant, or    *)
(* two retry invariants, over every coverage.                              *)
EXTENDS Capture, TLC

CONSTANTS c1, i1, i2

State == [kind |-> "state", surface |-> "covered"]
CompleteHistory == [kind |-> "complete_history", surface |-> "covered"]

MCRequirements == (c1 :> {State}) @@ (i1 :> {CompleteHistory})

MCTwoRequirements == [i \in {i1, i2} |-> {CompleteHistory}]

SymmetricInvariants == Permutations({i1, i2})
=============================================================================
