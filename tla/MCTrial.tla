------------------------------ MODULE MCTrial ------------------------------
(* Trial for TLC.  The four observations of World reach every answer of    *)
(* the two checks a trial makes of them: a state that differs, a history   *)
(* that grows, shrinks, is replaced, or shrinks and grows back.            *)
EXTENDS Trial

CONSTANTS c1, i1, i2, s1, s2, e1, e2

MCRequirements ==
    (c1 :> {[kind |-> "state", surface |-> "covered"]}) @@
    (i1 :> {[kind |-> "complete_history", surface |-> "covered"],
            [kind |-> "subject_result", surface |-> "uncovered"]}) @@
    (i2 :> {[kind |-> "history", surface |-> "covered"]})

MCWorld == {[state |-> s1, history |-> <<>>],
            [state |-> s1, history |-> <<e1>>],
            [state |-> s2, history |-> <<e2>>],
            [state |-> s1, history |-> <<e1, e2>>]}
=============================================================================
