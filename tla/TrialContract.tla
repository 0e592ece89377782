--------------------------- MODULE TrialContract ---------------------------
(***************************************************************************)
(* What one trial promises the pair that runs it: it ends at most once,    *)
(* either interrupted or with one of the outcomes of TrialOutcomes.        *)
(***************************************************************************)
EXTENDS TrialOutcomes

VARIABLES kind,      \* "clean" or "perturbed"
          coverage,  \* the case's declared observer coverage
          ending     \* the trial's status and, when finished, its outcome

vars == <<kind, coverage, ending>>

Init == /\ kind \in {"clean", "perturbed"}
        /\ coverage \in SurfaceCoverage
        /\ ending = [status |-> "running"]

Outcomes == IF kind = "clean" THEN CleanOutcomes(coverage)
                              ELSE PerturbedOutcomes(coverage)

Finish == /\ ending.status = "running"
          /\ \E o \in Outcomes : ending' = [status |-> "finished", outcome |-> o]
          /\ UNCHANGED <<kind, coverage>>

Interrupt == /\ ending.status = "running"
             /\ ending' = [status |-> "interrupted"]
             /\ UNCHANGED <<kind, coverage>>

Next == Finish \/ Interrupt

Spec == Init /\ [][Next]_vars
=============================================================================
