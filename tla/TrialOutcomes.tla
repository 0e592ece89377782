--------------------------- MODULE TrialOutcomes ---------------------------
(***************************************************************************)
(* The outcomes one trial may hand to the pair that ran it: whether it has *)
(* evidence, the result of each contract, whether it recorded an error,    *)
(* and what became of the world's cleanup.  Trial is checked to produce no *)
(* other outcome; Evaluation assumes no more than this of its trials.      *)
(***************************************************************************)
EXTENDS Verdicts

TrialOutcome(names) ==
    [evidence: BOOLEAN,
     results: [names -> InvariantResult],
     failed: BOOLEAN,
     cleanup: CleanupStatus]

CleanEvaluations(coverage) ==
    {EvaluateClean(coverage, d) : d \in [CleanAssertions -> Decision]}

RetryEvaluations(coverage) ==
    {EvaluateRetry(coverage, d) : d \in [RetryInvariants -> Decision]}

(* The body completed: every contract was evaluated or lacked evidence.    *)
Evaluated(evaluations) ==
    {o \in [evidence: {TRUE},
            results: evaluations,
            failed: BOOLEAN,
            cleanup: {"pass", "error"}] :
        o.failed <=> (o.cleanup = "error" \/ Malfunctioned(o.results) # {})}

(* Something malfunctioned before the contracts were evaluated.            *)
Invalid(names) ==
    {o \in [evidence: BOOLEAN,
            results: {UniformResults(names, "ERROR", "trial_invalid")},
            failed: {TRUE},
            cleanup: CleanupStatus] : o.cleanup = "not_attempted" => ~o.evidence}

(* Nothing malfunctioned, but the fault was never reached.                 *)
Unreached ==
    [evidence |-> FALSE,
     results |-> UniformResults(RetryInvariants, "INCONCLUSIVE", "boundary_not_reached"),
     failed |-> FALSE,
     cleanup |-> "pass"]

(* The subject hid the fault from the harness.                             *)
Swallowed ==
    [evidence |-> FALSE,
     results |-> UniformResults(RetryInvariants, "ERROR", "fault_caught"),
     failed |-> TRUE,
     cleanup |-> "pass"]

CleanOutcomes(coverage) ==
    Evaluated(CleanEvaluations(coverage)) \cup Invalid(CleanAssertions)

PerturbedOutcomes(coverage) ==
    Evaluated(RetryEvaluations(coverage)) \cup Invalid(RetryInvariants)
        \cup {Unreached, Swallowed}
=============================================================================
