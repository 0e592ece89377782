----------------------------- MODULE Evaluation -----------------------------
(***************************************************************************)
(* evaluate_case (_semantic_kernel.py): configuration and preflight, the   *)
(* primary pair of a clean and a perturbed trial, two confirmation pairs   *)
(* when the primary pair raised a candidate, and the two axes concluded    *)
(* from them.  A trial may end with any outcome of TrialOutcomes, which is *)
(* what Trial is shown to keep to, or be interrupted.                      *)
(***************************************************************************)
EXTENDS TrialOutcomes

CONSTANT None

VARIABLES
    coverage,       \* case.coverage
    control,        \* the statement evaluate_case stands at, or how it ended
    clean,          \* the pair's clean outcome while its perturbed trial runs
    pairs,          \* primary and confirmations, in the order they ran
    cleanValidity,  \* AxisResult, None until concluded
    retrySafety     \* AxisResult, None until concluded

vars == <<coverage, control, clean, pairs, cleanValidity, retrySafety>>

Axis == {"clean", "retry"}

PairResult ==
    [clean: BOOLEAN, perturbed: BOOLEAN,   \* whether the trial has evidence
     cleanResults: [CleanAssertions -> InvariantResult],
     retryResults: [RetryInvariants -> InvariantResult],
     errors: SUBSET Axis,                  \* the axes of the pair's errors
     cleanCleanup: CleanupStatus, perturbedCleanup: CleanupStatus]

AxisResult(names) == [status: AxisStatus, invariants: [names -> InvariantResult]]

ASSUME EvaluationAssumption ==
    /\ None \notin TrialOutcome(CleanAssertions)
    /\ None \notin AxisResult(CleanAssertions)
    /\ None \notin AxisResult(RetryInvariants)

Ended == {"done", "configuration_error", "preflight_error", "raised", "interrupted"}

TypeOK ==
    /\ coverage \in SurfaceCoverage
    /\ control \in {"configuration", "preflight", "scope", "clean_trial",
                    "perturbed_trial", "conclude"} \cup Ended
    /\ clean \in TrialOutcome(CleanAssertions) \cup {None}
    /\ pairs \in Seq(PairResult) /\ Len(pairs) <= 3
    /\ cleanValidity \in AxisResult(CleanAssertions) \cup {None}
    /\ retrySafety \in AxisResult(RetryInvariants) \cup {None}

Init ==
    /\ coverage \in SurfaceCoverage
    /\ control = "configuration"
    /\ clean = None
    /\ pairs = <<>>
    /\ cleanValidity = None
    /\ retrySafety = None

-----------------------------------------------------------------------------
(* Before the trials.  The key selector, called while the scope is         *)
(* recorded, is outside the handler that wraps preflight().                *)

CheckConfiguration ==
    /\ control = "configuration"
    /\ control' = IF RetryInvariants = {} THEN "configuration_error" ELSE "preflight"
    /\ UNCHANGED <<coverage, clean, pairs, cleanValidity, retrySafety>>

Preflight ==
    /\ control = "preflight"
    /\ control' \in {"scope", "preflight_error"}
    /\ UNCHANGED <<coverage, clean, pairs, cleanValidity, retrySafety>>

RecordScope ==
    /\ control = "scope"
    /\ control' \in {"clean_trial", "raised"}
    /\ UNCHANGED <<coverage, clean, pairs, cleanValidity, retrySafety>>

-----------------------------------------------------------------------------
(* _run_pair.                                                              *)

Candidates(pair) == {i \in RetryInvariants : pair.retryResults[i].candidate}

(* Slips: confirmations without a candidate; confirmations without an end. *)
AfterPairConfirms(ran) == IF Len(ran) < 3 THEN "clean_trial" ELSE "conclude"
AfterPairKeepsConfirming(ran) ==
    IF Candidates(ran[1]) # {} THEN "clean_trial" ELSE "conclude"

(* A primary pair with candidates is followed by exactly two others.       *)
AfterPair(ran) ==
    IF (Len(ran) = 1 /\ Candidates(ran[1]) # {}) \/ Len(ran) = 2
    THEN "clean_trial" ELSE "conclude"

(* Slip: a pair that recorded errors is run again.                         *)
AddPairWithoutErrors(pair) ==
    /\ pairs' = IF pair.errors = {} THEN Append(pairs, pair) ELSE pairs
    /\ control' = IF pair.errors = {} THEN AfterPair(pairs') ELSE "clean_trial"
    /\ clean' = None
    /\ UNCHANGED <<coverage, cleanValidity, retrySafety>>

AddPair(pair) ==
    /\ pairs' = Append(pairs, pair)
    /\ control' = AfterPair(pairs')
    /\ clean' = None
    /\ UNCHANGED <<coverage, cleanValidity, retrySafety>>

ErrorAxis(axis, failed) == IF failed THEN {axis} ELSE {}

WithoutCleanEvidence(o) ==
    [clean |-> FALSE, perturbed |-> FALSE,
     cleanResults |-> o.results,
     retryResults |-> UniformResults(RetryInvariants, "ERROR", "no_clean_reference"),
     errors |-> ErrorAxis("clean", o.failed) \cup {"retry"},
     cleanCleanup |-> o.cleanup, perturbedCleanup |-> "not_attempted"]

Compared(c, o) ==
    [clean |-> TRUE, perturbed |-> o.evidence,
     cleanResults |-> c.results, retryResults |-> o.results,
     errors |-> ErrorAxis("clean", c.failed) \cup ErrorAxis("retry", o.failed),
     cleanCleanup |-> c.cleanup, perturbedCleanup |-> o.cleanup]

RunClean(o) ==
    /\ control = "clean_trial"
    /\ IF o.evidence
       THEN /\ clean' = o
            /\ control' = "perturbed_trial"
            /\ UNCHANGED <<coverage, pairs, cleanValidity, retrySafety>>
       ELSE AddPair(WithoutCleanEvidence(o))

RunPerturbed(o) ==
    /\ control = "perturbed_trial"
    /\ AddPair(Compared(clean, o))

-----------------------------------------------------------------------------
(* The conclusion: candidates are resolved, then each axis aggregates the  *)
(* primary pair's results with the primary pair's errors of that axis.     *)

Confirmations == SubSeq(pairs, 2, Len(pairs))

ResolveCandidates ==
    [i \in RetryInvariants |->
        ResolveCandidate(i, pairs[1].retryResults[i], Confirmations)]

(* Slip: the errors of both axes count on each.                            *)
ConcludeWithAnyError ==
    /\ control = "conclude" /\ control' = "done"
    /\ cleanValidity' = [status |-> Aggregate(pairs[1].cleanResults, TRUE, pairs[1].errors # {}),
                         invariants |-> pairs[1].cleanResults]
    /\ retrySafety' = [status |-> Aggregate(ResolveCandidates, FALSE, pairs[1].errors # {}),
                       invariants |-> ResolveCandidates]
    /\ UNCHANGED <<coverage, clean, pairs>>

Conclude ==
    /\ control = "conclude"
    /\ control' = "done"
    /\ cleanValidity' =
           [status |-> Aggregate(pairs[1].cleanResults, TRUE, "clean" \in pairs[1].errors),
            invariants |-> pairs[1].cleanResults]
    /\ retrySafety' =
           [status |-> Aggregate(ResolveCandidates, FALSE, "retry" \in pairs[1].errors),
            invariants |-> ResolveCandidates]
    /\ UNCHANGED <<coverage, clean, pairs>>

(* KeyboardInterrupt, in preflight or out of a trial.                      *)
Interrupt ==
    /\ control \in {"preflight", "scope", "clean_trial", "perturbed_trial"}
    /\ control' = "interrupted"
    /\ UNCHANGED <<coverage, clean, pairs, cleanValidity, retrySafety>>

Progress ==
    \/ CheckConfiguration \/ Preflight \/ RecordScope
    \/ \E o \in CleanOutcomes(coverage) : RunClean(o)
    \/ \E o \in PerturbedOutcomes(coverage) : RunPerturbed(o)
    \/ Conclude

Next == Progress \/ Interrupt

Spec == Init /\ [][Next]_vars

(* Each trial ends (Trial!TrialEnds), so the evaluation takes its next     *)
(* statement.                                                              *)
FairSpec == Spec /\ WF_vars(Progress)

-----------------------------------------------------------------------------
Concluded == control = "done"

FinalVerdict(i) == retrySafety.invariants[i].verdict

(* The confirmation policy, in both directions (claim-boundaries.md:196):  *)
(* an invariant FAILs exactly when three pairs contradicted it and neither *)
(* confirmation recorded an error on any axis.                             *)
FailIsReproduced ==
    Concluded => \A i \in RetryInvariants :
        FinalVerdict(i) = "FAIL" <=>
            /\ Len(pairs) = 3
            /\ \A k \in 1..3 : i \in Candidates(pairs[k])
            /\ pairs[2].errors = {} /\ pairs[3].errors = {}

(* A contradiction seen in the primary pair is settled and never forgotten:*)
(* no result stays a candidate, its invariant does not PASS and neither    *)
(* does the axis.                                                          *)
CandidateNeverPasses ==
    Concluded =>
        /\ \A i \in RetryInvariants : ~retrySafety.invariants[i].candidate
        /\ \A i \in Candidates(pairs[1]) : FinalVerdict(i) # "PASS"
        /\ Candidates(pairs[1]) # {} => retrySafety.status # "PASS"

(* retry_safety=PASS stands on a clean and a perturbed trial that ran to   *)
(* their end, a perturbed world that was cleaned up, and coverage of all   *)
(* that the invariants require; clean_validity=PASS likewise.              *)
PassIsSupported ==
    /\ Concluded /\ retrySafety.status = "PASS" =>
        /\ pairs[1].clean /\ pairs[1].perturbed
        /\ pairs[1].perturbedCleanup = "pass"
        /\ \A i \in RetryInvariants : Missing(i, coverage) = {}
    /\ Concluded /\ cleanValidity.status = "PASS" =>
        /\ pairs[1].clean
        /\ pairs[1].cleanCleanup = "pass"
        /\ \A c \in CleanAssertions : Missing(c, coverage) = {}

(* Errors stay on their axis: the clean axis is ERROR only for an error of *)
(* the primary clean trial, the retry axis only for one of the primary     *)
(* perturbed trial or a failed confirmation of a candidate; and the retry  *)
(* axis is never UNVERIFIED.                                               *)
ErrorsStayOnTheirAxis ==
    Concluded =>
        /\ cleanValidity.status = "ERROR" => "clean" \in pairs[1].errors
        /\ cleanValidity.status = "UNVERIFIED" =>
               CleanAssertions = {} /\ "clean" \notin pairs[1].errors
        /\ retrySafety.status = "ERROR" =>
               \/ "retry" \in pairs[1].errors
               \/ \E k \in DOMAIN Confirmations : Confirmations[k].errors # {}
        /\ retrySafety.status # "UNVERIFIED"

(* Evidence is only added: no later trial rewrites the pairs already run,  *)
(* confirmations run only for a candidate of the primary pair, and a       *)
(* conclusion is drawn once.                                               *)
PairsOnlyAdded ==
    [][/\ Len(pairs') >= Len(pairs)
       /\ \A k \in DOMAIN pairs : pairs'[k] = pairs[k]
       /\ Len(pairs') > 1 => Candidates(pairs'[1]) # {}
       /\ retrySafety # None => UNCHANGED <<pairs, cleanValidity, retrySafety>>]_vars

(* Every evaluation ends, with both axes or with the exception that kept   *)
(* it from drawing them.                                                   *)
EvaluationEnds == <>(control \in Ended)

(* "An inconclusive result must name the missing surface, evidence kind,   *)
(* applicability, or unreached boundary" (claim-boundaries.md:271-272): a   *)
(* candidate none of whose confirmations reached the boundary is not       *)
(* reported as one that valid confirmations did not reproduce.             *)
UnreachedBoundaryIsNamed ==
    Concluded => \A i \in Candidates(pairs[1]) :
        (\A k \in 2..3 : pairs[k].retryResults[i].explanation = "boundary_not_reached")
            => retrySafety.invariants[i].explanation # "not_reproduced"
=============================================================================
