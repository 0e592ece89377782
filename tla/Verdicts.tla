------------------------------ MODULE Verdicts ------------------------------
(***************************************************************************)
(* The contracts of a case and what the semantic kernel concludes from     *)
(* them (_semantic_kernel.py): which evidence a contract misses, the       *)
(* result of evaluating it, how a candidate is resolved by its             *)
(* confirmations, and how results aggregate to an axis status.             *)
(* A contract's evaluate() is case code: it is modelled by its decision.   *)
(***************************************************************************)
EXTENDS Naturals, Sequences

CONSTANTS CleanAssertions,  \* names of the clean assertions, distinct
          RetryInvariants,  \* names of the retry invariants, distinct
          RequirementsOf    \* the evidence each of them requires

EvidenceKind == {"state", "history", "complete_history", "subject_result"}
Surface == {"covered", "uncovered"}  \* the coverage's surface, or another
EvidenceRequirement == [kind: EvidenceKind, surface: Surface]
SurfaceCoverage == [state: BOOLEAN, history: BOOLEAN, complete_history: BOOLEAN]

Contracts == CleanAssertions \cup RetryInvariants

ASSUME VerdictsAssumption ==
    RequirementsOf \in [Contracts -> SUBSET EvidenceRequirement]

InvariantVerdict == {"PASS", "FAIL", "INCONCLUSIVE", "ERROR"}
AxisStatus == InvariantVerdict \cup {"UNVERIFIED"}
CleanupStatus == {"not_attempted", "pass", "error"}
Decision == {"passed", "contradicted", "raised"}

Explanation == {"decision", "evidence_unavailable", "evaluator_malfunctioned",
                "boundary_not_reached", "fault_caught", "trial_invalid",
                "no_clean_reference", "confirmation_missing",
                "confirmation_failed", "reproduced", "not_reproduced"}

InvariantResult == [verdict: InvariantVerdict, explanation: Explanation,
                    missing: SUBSET EvidenceRequirement, candidate: BOOLEAN]

-----------------------------------------------------------------------------
(* _missing_requirements: the subject's result needs no surface.           *)
MissingRequirements(requirements, coverage) ==
    {r \in requirements :
        /\ r.kind # "subject_result"
        /\ \/ r.surface # "covered"
           \/ r.kind = "state" /\ ~coverage.state
           \/ r.kind = "history" /\ ~coverage.history
           \/ /\ r.kind = "complete_history"
              /\ ~(coverage.history /\ coverage.complete_history)}

Missing(name, coverage) == MissingRequirements(RequirementsOf[name], coverage)

Concludes(verdict, explanation) ==
    [verdict |-> verdict, explanation |-> explanation,
     missing |-> {}, candidate |-> FALSE]

(* A contract without its evidence is never evaluated.                     *)
WithoutEvidence(name, coverage) ==
    [verdict |-> "INCONCLUSIVE", explanation |-> "evidence_unavailable",
     missing |-> Missing(name, coverage), candidate |-> FALSE]

(* _evaluate_clean_contracts: one trial decides a clean assertion.         *)
CleanResult(name, coverage, decision) ==
    IF Missing(name, coverage) # {} THEN WithoutEvidence(name, coverage)
    ELSE IF decision = "raised" THEN Concludes("ERROR", "evaluator_malfunctioned")
    ELSE Concludes(IF decision = "passed" THEN "PASS" ELSE "FAIL", "decision")

(* _evaluate_retry_contracts: a contradiction is only a candidate.         *)
RetryResult(name, coverage, decision) ==
    IF Missing(name, coverage) # {} THEN WithoutEvidence(name, coverage)
    ELSE IF decision = "raised" THEN Concludes("ERROR", "evaluator_malfunctioned")
    ELSE IF decision = "passed" THEN Concludes("PASS", "decision")
    ELSE [Concludes("INCONCLUSIVE", "decision") EXCEPT !.candidate = TRUE]

EvaluateClean(coverage, decisions) ==
    [c \in CleanAssertions |-> CleanResult(c, coverage, decisions[c])]

EvaluateRetry(coverage, decisions) ==
    [i \in RetryInvariants |-> RetryResult(i, coverage, decisions[i])]

(* The evaluators that recorded an error of their own.                     *)
Malfunctioned(results) ==
    {n \in DOMAIN results : results[n].explanation = "evaluator_malfunctioned"}

(* _error_results and _inconclusive_results                                *)
UniformResults(names, verdict, explanation) ==
    [n \in names |-> Concludes(verdict, explanation)]

NoResults == [n \in {} |-> n]

-----------------------------------------------------------------------------
(* _resolve_candidates, for one invariant: its result in the primary pair  *)
(* against the sequence of confirmation pairs, each with all its errors    *)
(* (of both axes) and its retry results.                                   *)

Match(name, pair) ==
    IF name \in DOMAIN pair.retryResults
    THEN pair.retryResults[name]
    ELSE Concludes("ERROR", "confirmation_missing")

(* Slip: the confirmation's other errors are ignored.                      *)
ConfirmationFailedItself(name, confirmations) ==
    \E k \in DOMAIN confirmations :
        \/ Match(name, confirmations[k]).verdict = "ERROR"
        \/ Match(name, confirmations[k]).missing # {}

ConfirmationFailed(name, confirmations) ==
    \E k \in DOMAIN confirmations :
        \/ confirmations[k].errors # {}
        \/ Match(name, confirmations[k]).verdict = "ERROR"
        \/ Match(name, confirmations[k]).missing # {}

Reproduced(name, confirmations) ==
    \A k \in DOMAIN confirmations : Match(name, confirmations[k]).candidate

(* Slip: the candidate is given its verdict but not settled.               *)
ResolvedStillCandidate(result, verdict, explanation) ==
    [result EXCEPT !.verdict = verdict, !.explanation = explanation]

Resolved(result, verdict, explanation) ==
    [result EXCEPT !.verdict = verdict, !.explanation = explanation,
                   !.candidate = FALSE]

ResolveCandidate(name, result, confirmations) ==
    IF ~result.candidate THEN result
    ELSE IF Len(confirmations) # 2
         THEN Resolved(result, "ERROR", "confirmation_missing")
    ELSE IF ConfirmationFailed(name, confirmations)
         THEN Resolved(result, "ERROR", "confirmation_failed")
    ELSE IF Reproduced(name, confirmations)
         THEN Resolved(result, "FAIL", "reproduced")
    ELSE Resolved(result, "INCONCLUSIVE", "not_reproduced")

(* Slip: errors that left every verdict alone are ignored.                 *)
AggregateVerdictsOnly(results, allowUnverified, hasError) ==
    LET verdicts == {results[n].verdict : n \in DOMAIN results}
    IN  IF verdicts = {} THEN IF allowUnverified THEN "UNVERIFIED" ELSE "ERROR"
        ELSE IF "FAIL" \in verdicts THEN "FAIL"
        ELSE IF "ERROR" \in verdicts THEN "ERROR"
        ELSE IF "INCONCLUSIVE" \in verdicts THEN "INCONCLUSIVE"
        ELSE "PASS"

(* _aggregate: FAIL outranks ERROR, ERROR INCONCLUSIVE, that PASS; only an *)
(* axis without contracts and without errors is UNVERIFIED.                *)
Aggregate(results, allowUnverified, hasError) ==
    LET verdicts == {results[n].verdict : n \in DOMAIN results}
    IN  IF verdicts = {}
        THEN IF allowUnverified /\ ~hasError THEN "UNVERIFIED" ELSE "ERROR"
        ELSE IF "FAIL" \in verdicts THEN "FAIL"
        ELSE IF hasError \/ "ERROR" \in verdicts THEN "ERROR"
        ELSE IF "INCONCLUSIVE" \in verdicts THEN "INCONCLUSIVE"
        ELSE "PASS"
=============================================================================
