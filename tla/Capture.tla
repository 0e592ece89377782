------------------------------ MODULE Capture ------------------------------
(***************************************************************************)
(* What capture_mcp_evidence (_mcp_evidence_replay.py) accepts of an       *)
(* evaluation of the MCP case that came to its conclusion, and which of    *)
(* the captured ones a report accepts (_mcp_reports.py): the pairs and     *)
(* axes of Evaluation against the records that the world tracker kept of   *)
(* every world the trials provisioned.  What a report requires of the      *)
(* evidence inside a trial is in ReportableTrial.                          *)
(***************************************************************************)
EXTENDS Evaluation

Mode == {"unsafe", "keyed"}

Trials == (DOMAIN pairs) \X {"clean", "perturbed"}

HasEvidence(t) ==
    IF t[2] = "clean" THEN pairs[t[1]].clean ELSE pairs[t[1]].perturbed

CleanupOf(t) ==
    IF t[2] = "clean" THEN pairs[t[1]].cleanCleanup ELSE pairs[t[1]].perturbedCleanup

-----------------------------------------------------------------------------
(* The tracker has a record of each world whose database was created.  A   *)
(* trial that is invalid may have ended before that, all others did not.   *)
MayLackWorld(t) ==
    /\ ~HasEvidence(t)
    /\ t[2] = "perturbed" =>
           \A i \in RetryInvariants :
               pairs[t[1]].retryResults[i].explanation = "trial_invalid"

TrackedWorlds ==
    LET started == {t \in Trials : t[2] = "perturbed" => pairs[t[1]].clean}
    IN  {worlds \in SUBSET started : \A t \in started \ worlds : MayLackWorld(t)}

(* A database is gone if the cleanup passed, and may be if it did not.     *)
LeftBehind(worlds) == SUBSET {t \in worlds : CleanupOf(t) # "pass"}

-----------------------------------------------------------------------------
(* _validate_result_scope: everything is observed.                         *)
ScopeIsRegistered ==
    coverage = [state |-> TRUE, history |-> TRUE, complete_history |-> TRUE]

(* Slip: what a candidate is resolved to has no explanation of its own.    *)
UnregisteredWithConfirmed == {"fault_caught", "reproduced"}

(* _require_allowed_explanation refuses what _ALLOWED_EXPLANATIONS lacks.  *)
Unregistered == {"fault_caught"}

Results ==
    {cleanValidity.invariants[c] : c \in CleanAssertions}
        \cup {retrySafety.invariants[i] : i \in RetryInvariants}
        \cup {pairs[k].cleanResults[c] : k \in DOMAIN pairs, c \in CleanAssertions}
        \cup {pairs[k].retryResults[i] : k \in DOMAIN pairs, i \in RetryInvariants}

(* _world_records: a record for each trial with evidence and for no other, *)
(* and no database left behind.                                            *)
RecordsMatch(worlds, left) == worlds = {t \in Trials : HasEvidence(t)} /\ left = {}

Captures(worlds, left) ==
    /\ ScopeIsRegistered
    /\ RecordsMatch(worlds, left)
    /\ \A result \in Results : result.explanation \notin Unregistered

-----------------------------------------------------------------------------
(* _expected_outcomes and _expected_pair_results                           *)
ExpectedClean == [c \in CleanAssertions |-> Concludes("PASS", "decision")]

ExpectedRetry(mode) ==
    [i \in RetryInvariants |-> IF mode = "keyed" THEN Concludes("PASS", "decision")
                                                 ELSE Concludes("FAIL", "reproduced")]

ExpectedComparison(mode) ==
    [i \in RetryInvariants |->
        IF mode = "keyed" THEN Concludes("PASS", "decision")
        ELSE [Concludes("INCONCLUSIVE", "decision") EXCEPT !.candidate = TRUE]]

(* _validate_pair, but for the evidence of the trials themselves.          *)
PairIsReportable(pair, mode) ==
    /\ pair.cleanResults = ExpectedClean
    /\ pair.retryResults = ExpectedComparison(mode)
    /\ pair.errors = {}
    /\ pair.clean /\ pair.cleanCleanup = "pass"
    /\ pair.perturbed /\ pair.perturbedCleanup = "pass"

(* _build_report, of what was captured.                                    *)
Reports(mode) ==
    /\ cleanValidity = [status |-> "PASS", invariants |-> ExpectedClean]
    /\ retrySafety = [status |-> IF mode = "keyed" THEN "PASS" ELSE "FAIL",
                      invariants |-> ExpectedRetry(mode)]
    /\ Len(pairs) = IF mode = "keyed" THEN 1 ELSE 3
    /\ \A k \in DOMAIN pairs : PairIsReportable(pairs[k], mode)

-----------------------------------------------------------------------------
(* Between them the capture and the report refuse nothing that the kernel  *)
(* decided on whole evidence, and nothing else passes: a capture is        *)
(* refused for a world whose trial has no evidence or whose database is    *)
(* still there, and not for how a result is explained; a PASS or a FAIL of *)
(* the retry axis never lacks the evidence of a trial; and the report's    *)
(* own checks of pairs and results come to this, that the two axes are as  *)
(* registered, no trial recorded an error and no confirmation, whose clean *)
(* results the kernel does not look at, was of an invalid clean trial.     *)
CapturesFollowConclusions ==
    Concluded /\ ScopeIsRegistered =>
        /\ \A worlds \in TrackedWorlds : \A left \in LeftBehind(worlds) :
               /\ Captures(worlds, left) <=> left = {} /\ \A t \in worlds : HasEvidence(t)
               /\ retrySafety.status \in {"PASS", "FAIL"} => \A t \in worlds : HasEvidence(t)
               /\ (\E mode \in Mode : Reports(mode)) => Captures(worlds, left)
        /\ \A mode \in Mode :
               Reports(mode) <=>
                   /\ cleanValidity.status = "PASS"
                   /\ retrySafety.status = IF mode = "keyed" THEN "PASS" ELSE "FAIL"
                   /\ \A k \in DOMAIN pairs :
                          /\ pairs[k].errors = {}
                          /\ pairs[k].cleanResults = pairs[1].cleanResults
=============================================================================
