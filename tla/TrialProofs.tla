---------------------------- MODULE TrialProofs ----------------------------
(***************************************************************************)
(* Theorems about Trial, for every case, world, subject and coverage.  The *)
(* schedule inside of a perturbed trial is that of LostResult, whose       *)
(* inductive invariant is proved in LostResultProofs and used here.        *)
(***************************************************************************)
EXTENDS Trial, TLAPS

Sched == INSTANCE LostResultProofs

EvaluationStage == IF kind = "clean" THEN "clean_evaluation" ELSE "retry_evaluation"

Evaluations == IF kind = "clean" THEN CleanEvaluations(coverage)
                                 ELSE RetryEvaluations(coverage)

(* What is known of a world once its histories were validated.             *)
HistoriesAreValid == coverage.history /\ coverage.complete_history => HistoryPreserved

(* Where a perturbed trial and its schedule stand, one against the other.  *)
ScheduleIsInStep ==
    /\ Sched!ScheduleInv
    /\ kind = "clean" \/ stage \notin {"lost_result_schedule", "history_validation",
                                       "retry_evaluation"}
           => schedule = "baseline"
    /\ kind = "perturbed" /\ stage \in {"history_validation", "retry_evaluation"}
           => schedule = "completed"
    /\ kind = "perturbed" /\ stage \in {"fixture_validation", "baseline_comparison",
                                        "lost_result_schedule", "history_validation",
                                        "retry_evaluation"}
           => baseline # None
    /\ kind = "perturbed" /\ stage \in {"lost_result_schedule", "history_validation",
                                        "retry_evaluation"}
           => baseline.state = reference
    /\ stage = EvaluationStage => HistoriesAreValid

(* The results of a body that ended without an exception, and its errors.  *)
BodyEvaluated ==
    /\ stage = EvaluationStage
    /\ results \in Evaluations

(* Everything a trial has before its world's cleanup, wherever it stands.  *)
BeforeCleanup ==
    /\ step \in {"body", "rollback", "exit"} => cleanups = 0 /\ cleanup = "not_attempted"
    /\ step \in {"body", "rollback"} => raised = "none"
    /\ step \in {"body", "rollback"} \/ (step = "exit" /\ raised # "none")
           => errors = {} /\ results = NoResults
    /\ step = "rollback" => stage = "provision"
    /\ step = "exit" => stage \notin {"world_factory", "provision"}
    /\ step = "exit" /\ raised = "none" =>
           /\ BodyEvaluated
           /\ errors = IF Malfunctioned(results) = {} THEN {} ELSE {"evaluator"}
    /\ raised \in {"boundary", "swallowed"} =>
           kind = "perturbed" /\ stage = "lost_result_schedule" /\ schedule # "completed"

(* The four ways a trial that ends may end, as TrialOutcomes has them.     *)
EndsEvaluated ==
    /\ raised = "none" /\ cleanups = 1 /\ cleanup \in {"pass", "error"}
    /\ BodyEvaluated
    /\ errors = (IF Malfunctioned(results) = {} THEN {} ELSE {"evaluator"})
                   \cup (IF cleanup = "error" THEN {"cleanup"} ELSE {})

EndsInvalid ==
    /\ results = UniformResults(Names, "ERROR", "trial_invalid")
    /\ errors # {}
    /\ raised # "none" => stage \in errors
    /\ cleanup = "error" => {"cleanup", "cleanup_after_provision"} \cap errors # {}
    /\ raised = "boundary" => cleanup = "error"
    /\ cleanup = "not_attempted" <=> cleanups = 0
    /\ cleanups = 0 => stage = "world_factory"

EndsUnreached ==
    /\ raised = "boundary" /\ errors = {}
    /\ cleanups = 1 /\ cleanup = "pass"
    /\ results = UniformResults(Names, "INCONCLUSIVE", "boundary_not_reached")

EndsSwallowed ==
    /\ raised = "swallowed" /\ errors = {"fault_propagation"}
    /\ cleanups = 1 /\ cleanup = "pass"
    /\ results = UniformResults(Names, "ERROR", "fault_caught")

AtTheEnd ==
    /\ step = "done" => EndsEvaluated \/ EndsInvalid \/ EndsUnreached \/ EndsSwallowed
    /\ step = "interrupted" /\ stage \notin {"world_factory", "provision"} => cleanups = 1

TrialInv == TypeOK /\ ScheduleIsInStep /\ BeforeCleanup /\ AtTheEnd

-----------------------------------------------------------------------------
(* The schedule's own proofs apply to the one inside of a trial.           *)

LEMMA ScheduleAssumption == Sched!LostResultAssumption
BY TrialAssumption DEF Sched!LostResultAssumption

LEMMA ScheduleHelpersAgree ==
    /\ LostResultSchedule!TypeOK <=> Sched!TypeOK
    /\ LostResultSchedule!InitController <=> Sched!InitController
BY DEF LostResultSchedule!TypeOK, Sched!TypeOK,
       LostResultSchedule!InitController, Sched!InitController,
       LostResultSchedule!Attempt, Sched!Attempt,
       LostResultSchedule!Statements, Sched!Statements,
       LostResultSchedule!Outcomes, Sched!Outcomes

LEMMA ScheduleStepsAgree == LostResultSchedule!Next => Sched!Next
BY DEF LostResultSchedule!Observing, Sched!Observing,
       LostResultSchedule!Crossing, Sched!Crossing,
       LostResultSchedule!CatchLoss, Sched!CatchLoss,
       LostResultSchedule!RaiseHeldLoss, Sched!RaiseHeldLoss,
       LostResultSchedule!Interrupt, Sched!Interrupt,
       LostResultSchedule!InvocationEnds, Sched!InvocationEnds,
       LostResultSchedule!RecordBaseline, Sched!RecordBaseline,
       LostResultSchedule!ObserveLost, Sched!ObserveLost,
       LostResultSchedule!ObserveFinal, Sched!ObserveFinal,
       LostResultSchedule!ObserverRaises, Sched!ObserverRaises,
       LostResultSchedule!Deliver, Sched!Deliver,
       LostResultSchedule!FirstReturns, Sched!FirstReturns,
       LostResultSchedule!SecondReturns, Sched!SecondReturns,
       LostResultSchedule!LossPropagates, Sched!LossPropagates,
       LostResultSchedule!SubjectRaises, Sched!SubjectRaises,
       LostResultSchedule!Next, Sched!Next, LostResultSchedule!Attempt,
       Sched!Attempt, LostResultSchedule!Invoking, Sched!Invoking,
       LostResultSchedule!Running, Sched!Running,
       LostResultSchedule!CurrentAttempt, Sched!CurrentAttempt,
       LostResultSchedule!Statements, Sched!Statements,
       LostResultSchedule!controller, Sched!controller,
       LostResultSchedule!observations, Sched!observations

(* A step of the schedule keeps its invariant and a baseline it was given. *)
LEMMA ScheduleStep ==
    ASSUME Sched!ScheduleInv, LostResultSchedule!Next
    PROVE  /\ Sched!ScheduleInv'
           /\ baseline # None => UNCHANGED baseline
<1>1. Sched!ScheduleInv /\ [Sched!Next]_(Sched!vars) => Sched!ScheduleInv'
  BY ScheduleAssumption, Sched!ScheduleInvNext DEF Sched!ScheduleInvNext
<1>2. Sched!Next
  BY ScheduleStepsAgree
<1>3. baseline # None => UNCHANGED baseline
  BY <1>2
     DEF Sched!Next, Sched!Observing, Sched!Crossing, Sched!CatchLoss,
         Sched!RaiseHeldLoss, Sched!Interrupt, Sched!InvocationEnds,
         Sched!RecordBaseline, Sched!ObserveLost, Sched!ObserveFinal,
         Sched!ObserverRaises, Sched!Deliver, Sched!FirstReturns, Sched!SecondReturns,
         Sched!LossPropagates, Sched!SubjectRaises, Sched!observations
<1> QED
  BY <1>1, <1>2, <1>3

(* What a clean trial stores where the schedule's controller has not run   *)
(* yet does not disturb the schedule's invariant.                          *)
LEMMA ObservationKeepsSchedule ==
    ASSUME Sched!ScheduleInv, schedule = "baseline", UNCHANGED controlVars,
           afterLost' = afterLost,
           baseline' \in World \cup {None}, final' \in World \cup {None},
           subjectResult' \in Result \cup {None}
    PROVE  Sched!ScheduleInv'
BY ScheduleAssumption
   DEF Sched!ScheduleInv, Sched!TypeOK, Sched!Attempt, Sched!Statements,
       Sched!Outcomes, Sched!LostResultAssumption, controlVars

-----------------------------------------------------------------------------
(* The results a trial may have.                                           *)

LEMMA UniformTyped ==
    ASSUME NEW names, NEW v \in InvariantVerdict, NEW e \in Explanation
    PROVE  UniformResults(names, v, e) \in [names -> InvariantResult]
<1>1. Concludes(v, e) \in InvariantResult
  BY DEF Concludes, InvariantResult
<1> QED
  BY <1>1 DEF UniformResults

LEMMA MissingTyped ==
    ASSUME NEW n \in Contracts, NEW cov
    PROVE  Missing(n, cov) \subseteq EvidenceRequirement
BY VerdictsAssumption DEF Missing, MissingRequirements

LEMMA ResultsTyped ==
    ASSUME NEW n \in Contracts, NEW cov, NEW d \in Decision
    PROVE  /\ CleanResult(n, cov, d) \in InvariantResult
           /\ RetryResult(n, cov, d) \in InvariantResult
<1>1. WithoutEvidence(n, cov) \in InvariantResult
  BY MissingTyped DEF WithoutEvidence, InvariantResult, InvariantVerdict, Explanation
<1>2. ASSUME NEW v \in InvariantVerdict, NEW e \in Explanation
      PROVE  Concludes(v, e) \in InvariantResult
  BY DEF Concludes, InvariantResult
<1>3. [Concludes("INCONCLUSIVE", "decision") EXCEPT !.candidate = TRUE] \in InvariantResult
  BY DEF Concludes, InvariantResult, InvariantVerdict, Explanation
<1> QED
  BY <1>1, <1>2, <1>3 DEF CleanResult, RetryResult, InvariantVerdict, Explanation

LEMMA EvaluationsTyped ==
    ASSUME kind \in {"clean", "perturbed"}
    PROVE  Evaluations \subseteq [Names -> InvariantResult]
<1>1. CleanEvaluations(coverage) \subseteq [CleanAssertions -> InvariantResult]
  BY ResultsTyped DEF CleanEvaluations, EvaluateClean, Contracts
<1>2. RetryEvaluations(coverage) \subseteq [RetryInvariants -> InvariantResult]
  BY ResultsTyped DEF RetryEvaluations, EvaluateRetry, Contracts
<1> QED
  BY <1>1, <1>2 DEF Evaluations, Names

(* A contract is decided only with all the evidence it requires.           *)
LEMMA DecisionNeedsEvidence ==
    ASSUME kind \in {"clean", "perturbed"},
           NEW r \in Evaluations, NEW n \in DOMAIN r, r[n].explanation = "decision"
    PROVE  Missing(n, coverage) = {}
<1>1. CASE kind = "clean"
  <2>1. PICK d \in [CleanAssertions -> Decision] : r = EvaluateClean(coverage, d)
    BY <1>1 DEF Evaluations, CleanEvaluations
  <2> QED
    BY <2>1 DEF EvaluateClean, CleanResult, WithoutEvidence
<1>2. CASE kind = "perturbed"
  <2>1. PICK d \in [RetryInvariants -> Decision] : r = EvaluateRetry(coverage, d)
    BY <1>2 DEF Evaluations, RetryEvaluations
  <2> QED
    BY <2>1 DEF EvaluateRetry, RetryResult, WithoutEvidence
<1> QED
  BY <1>1, <1>2

(* A case without contracts has only the empty results.                    *)
LEMMA EmptyResults ==
    ASSUME NEW names, NEW r \in [names -> InvariantResult], r = NoResults, NEW v, NEW e
    PROVE  UniformResults(names, v, e) = r
<1>1. names = {}
  BY DEF NoResults
<1> QED
  BY <1>1 DEF UniformResults, NoResults

(* Settle() leaves results that are there alone, fills in missing ones.    *)
LEMMA SettleKeeps ==
    ASSUME NEW r \in [Names -> InvariantResult], NEW E, Settle(E, r)
    PROVE  errors' = E /\ results' = r
BY EmptyResults DEF Settle

LEMMA SettleFills ==
    ASSUME NEW E, E # {}, Settle(E, NoResults)
    PROVE  errors' = E /\ results' = UniformResults(Names, "ERROR", "trial_invalid")
BY DEF Settle

-----------------------------------------------------------------------------
(* The parts of the invariant that a step leaves alone.                    *)

LEMMA ScheduleTyped ==
    /\ Sched!ScheduleInv => LostResultSchedule!TypeOK
    /\ Sched!ScheduleInv' => LostResultSchedule!TypeOK'
BY DEF Sched!ScheduleInv, LostResultSchedule!TypeOK, Sched!TypeOK,
       LostResultSchedule!Attempt, Sched!Attempt, LostResultSchedule!Statements,
       Sched!Statements, LostResultSchedule!Outcomes, Sched!Outcomes

LEMMA ScheduleUntouched ==
    ASSUME ScheduleIsInStep, UNCHANGED <<scheduleVars, fixed, stage>>
    PROVE  ScheduleIsInStep'
<1>1. Sched!ScheduleInv'
  BY DEF ScheduleIsInStep, Sched!ScheduleInv, Sched!TypeOK, Sched!Attempt,
         Sched!Statements, Sched!Outcomes, scheduleVars, controlVars
<1> QED
  BY <1>1 DEF ScheduleIsInStep, EvaluationStage, HistoriesAreValid, HistoryPreserved,
              Observed, scheduleVars, controlVars, fixed

(* A statement of the body that succeeds: only the schedule's part of the  *)
(* invariant, and the new stage, remain to be shown.                       *)
LEMMA GoToPreserves ==
    ASSUME TrialInv, step = "body", NEW s \in Stages, GoTo(s), ScheduleIsInStep'
    PROVE  TrialInv'
<1> USE DEF GoTo, fixed
<1>1. LostResultSchedule!TypeOK'
  BY ScheduleTyped DEF ScheduleIsInStep
<1>2. TypeOK'
  BY <1>1 DEF TrialInv, TypeOK, Names, Stages
<1>3. BeforeCleanup' /\ AtTheEnd'
  BY DEF TrialInv, BeforeCleanup, AtTheEnd
<1> QED
  BY <1>2, <1>3 DEF TrialInv

(* A statement of the body that raises.                                    *)
LEMMA LeaveBodyPreserves ==
    ASSUME TrialInv, step = "body", stage \notin {"world_factory", "provision"},
           NEW e \in {"error", "boundary", "swallowed", "interrupt"}, LeaveBody(e),
           e \in {"boundary", "swallowed"} =>
               /\ kind = "perturbed" /\ stage = "lost_result_schedule"
               /\ schedule # "completed",
           UNCHANGED scheduleVars
    PROVE  TrialInv'
<1> USE DEF LeaveBody, fixed
<1>1. ScheduleIsInStep'
  BY ScheduleUntouched DEF TrialInv
<1>2. LostResultSchedule!TypeOK'
  BY <1>1, ScheduleTyped DEF ScheduleIsInStep
<1>3. TypeOK'
  BY <1>2 DEF TrialInv, TypeOK, Names, Stages
<1>4. BeforeCleanup'
  BY DEF TrialInv, BeforeCleanup, scheduleVars, controlVars
<1>5. AtTheEnd'
  BY DEF AtTheEnd
<1> QED
  BY <1>1, <1>3, <1>4, <1>5 DEF TrialInv

LEMMA TrialInvInit == Init => TrialInv
<1> SUFFICES ASSUME Init PROVE TrialInv
  OBVIOUS
<1>1. Sched!ScheduleInv
  <2>1. <<>> \in Seq(Sched!Attempt)
    OBVIOUS
  <2>2. Sched!TypeOK
    BY <2>1 DEF Init, LostResultSchedule!InitController, Sched!TypeOK, Sched!Statements
  <2> QED
    BY <2>2 DEF Init, LostResultSchedule!InitController, Sched!ScheduleInv
<1>2. ScheduleIsInStep
  BY <1>1 DEF Init, LostResultSchedule!InitController, ScheduleIsInStep, EvaluationStage
<1>3. TypeOK
  <2>1. reference \in State
    BY TrialAssumption DEF Init
  <2>2. LostResultSchedule!TypeOK
    BY <1>1, ScheduleTyped
  <2> QED
    BY <2>1, <2>2 DEF Init, TypeOK, Stages, CleanStages, PerturbedStages, CommonStages,
                      CleanupStatus
<1>4. BeforeCleanup /\ AtTheEnd
  BY DEF Init, BeforeCleanup, AtTheEnd
<1> QED
  BY <1>2, <1>3, <1>4 DEF TrialInv

-----------------------------------------------------------------------------
(* Every step of a trial preserves the invariant.                          *)

LEMMA BuildingPreserves ==
    ASSUME TrialInv, Building
    PROVE  TrialInv'
<1> USE DEF In, fixed
<1>1. CASE CreateSession
  <2>1. GoTo("provision") /\ UNCHANGED scheduleVars
    BY <1>1 DEF CreateSession, GoTo
  <2>2. ScheduleIsInStep'
    BY <1>1, <2>1
       DEF CreateSession, TrialInv, ScheduleIsInStep, GoTo, scheduleVars, controlVars,
           EvaluationStage, Sched!ScheduleInv, Sched!TypeOK, Sched!Attempt,
           Sched!Statements, Sched!Outcomes
  <2> QED
    BY <1>1, <2>1, <2>2, GoToPreserves
       DEF CreateSession, Stages, CleanStages, PerturbedStages, CommonStages
<1>2. CASE Provision
  <2>1. GoTo("baseline_observer") /\ UNCHANGED scheduleVars
    BY <1>2 DEF Provision
  <2>2. ScheduleIsInStep'
    BY <1>2, <2>1
       DEF Provision, TrialInv, ScheduleIsInStep, GoTo, scheduleVars, controlVars,
           EvaluationStage, Sched!ScheduleInv, Sched!TypeOK, Sched!Attempt,
           Sched!Statements, Sched!Outcomes
  <2> QED
    BY <1>2, <2>1, <2>2, GoToPreserves
       DEF Provision, Stages, CleanStages, PerturbedStages, CommonStages
<1>3. ASSUME UNCHANGED <<fixed, stage, scheduleVars>>
      PROVE  ScheduleIsInStep' /\ LostResultSchedule!TypeOK'
  BY <1>3, ScheduleUntouched, ScheduleTyped DEF TrialInv, ScheduleIsInStep
<1>4. UniformResults(Names, "ERROR", "trial_invalid") \in [Names -> InvariantResult]
  BY UniformTyped DEF InvariantVerdict, Explanation
<1>5. ASSUME NEW E \in SUBSET {"world_factory", "provision", "cleanup_after_provision"},
             E # {}, Settle(E, results), results = NoResults, step' = "done",
             UNCHANGED <<fixed, stage, scheduleVars, raised>>, raised = "none",
             cleanups' \in {0, 1},
             cleanup' = "not_attempted" <=> cleanups' = 0,
             cleanups' = 0 => stage = "world_factory",
             cleanup' \in CleanupStatus,
             cleanup' = "error" => "cleanup_after_provision" \in E
      PROVE  TrialInv'
  <2>1. errors' = E /\ results' = UniformResults(Names, "ERROR", "trial_invalid")
    BY <1>5, SettleFills
  <2>2. Names' = Names /\ Stages' = Stages
    BY <1>5 DEF Names, Stages
  <2>3. {"world_factory", "provision"} \subseteq Stages
    BY DEF Stages, CleanStages, PerturbedStages, CommonStages
  <2>4. TypeOK'
    BY <1>3, <1>4, <1>5, <2>1, <2>2, <2>3 DEF TrialInv, TypeOK, Ended
  <2>5. EndsInvalid'
    BY <1>5, <2>1, <2>2 DEF EndsInvalid
  <2> QED
    BY <1>3, <1>5, <2>4, <2>5 DEF TrialInv, BeforeCleanup, AtTheEnd
<1>6. CASE FactoryRaises
  BY <1>5, <1>6 DEF FactoryRaises, TrialInv, BeforeCleanup, CleanupStatus
<1>7. CASE ProvisionRaises
  <2>1. TypeOK'
    BY <1>3, <1>7 DEF ProvisionRaises, TrialInv, TypeOK, Names, Stages
  <2> QED
    BY <1>3, <1>7, <2>1 DEF ProvisionRaises, TrialInv, BeforeCleanup, AtTheEnd
<1>8. CASE Rollback
  <2>1. results = NoResults /\ raised = "none" /\ cleanups = 0
    BY <1>8 DEF Rollback, TrialInv, BeforeCleanup
  <2>2. CASE cleanup' = "pass" /\ Settle({"provision"}, results)
    BY <1>5, <1>8, <2>1, <2>2 DEF Rollback, CleanupStatus
  <2>3. CASE cleanup' = "error" /\ Settle({"provision", "cleanup_after_provision"}, results)
    BY <1>5, <1>8, <2>1, <2>3 DEF Rollback, CleanupStatus
  <2> QED
    BY <1>8, <2>2, <2>3 DEF Rollback
<1> QED
  BY <1>1, <1>2, <1>6, <1>7, <1>8 DEF Building

(* The statements before the schedule of a perturbed trial, and all of a   *)
(* clean one's before its evaluation.                                      *)
LEMMA ObservingPreserves ==
    ASSUME TrialInv,
           \/ ObserveBaseline \/ ValidateFixture \/ InvokeSubject \/ ObserveFinal
           \/ CompareBaselines
    PROVE  TrialInv'
<1> USE DEF In
<1>1. /\ ScheduleIsInStep /\ step = "body" /\ kind \in {"clean", "perturbed"}
      /\ stage \in Stages
      /\ baseline \in World \cup {None} /\ final \in World \cup {None}
      /\ subjectResult \in Result \cup {None}
  BY DEF TrialInv, TypeOK, LostResultSchedule!TypeOK, ObserveBaseline, ValidateFixture,
         InvokeSubject, ObserveFinal, CompareBaselines
<1>2. schedule = "baseline" /\ stage \notin {"lost_result_schedule", "history_validation"}
  BY <1>1 DEF ScheduleIsInStep, ObserveBaseline, ValidateFixture, InvokeSubject,
              ObserveFinal, CompareBaselines
<1>3. ASSUME UNCHANGED scheduleVars
      PROVE  Sched!ScheduleInv'
  BY <1>1, <1>3
     DEF ScheduleIsInStep, scheduleVars, controlVars, Sched!ScheduleInv, Sched!TypeOK,
         Sched!Attempt, Sched!Statements, Sched!Outcomes
<1>4. CASE ObserveBaseline
  <2>1. Sched!ScheduleInv'
    BY <1>1, <1>2, <1>4, ObservationKeepsSchedule DEF ObserveBaseline, ScheduleIsInStep
  <2>2. ScheduleIsInStep'
    BY <1>1, <1>2, <1>4, <2>1, TrialAssumption
       DEF ObserveBaseline, ScheduleIsInStep, GoTo, fixed, controlVars, EvaluationStage
  <2>3. "fixture_validation" \in Stages
    BY DEF Stages, CleanStages, PerturbedStages, CommonStages
  <2> QED
    BY <1>1, <1>4, <2>2, <2>3, GoToPreserves DEF ObserveBaseline
<1>5. CASE ValidateFixture
  <2> DEFINE next == IF kind = "clean" THEN "subject_invocation" ELSE "baseline_comparison"
  <2>1. GoTo(next) /\ UNCHANGED scheduleVars
    BY <1>5 DEF ValidateFixture
  <2>2. next \in Stages
    BY <1>1 DEF Stages, CleanStages, PerturbedStages, CommonStages
  <2>3. ScheduleIsInStep'
    BY <1>1, <1>2, <1>3, <1>5, <2>1
       DEF ValidateFixture, ScheduleIsInStep, GoTo, fixed, scheduleVars, controlVars,
           EvaluationStage
  <2> QED
    BY <1>1, <2>1, <2>2, <2>3, GoToPreserves
<1>6. CASE InvokeSubject
  <2>1. kind = "clean"
    BY <1>1, <1>6 DEF InvokeSubject, Stages, PerturbedStages, CommonStages
  <2>2. Sched!ScheduleInv'
    BY <1>1, <1>2, <1>6, ObservationKeepsSchedule DEF InvokeSubject, ScheduleIsInStep
  <2>3. ScheduleIsInStep'
    BY <1>1, <1>2, <1>6, <2>1, <2>2
       DEF InvokeSubject, ScheduleIsInStep, GoTo, fixed, controlVars, EvaluationStage
  <2>4. "final_observer" \in Stages
    BY <2>1 DEF Stages, CleanStages
  <2> QED
    BY <1>1, <1>6, <2>3, <2>4, GoToPreserves DEF InvokeSubject
<1>7. CASE ObserveFinal
  <2>1. kind = "clean"
    BY <1>1, <1>7 DEF ObserveFinal, Stages, PerturbedStages, CommonStages
  <2>2. Sched!ScheduleInv'
    BY <1>1, <1>2, <1>7, ObservationKeepsSchedule DEF ObserveFinal, ScheduleIsInStep
  <2>3. ScheduleIsInStep'
    BY <1>1, <1>2, <1>7, <2>1, <2>2
       DEF ObserveFinal, ScheduleIsInStep, GoTo, fixed, controlVars, EvaluationStage
  <2>4. "history_validation" \in Stages
    BY <2>1 DEF Stages, CleanStages, CommonStages
  <2> QED
    BY <1>1, <1>7, <2>3, <2>4, GoToPreserves DEF ObserveFinal
<1>8. CASE CompareBaselines
  <2>1. kind = "perturbed" /\ UNCHANGED scheduleVars
    BY <1>1, <1>8 DEF CompareBaselines, Stages, CleanStages, CommonStages
  <2>2. CASE baseline.state = reference
    <3>1. GoTo("lost_result_schedule")
      BY <1>8, <2>2 DEF CompareBaselines
    <3>2. ScheduleIsInStep'
      BY <1>1, <1>2, <1>3, <1>8, <2>1, <2>2, <3>1
         DEF CompareBaselines, ScheduleIsInStep, GoTo, fixed, scheduleVars, controlVars,
             EvaluationStage
    <3>3. "lost_result_schedule" \in Stages
      BY <2>1 DEF Stages, PerturbedStages
    <3> QED
      BY <1>1, <3>1, <3>2, <3>3, GoToPreserves
  <2>3. CASE baseline.state # reference
    BY <1>1, <1>8, <2>1, <2>3, LeaveBodyPreserves DEF CompareBaselines
  <2> QED
    BY <2>2, <2>3
<1> QED
  BY <1>4, <1>5, <1>6, <1>7, <1>8

LEMMA RunSchedulePreserves ==
    ASSUME TrialInv, RunSchedule
    PROVE  TrialInv'
<1> USE DEF RunSchedule, In, trialVars
<1>1. ScheduleIsInStep /\ step = "body" /\ stage = "lost_result_schedule"
  BY DEF TrialInv
<1>2. kind = "perturbed"
  BY <1>1 DEF TrialInv, TypeOK, Stages, CleanStages, CommonStages
<1>3. Sched!ScheduleInv' /\ baseline' = baseline
  BY <1>1, <1>2, ScheduleStep DEF ScheduleIsInStep
<1>4. ScheduleIsInStep'
  BY <1>1, <1>2, <1>3 DEF ScheduleIsInStep, EvaluationStage
<1>5. TypeOK'
  BY <1>3, ScheduleTyped DEF TrialInv, TypeOK, Names, Stages
<1>6. BeforeCleanup' /\ AtTheEnd'
  BY <1>1 DEF TrialInv, BeforeCleanup, AtTheEnd
<1> QED
  BY <1>4, <1>5, <1>6 DEF TrialInv

LEMMA ScheduleEndPreserves ==
    ASSUME TrialInv, ScheduleReturns \/ ScheduleRaises
    PROVE  TrialInv'
<1> USE DEF In
<1>1. /\ ScheduleIsInStep /\ step = "body" /\ stage = "lost_result_schedule"
      /\ UNCHANGED scheduleVars
  BY DEF TrialInv, ScheduleReturns, ScheduleRaises
<1>2. kind = "perturbed"
  BY <1>1 DEF TrialInv, TypeOK, Stages, CleanStages, CommonStages
<1>3. CASE ScheduleReturns
  <2>1. GoTo("history_validation") /\ schedule = "completed"
    BY <1>3 DEF ScheduleReturns
  <2>2. Sched!ScheduleInv'
    BY <1>1
       DEF ScheduleIsInStep, scheduleVars, controlVars, Sched!ScheduleInv, Sched!TypeOK,
           Sched!Attempt, Sched!Statements, Sched!Outcomes
  <2>3. ScheduleIsInStep'
    BY <1>1, <1>2, <2>1, <2>2
       DEF ScheduleIsInStep, GoTo, fixed, scheduleVars, controlVars, EvaluationStage
  <2>4. "history_validation" \in Stages
    BY <1>2 DEF Stages, PerturbedStages, CommonStages
  <2> QED
    BY <1>1, <2>1, <2>3, <2>4, GoToPreserves
<1>4. CASE ScheduleRaises
  <2>1. CASE schedule = "boundary_not_reached" /\ LeaveBody("boundary")
    BY <1>1, <1>2, <2>1, LeaveBodyPreserves
  <2>2. CASE schedule = "fault_not_propagated" /\ LeaveBody("swallowed")
    BY <1>1, <1>2, <2>2, LeaveBodyPreserves
  <2>3. CASE schedule = "raised" /\ LeaveBody("error")
    BY <1>1, <2>3, LeaveBodyPreserves
  <2>4. CASE schedule = "interrupted" /\ LeaveBody("interrupt")
    BY <1>1, <2>4, LeaveBodyPreserves
  <2> QED
    BY <1>4, <2>1, <2>2, <2>3, <2>4 DEF ScheduleRaises
<1> QED
  BY <1>3, <1>4

(* The histories are compared, and the contracts evaluated.                *)
LEMMA EvaluationPreserves ==
    ASSUME TrialInv, ValidateHistory \/ Evaluate \/ RaiseInBody
    PROVE  TrialInv'
<1> USE DEF In
<1>1. /\ ScheduleIsInStep /\ step = "body" /\ kind \in {"clean", "perturbed"}
      /\ UNCHANGED scheduleVars /\ results = NoResults /\ errors = {} /\ raised = "none"
      /\ stage \in Stages
  BY DEF TrialInv, TypeOK, BeforeCleanup, ValidateHistory, Evaluate, RaiseInBody
<1>2. CASE ValidateHistory
  <2>1. CASE HistoriesAreValid
    <3>1. GoTo(EvaluationStage) /\ stage = "history_validation"
      BY <1>2, <2>1 DEF ValidateHistory, HistoriesAreValid, EvaluationStage
    <3>2. Sched!ScheduleInv'
      BY <1>1
         DEF ScheduleIsInStep, scheduleVars, controlVars, Sched!ScheduleInv, Sched!TypeOK,
             Sched!Attempt, Sched!Statements, Sched!Outcomes
    <3>3. HistoriesAreValid' /\ EvaluationStage' = EvaluationStage
      BY <1>1, <2>1, <3>1
         DEF HistoriesAreValid, HistoryPreserved, Observed, EvaluationStage, GoTo, fixed,
             scheduleVars, controlVars
    <3>4. ScheduleIsInStep'
      BY <1>1, <3>1, <3>2, <3>3
         DEF ScheduleIsInStep, GoTo, fixed, scheduleVars, controlVars, EvaluationStage
    <3>5. EvaluationStage \in Stages
      BY DEF EvaluationStage, Stages, CleanStages, PerturbedStages
    <3> QED
      BY <1>1, <3>1, <3>4, <3>5, GoToPreserves
  <2>2. CASE ~HistoriesAreValid
    BY <1>1, <1>2, <2>2, LeaveBodyPreserves DEF ValidateHistory, HistoriesAreValid
  <2> QED
    BY <2>1, <2>2
<1>3. CASE Evaluate
  <2>1. stage = EvaluationStage
    BY <1>1, <1>3
       DEF Evaluate, EvaluationStage, Stages, CleanStages, PerturbedStages, CommonStages
  <2>2. results' \in Evaluations /\ results' \in [Names -> InvariantResult]
    BY <1>1, <1>3, EvaluationsTyped DEF Evaluate, Evaluations
  <2>3. ScheduleIsInStep' /\ LostResultSchedule!TypeOK'
    BY <1>1, <1>3, ScheduleUntouched, ScheduleTyped DEF Evaluate, ScheduleIsInStep
  <2>4. UNCHANGED <<Names, Stages, EvaluationStage, Evaluations>>
    BY <1>3 DEF Evaluate, fixed, Names, Stages, EvaluationStage, Evaluations
  <2>5. TypeOK'
    BY <1>3, <2>2, <2>3, <2>4 DEF TrialInv, TypeOK, Evaluate, fixed
  <2>6. BodyEvaluated'
    BY <1>3, <2>1, <2>2, <2>4 DEF BodyEvaluated, Evaluate
  <2>7. BeforeCleanup'
    BY <1>1, <1>3, <2>1, <2>6 DEF Evaluate, BeforeCleanup, TrialInv, fixed, EvaluationStage
  <2> QED
    BY <1>3, <2>3, <2>5, <2>7 DEF TrialInv, AtTheEnd, Evaluate
<1>4. CASE RaiseInBody
  BY <1>1, <1>4, LeaveBodyPreserves DEF RaiseInBody
<1> QED
  BY <1>2, <1>3, <1>4

(* The end of a trial whose world was entered.                             *)
LEMMA EndPreserves ==
    ASSUME TrialInv, step = "exit", step' = "done",
           UNCHANGED <<fixed, stage, raised, scheduleVars>>,
           cleanups' = 1, cleanup' \in {"pass", "error"},
           results' \in [Names -> InvariantResult],
           errors' \subseteq Stages \cup {"cleanup", "fault_propagation", "evaluator"},
           EndsEvaluated' \/ EndsInvalid' \/ EndsUnreached' \/ EndsSwallowed'
    PROVE  TrialInv'
<1>1. ScheduleIsInStep' /\ LostResultSchedule!TypeOK'
  BY ScheduleUntouched, ScheduleTyped DEF TrialInv, ScheduleIsInStep
<1>2. UNCHANGED <<Names, Stages>>
  BY DEF fixed, Names, Stages
<1>3. TypeOK'
  BY <1>1, <1>2 DEF TrialInv, TypeOK, Ended, fixed, CleanupStatus
<1>4. BeforeCleanup'
  BY DEF TrialInv, BeforeCleanup, fixed, scheduleVars, controlVars
<1> QED
  BY <1>1, <1>3, <1>4 DEF TrialInv, AtTheEnd

LEMMA ExitPreserves ==
    ASSUME TrialInv, Exit
    PROVE  TrialInv'
<1>1. /\ step = "exit" /\ cleanups' = 1 /\ stage \in Stages
      /\ UNCHANGED <<fixed, stage, raised, scheduleVars>>
      /\ stage \notin {"world_factory", "provision"}
      /\ raised # "none" => errors = {} /\ results = NoResults
      /\ kind \in {"clean", "perturbed"}
      /\ raised \in {"none", "error", "boundary", "swallowed", "interrupt"}
  BY DEF TrialInv, TypeOK, BeforeCleanup, Exit, CleanupSucceeds, CleanupFails
<1>2. UNCHANGED <<Names, Stages, EvaluationStage, Evaluations>>
  BY <1>1 DEF fixed, Names, Stages, EvaluationStage, Evaluations
<1>3. ASSUME NEW v \in InvariantVerdict, NEW e \in Explanation
      PROVE  UniformResults(Names, v, e) \in [Names -> InvariantResult]
  BY <1>3, UniformTyped
<1>4. ASSUME NEW E \in SUBSET (Stages \cup {"cleanup"}), E # {}, Settle(E, NoResults),
             raised # "none", raised # "boundary" \/ cleanup' = "error",
             stage \in E, cleanup' = "error" => "cleanup" \in E,
             cleanup' \in {"pass", "error"}, step' = "done"
      PROVE  TrialInv'
  <2>1. errors' = E /\ results' = UniformResults(Names, "ERROR", "trial_invalid")
    BY <1>4, SettleFills
  <2>2. EndsInvalid'
    BY <1>1, <1>2, <1>4, <2>1 DEF EndsInvalid
  <2>3. results' \in [Names -> InvariantResult]
    BY <1>3, <2>1 DEF InvariantVerdict, Explanation
  <2> QED
    BY <1>1, <1>4, <2>1, <2>2, <2>3, EndPreserves
<1>5. ASSUME raised = "none", cleanup' \in {"pass", "error"}, step' = "done",
             Settle(errors \cup (IF cleanup' = "error" THEN {"cleanup"} ELSE {}), results)
      PROVE  TrialInv'
  <2>1. /\ BodyEvaluated
        /\ errors = IF Malfunctioned(results) = {} THEN {} ELSE {"evaluator"}
    BY <1>1, <1>5 DEF TrialInv, BeforeCleanup
  <2>2. results \in [Names -> InvariantResult]
    BY <1>1, <2>1, EvaluationsTyped DEF BodyEvaluated
  <2>3. /\ errors' = errors \cup (IF cleanup' = "error" THEN {"cleanup"} ELSE {})
        /\ results' = results
    BY <1>5, <2>2, SettleKeeps
  <2>4. BodyEvaluated'
    BY <1>1, <1>2, <2>1, <2>3 DEF BodyEvaluated
  <2>5. EndsEvaluated'
    BY <1>1, <1>5, <2>1, <2>3, <2>4 DEF EndsEvaluated
  <2>6. errors' \subseteq {"evaluator", "cleanup"}
    BY <2>1, <2>3
  <2> QED
    BY <1>1, <1>5, <2>2, <2>3, <2>5, <2>6, EndPreserves
<1>6. CASE CleanupFails
  <2>1. /\ cleanup' = "error" /\ step' = "done"
        /\ Settle(errors \cup {"cleanup"} \cup (IF raised = "none" THEN {} ELSE {stage}),
                  results)
    BY <1>6 DEF CleanupFails
  <2>2. CASE raised = "none"
    <3>1. errors \cup {"cleanup"} \cup (IF raised = "none" THEN {} ELSE {stage})
            = errors \cup (IF cleanup' = "error" THEN {"cleanup"} ELSE {})
      BY <2>1, <2>2
    <3> QED
      BY <1>5, <2>1, <2>2, <3>1
  <2>3. CASE raised # "none"
    <3>1. errors \cup {"cleanup"} \cup (IF raised = "none" THEN {} ELSE {stage})
            = {"cleanup", stage} /\ results = NoResults
      BY <1>1, <2>3
    <3> QED
      BY <1>1, <1>4, <2>1, <2>3, <3>1
  <2> QED
    BY <2>2, <2>3
<1>7. CASE CleanupSucceeds
  <2>1. cleanup' = "pass" /\ step' = IF raised = "interrupt" THEN "interrupted" ELSE "done"
    BY <1>7 DEF CleanupSucceeds
  <2>2. CASE raised = "none"
    <3>1. Settle(errors, results)
      BY <1>7, <2>2 DEF CleanupSucceeds
    <3>2. errors = errors \cup (IF cleanup' = "error" THEN {"cleanup"} ELSE {})
      BY <2>1
    <3> QED
      BY <1>5, <2>1, <2>2, <3>1, <3>2
  <2>3. CASE raised = "error"
    <3>1. Settle({stage}, NoResults)
      BY <1>1, <1>7, <2>3 DEF CleanupSucceeds
    <3> QED
      BY <1>1, <1>4, <2>1, <2>3, <3>1
  <2>4. CASE raised = "boundary"
    <3> DEFINE R == UniformResults(Names, "INCONCLUSIVE", "boundary_not_reached")
    <3>1. R \in [Names -> InvariantResult]
      BY <1>3 DEF InvariantVerdict, Explanation
    <3>2. Settle({}, R)
      BY <1>1, <1>7, <2>4 DEF CleanupSucceeds
    <3>3. errors' = {} /\ results' = R
      BY <3>1, <3>2, SettleKeeps
    <3>4. EndsUnreached'
      BY <1>1, <1>2, <2>1, <2>4, <3>3 DEF EndsUnreached
    <3> QED
      BY <1>1, <2>1, <2>4, <3>1, <3>3, <3>4, EndPreserves
  <2>5. CASE raised = "swallowed"
    <3> DEFINE R == UniformResults(Names, "ERROR", "fault_caught")
    <3>1. R \in [Names -> InvariantResult]
      BY <1>3 DEF InvariantVerdict, Explanation
    <3>2. Settle({"fault_propagation"}, R)
      BY <1>1, <1>7, <2>5 DEF CleanupSucceeds
    <3>3. errors' = {"fault_propagation"} /\ results' = R
      BY <3>1, <3>2, SettleKeeps
    <3>4. EndsSwallowed'
      BY <1>1, <1>2, <2>1, <2>5, <3>3 DEF EndsSwallowed
    <3> QED
      BY <1>1, <2>1, <2>5, <3>1, <3>3, <3>4, EndPreserves
  <2>6. CASE raised = "interrupt"
    <3>1. UNCHANGED <<errors, results>> /\ step' = "interrupted"
      BY <1>7, <2>1, <2>6 DEF CleanupSucceeds
    <3>2. ScheduleIsInStep' /\ LostResultSchedule!TypeOK'
      BY <1>1, ScheduleUntouched, ScheduleTyped DEF TrialInv, ScheduleIsInStep
    <3>3. TypeOK'
      BY <1>1, <1>2, <2>1, <3>1, <3>2
         DEF TrialInv, TypeOK, Ended, fixed, CleanupStatus
    <3> QED
      BY <1>1, <2>6, <3>1, <3>2, <3>3 DEF TrialInv, BeforeCleanup, AtTheEnd
  <2> QED
    BY <1>1, <2>2, <2>3, <2>4, <2>5, <2>6
<1> QED
  BY <1>6, <1>7 DEF Exit

LEMMA InterruptPreserves ==
    ASSUME TrialInv, InterruptBody \/ InterruptCleanup
    PROVE  TrialInv'
<1>1. ASSUME step' \in {"interrupted", "abandoned"}, step \in {"body", "rollback", "exit"},
             UNCHANGED <<fixed, stage, raised, results, errors, cleanup, scheduleVars>>,
             cleanups' \in {0, 1},
             step' = "interrupted" /\ stage \notin {"world_factory", "provision"}
                 => cleanups' = 1
      PROVE  TrialInv'
  <2>1. ScheduleIsInStep' /\ LostResultSchedule!TypeOK'
    BY <1>1, ScheduleUntouched, ScheduleTyped DEF TrialInv, ScheduleIsInStep
  <2>2. UNCHANGED <<Names, Stages>>
    BY <1>1 DEF fixed, Names, Stages
  <2>3. TypeOK'
    BY <1>1, <2>1, <2>2 DEF TrialInv, TypeOK, Ended, fixed
  <2> QED
    BY <1>1, <2>1, <2>3
       DEF TrialInv, BeforeCleanup, AtTheEnd, fixed, scheduleVars, controlVars
<1>2. CASE InterruptBody
  <2>1. CASE stage \in {"world_factory", "provision"}
    BY <1>1, <1>2, <2>1 DEF InterruptBody, TrialInv, TypeOK
  <2>2. CASE stage \notin {"world_factory", "provision"}
    BY <1>2, <2>2, LeaveBodyPreserves DEF InterruptBody
  <2> QED
    BY <2>1, <2>2
<1>3. CASE InterruptCleanup
  <2>1. cleanups = 0
    BY <1>3 DEF InterruptCleanup, TrialInv, BeforeCleanup
  <2> QED
    BY <1>1, <1>3, <2>1 DEF InterruptCleanup
<1> QED
  BY <1>2, <1>3

LEMMA TrialInvNext == TrialInv /\ [Next]_vars => TrialInv'
<1> SUFFICES ASSUME TrialInv, [Next]_vars
             PROVE  TrialInv'
  OBVIOUS
<1>1. CASE Next
  BY <1>1, BuildingPreserves, ObservingPreserves, RunSchedulePreserves,
     ScheduleEndPreserves, EvaluationPreserves, ExitPreserves, InterruptPreserves
     DEF Next, Body
<1>2. CASE UNCHANGED vars
  <2>1. ScheduleIsInStep' /\ LostResultSchedule!TypeOK'
    BY <1>2, ScheduleUntouched, ScheduleTyped DEF TrialInv, ScheduleIsInStep, vars,
       trialVars, fixed
  <2>2. TypeOK'
    BY <1>2, <2>1 DEF TrialInv, TypeOK, vars, trialVars, Names, Stages
  <2>3. BeforeCleanup'
    BY <1>2 DEF TrialInv, BeforeCleanup, vars, trialVars, scheduleVars, controlVars,
                BodyEvaluated, EvaluationStage, Evaluations
  <2>4. AtTheEnd'
    BY <1>2 DEF TrialInv, AtTheEnd, EndsEvaluated, EndsInvalid, EndsUnreached,
                EndsSwallowed, vars, trialVars, BodyEvaluated, EvaluationStage,
                Evaluations, Names
  <2> QED
    BY <2>1, <2>2, <2>3, <2>4 DEF TrialInv
<1> QED
  BY <1>1, <1>2

LEMMA TrialInvariant == Spec => []TrialInv
BY TrialInvInit, TrialInvNext, PTL DEF Spec

-----------------------------------------------------------------------------
(* The variables of a trial, and of its schedule, keep their types.        *)
THEOREM TypeCorrect == Spec => []TypeOK
<1>1. TrialInv => TypeOK
  BY DEF TrialInv
<1> QED
  BY <1>1, TrialInvariant, PTL

(* A world whose body was entered is cleaned up exactly once, however the  *)
(* trial ends, unless an interrupt meets the cleanup itself:               *)
(* WorldSession.__exit__, and the rollback in __enter__.                   *)
THEOREM WorldIsCleanedUpOnce == Spec => []CleanedUpOnce
<1>1. TrialInv => CleanedUpOnce
  BY DEF TrialInv, TypeOK, AtTheEnd, EndsEvaluated, EndsInvalid, EndsUnreached,
         EndsSwallowed, BodyEvaluated, EvaluationStage, CleanedUpOnce
<1> QED
  BY <1>1, TrialInvariant, PTL

(* No failure hides another: the except clauses around the with statement  *)
(* record the exception that left the body and the cleanup's own failure.  *)
THEOREM NothingMasked == Spec => []NothingIsMasked
<1>1. TrialInv => NothingIsMasked
  BY DEF TrialInv, TypeOK, AtTheEnd, EndsEvaluated, EndsInvalid, EndsUnreached,
         EndsSwallowed, NothingIsMasked, CleanupStatus
<1> QED
  BY <1>1, TrialInvariant, PTL

(* A contract is decided only by a trial whose evidence supports it: the   *)
(* surfaces it requires, histories that only grew, and, in a perturbed     *)
(* trial, the clean one's baseline and a schedule that lost one result and *)
(* returned another.                                                       *)
THEOREM DecisionsHaveEvidence == Spec => []DecisionsRestOnEvidence
<1>1. ASSUME TrialInv, step = "done", NEW n \in DOMAIN results, Decided(n)
      PROVE  EndsEvaluated
  BY <1>1
     DEF TrialInv, AtTheEnd, EndsInvalid, EndsUnreached, EndsSwallowed, Decided,
         UniformResults, Concludes
<1>2. ASSUME TrialInv, step = "done", NEW n \in DOMAIN results, Decided(n)
      PROVE  /\ HasEvidence
             /\ Missing(n, coverage) = {}
             /\ raised = "none"
             /\ HistoriesAreValid
             /\ kind = "perturbed" => /\ baseline.state = reference
                                      /\ injected = 1 /\ reached[1] = 1
                                      /\ subjectResult \in Result
  <2>1. /\ stage = EvaluationStage /\ results \in Evaluations /\ raised = "none"
        /\ ScheduleIsInStep /\ kind \in {"clean", "perturbed"}
    BY <1>1, <1>2 DEF EndsEvaluated, BodyEvaluated, TrialInv, TypeOK
  <2>2. Missing(n, coverage) = {}
    BY <1>2, <2>1, DecisionNeedsEvidence DEF Decided
  <2>3. kind = "perturbed" => schedule = "completed" /\ baseline.state = reference
    BY <2>1 DEF ScheduleIsInStep, EvaluationStage
  <2>4. schedule = "completed" => /\ injected = 1 /\ reached[1] = 1
                                  /\ subjectResult \in Result
    BY <2>1 DEF ScheduleIsInStep, Sched!ScheduleInv
  <2> QED
    BY <2>1, <2>2, <2>3, <2>4 DEF ScheduleIsInStep, EvaluationStage, HasEvidence
<1>3. TrialInv => DecisionsRestOnEvidence
  BY <1>2 DEF DecisionsRestOnEvidence, HistoriesAreValid
<1> QED
  BY <1>3, TrialInvariant, PTL

-----------------------------------------------------------------------------
(* The trial implements TrialContract.                                     *)

(* What a pair sees of a trial, as KeepsTrialContract has it.              *)
Outcome == [evidence |-> HasEvidence, results |-> results,
            failed |-> errors # {}, cleanup |-> cleanup]

Outcomes == IF kind = "clean" THEN CleanOutcomes(coverage)
                              ELSE PerturbedOutcomes(coverage)

LEMMA OutcomesAgree == Contract!Outcomes = Outcomes
BY DEF Contract!Outcomes, Outcomes, Contract!CleanOutcomes, CleanOutcomes,
       Contract!PerturbedOutcomes, PerturbedOutcomes,
       Contract!CleanEvaluations, CleanEvaluations,
       Contract!RetryEvaluations, RetryEvaluations,
       Contract!Evaluated, Evaluated, Contract!Invalid, Invalid,
       Contract!Unreached, Unreached, Contract!Swallowed, Swallowed,
       Contract!UniformResults, UniformResults, Contract!Concludes, Concludes,
       Contract!Malfunctioned, Malfunctioned,
       Contract!EvaluateClean, EvaluateClean, Contract!EvaluateRetry, EvaluateRetry,
       Contract!CleanResult, CleanResult, Contract!RetryResult, RetryResult,
       Contract!WithoutEvidence, WithoutEvidence, Contract!Missing, Missing,
       Contract!MissingRequirements, MissingRequirements,
       Contract!Decision, Decision, Contract!CleanupStatus, CleanupStatus

(* A trial that ends does so with an outcome its pair knows.               *)
OutcomeIsKnown == step = "done" => Outcome \in Outcomes

LEMMA OutcomesAreKnown == TrialInv => OutcomeIsKnown
<1> SUFFICES ASSUME TrialInv, step = "done"
             PROVE  Outcome \in Outcomes
  BY DEF OutcomeIsKnown
<1>1. /\ kind \in {"clean", "perturbed"} /\ cleanup \in CleanupStatus
      /\ ScheduleIsInStep /\ HasEvidence \in BOOLEAN
  BY DEF TrialInv, TypeOK, HasEvidence
<1>2. CASE EndsEvaluated
  <2>1. HasEvidence /\ results \in Evaluations /\ cleanup \in {"pass", "error"}
    BY <1>1, <1>2
       DEF EndsEvaluated, BodyEvaluated, HasEvidence, EvaluationStage, ScheduleIsInStep
  <2>2. (errors # {}) <=> (cleanup = "error" \/ Malfunctioned(results) # {})
    BY <1>2 DEF EndsEvaluated
  <2>3. Outcome = [evidence |-> TRUE, results |-> results,
                   failed |-> cleanup = "error" \/ Malfunctioned(results) # {},
                   cleanup |-> cleanup]
    BY <1>1, <2>1, <2>2 DEF Outcome
  <2>4. Outcome \in Evaluated(Evaluations)
    BY <2>1, <2>3 DEF Evaluated
  <2> QED
    BY <2>4 DEF Outcomes, Evaluations, CleanOutcomes, PerturbedOutcomes
<1>3. CASE EndsInvalid
  <2>1. cleanup = "not_attempted" => ~HasEvidence
    BY <1>1, <1>3 DEF EndsInvalid, HasEvidence, ScheduleIsInStep
  <2>2. Outcome \in Invalid(Names)
    BY <1>1, <1>3, <2>1 DEF Outcome, EndsInvalid, Invalid
  <2> QED
    BY <2>2 DEF Outcomes, Names, CleanOutcomes, PerturbedOutcomes
<1>4. ASSUME raised \in {"boundary", "swallowed"}
      PROVE  kind = "perturbed" /\ ~HasEvidence
  BY <1>4 DEF TrialInv, BeforeCleanup, HasEvidence
<1>5. CASE EndsUnreached
  <2>1. Outcome = Unreached
    BY <1>1, <1>4, <1>5 DEF EndsUnreached, Outcome, Unreached, Names
  <2> QED
    BY <1>4, <1>5, <2>1 DEF EndsUnreached, Outcomes, PerturbedOutcomes
<1>6. CASE EndsSwallowed
  <2>1. Outcome = Swallowed
    BY <1>1, <1>4, <1>6 DEF EndsSwallowed, Outcome, Swallowed, Names
  <2> QED
    BY <1>4, <1>6, <2>1 DEF EndsSwallowed, Outcomes, PerturbedOutcomes
<1> QED
  BY <1>2, <1>3, <1>5, <1>6 DEF TrialInv, AtTheEnd

(* A trial that ended takes no further step, and none changes its case.    *)
LEMMA EndedTrialStays ==
    ASSUME [Next]_vars
    PROVE  /\ kind' = kind /\ coverage' = coverage
           /\ step \in Ended => UNCHANGED vars
BY DEF Ended, Next, Building, Body, Exit, CreateSession, FactoryRaises, Provision,
       ProvisionRaises, Rollback, ObserveBaseline, ValidateFixture, InvokeSubject,
       ObserveFinal, CompareBaselines, RunSchedule, ScheduleReturns, ScheduleRaises,
       ValidateHistory, Evaluate, RaiseInBody, CleanupSucceeds, CleanupFails,
       InterruptBody, InterruptCleanup, In, GoTo, LeaveBody, fixed, trialVars, vars

(* A trial ends at most once, and with one of the outcomes that Evaluation *)
(* assumes of its trials.                                                  *)
THEOREM ImplementsTrialContract == Spec => KeepsTrialContract
<1>1. Init => Contract!Init
  BY DEF Init, Ended, Contract!Init, Contract!SurfaceCoverage, SurfaceCoverage
<1>2. ASSUME OutcomeIsKnown', [Next]_vars
      PROVE  [Contract!Next]_(Contract!vars)
  <2>1. kind' = kind /\ coverage' = coverage
    BY <1>2, EndedTrialStays
  <2>2. CASE step \in Ended
    BY <1>2, <2>2, EndedTrialStays
       DEF vars, trialVars, scheduleVars, controlVars, Contract!vars, HasEvidence
  <2>3. CASE step \notin Ended /\ step' = "done"
    <3>1. Outcome' \in Outcomes
      BY <1>2, <2>1, <2>3 DEF OutcomeIsKnown, Outcomes
    <3>2. Contract!Finish
      BY <2>1, <2>3, <3>1, OutcomesAgree DEF Contract!Finish, Outcome, Ended
    <3> QED
      BY <3>2 DEF Contract!Next
  <2>4. CASE step \notin Ended /\ step' \in Ended \ {"done"}
    BY <2>1, <2>4 DEF Contract!Interrupt, Contract!Next, Ended
  <2>5. CASE step \notin Ended /\ step' \notin Ended
    BY <2>1, <2>5 DEF Contract!vars, Ended
  <2> QED
    BY <2>2, <2>3, <2>4, <2>5
<1> QED
  BY <1>1, <1>2, TrialInvariant, OutcomesAreKnown, PTL
     DEF Spec, KeepsTrialContract, Contract!Spec
=============================================================================
