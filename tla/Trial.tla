------------------------------- MODULE Trial -------------------------------
(***************************************************************************)
(* One trial of a case in a world of its own: _run_clean, _run_perturbed   *)
(* and the WorldSession that provisions and cleans up that world           *)
(* (_semantic_kernel.py).  Everything the case supplies (world factory,    *)
(* provisioning, observer, fixture check, subject, canonicalisation,       *)
(* evaluators, cleanup) may raise, and KeyboardInterrupt, which is no      *)
(* Exception, may arrive in any of them.  The perturbed trial runs the     *)
(* schedule of LostResult, statement by statement.                         *)
(***************************************************************************)
EXTENDS TrialOutcomes, SequencesExt

CONSTANTS State, Event,    \* what an observation is made of
          World,           \* the observations a trial may make
          Result,          \* the values the subject delivers and returns
          None,
          CrossingBound    \* bound on the calls of the delivery callbacks

(* The second and third are those of LostResult.                           *)
ASSUME TrialAssumption ==
    /\ World \subseteq [state: State, history: Seq(Event)]
    /\ None \notin World /\ None \notin Result \cup {1, 2}
    /\ CrossingBound \in Nat

VARIABLES
    kind,        \* "clean" or "perturbed"
    coverage,    \* case.coverage
    reference,   \* the canonical state of the clean trial's baseline
    stage,       \* the local "stage", which names the phase of an error
    step,        \* where control is: in the body, in a cleanup, or ended
    raised,      \* the exception that left the body, None if none did
    results,     \* the results, one for each contract once it has them
    errors,      \* the phases that errors were recorded for
    cleanup,     \* session.cleanup_status
    cleanups,    \* calls of the world's cleanup
    schedule, signal, held, reached, injected, undelivered,  \* of LostResult
    baseline, afterLost, final, subjectResult

trialVars == <<kind, coverage, reference, stage, step, raised,
               results, errors, cleanup, cleanups>>
fixed == <<kind, coverage, reference>>
controlVars == <<schedule, signal, held, reached, injected, undelivered>>
scheduleVars == <<controlVars, baseline, afterLost, final, subjectResult>>
vars == <<trialVars, scheduleVars>>

LostResultSchedule == INSTANCE LostResult

Names == IF kind = "clean" THEN CleanAssertions ELSE RetryInvariants

CommonStages == {"world_factory", "provision", "baseline_observer",
                 "fixture_validation", "history_validation"}
CleanStages == CommonStages \cup {"subject_invocation", "final_observer",
                                  "clean_evaluation"}
PerturbedStages == CommonStages \cup {"baseline_comparison", "lost_result_schedule",
                                      "retry_evaluation"}
Stages == IF kind = "clean" THEN CleanStages ELSE PerturbedStages

(* An interrupt of the trial may leave its world abandoned.                *)
Ended == {"done", "interrupted", "abandoned"}

TypeOK ==
    /\ kind \in {"clean", "perturbed"}
    /\ coverage \in SurfaceCoverage
    /\ reference \in State
    /\ stage \in Stages
    /\ step \in {"body", "rollback", "exit"} \cup Ended
    /\ raised \in {"none", "error", "boundary", "swallowed", "interrupt"}
    /\ results = NoResults \/ results \in [Names -> InvariantResult]
    /\ errors \subseteq Stages \cup {"cleanup", "cleanup_after_provision",
                                     "fault_propagation", "evaluator"}
    /\ cleanup \in CleanupStatus
    /\ cleanups \in {0, 1}
    /\ LostResultSchedule!TypeOK

Init ==
    /\ kind \in {"clean", "perturbed"}
    /\ coverage \in SurfaceCoverage
    /\ reference \in {w.state : w \in World}
    /\ stage = "world_factory"
    /\ step = "body"
    /\ raised = "none"
    /\ results = NoResults
    /\ errors = {}
    /\ cleanup = "not_attempted"
    /\ cleanups = 0
    /\ baseline = None
    /\ LostResultSchedule!InitController

-----------------------------------------------------------------------------
(* Slip: the results of an invalid trial are not filled in.                *)
SettleAsIs(newErrors, newResults) == errors' = newErrors /\ results' = newResults

(* The trial ends: an error without results makes every result an ERROR.   *)
Settle(newErrors, newResults) ==
    /\ errors' = newErrors
    /\ results' = IF newErrors # {} /\ newResults = NoResults
                  THEN UniformResults(Names, "ERROR", "trial_invalid")
                  ELSE newResults

In(s) == step = "body" /\ stage = s

GoTo(s) == stage' = s /\ UNCHANGED <<fixed, step, raised, results, errors,
                                     cleanup, cleanups>>

(* Slip: the cleanup runs for an Exception only.                           *)
LeaveBodyUnlessInterrupted(exception) ==
    /\ step' = IF exception = "interrupt" THEN "interrupted" ELSE "exit"
    /\ raised' = exception
    /\ UNCHANGED <<fixed, stage, results, errors, cleanup, cleanups>>

(* An exception leaves the body of the with statement.                     *)
LeaveBody(exception) ==
    /\ step' = "exit"
    /\ raised' = exception
    /\ UNCHANGED <<fixed, stage, results, errors, cleanup, cleanups>>

-----------------------------------------------------------------------------
(* Building the world: world_factory() and WorldSession.__enter__.         *)

CreateSession ==
    /\ In("world_factory")
    /\ stage' = "provision"
    /\ UNCHANGED <<fixed, step, raised, results, errors, cleanup, cleanups,
                   scheduleVars>>

FactoryRaises ==
    /\ In("world_factory")
    /\ step' = "done"
    /\ Settle({"world_factory"}, results)
    /\ UNCHANGED <<fixed, stage, raised, cleanup, cleanups, scheduleVars>>

Provision == In("provision") /\ GoTo("baseline_observer") /\ UNCHANGED scheduleVars

ProvisionRaises ==
    /\ In("provision")
    /\ step' = "rollback"
    /\ UNCHANGED <<fixed, stage, raised, results, errors, cleanup, cleanups,
                   scheduleVars>>

(* cleanup(None) in __enter__, and the handler of WorldProvisionError.     *)
Rollback ==
    /\ step = "rollback"
    /\ step' = "done"
    /\ cleanups' = cleanups + 1
    /\ \/ cleanup' = "pass" /\ Settle({"provision"}, results)
       \/ cleanup' = "error" /\ Settle({"provision", "cleanup_after_provision"}, results)
    /\ UNCHANGED <<fixed, stage, raised, scheduleVars>>

-----------------------------------------------------------------------------
(* The body of the with statement.                                         *)

ObserveBaseline ==
    /\ In("baseline_observer")
    /\ baseline' \in World
    /\ GoTo("fixture_validation")
    /\ UNCHANGED <<controlVars, afterLost, final, subjectResult>>

ValidateFixture ==
    /\ In("fixture_validation")
    /\ GoTo(IF kind = "clean" THEN "subject_invocation" ELSE "baseline_comparison")
    /\ UNCHANGED scheduleVars

(* The clean delivery callback is the identity: no fault, no controller.   *)
InvokeSubject ==
    /\ In("subject_invocation")
    /\ subjectResult' \in Result
    /\ GoTo("final_observer")
    /\ UNCHANGED <<controlVars, baseline, afterLost, final>>

ObserveFinal ==
    /\ In("final_observer")
    /\ final' \in World
    /\ GoTo("history_validation")
    /\ UNCHANGED <<controlVars, baseline, afterLost, subjectResult>>

(* Slip: a baseline that differs is observed again, for ever.              *)
CompareBaselinesRetries ==
    /\ In("baseline_comparison")
    /\ GoTo(IF baseline.state = reference THEN "lost_result_schedule"
                                          ELSE "baseline_observer")
    /\ UNCHANGED scheduleVars

CompareBaselines ==
    /\ In("baseline_comparison")
    /\ IF baseline.state = reference
       THEN GoTo("lost_result_schedule")
       ELSE LeaveBody("error")
    /\ UNCHANGED scheduleVars

RunSchedule ==
    /\ In("lost_result_schedule")
    /\ LostResultSchedule!Next
    /\ UNCHANGED trialVars

ScheduleReturns ==
    /\ In("lost_result_schedule")
    /\ schedule = "completed"
    /\ GoTo("history_validation")
    /\ UNCHANGED scheduleVars

ScheduleRaises ==
    /\ In("lost_result_schedule")
    /\ \/ schedule = "boundary_not_reached" /\ LeaveBody("boundary")
       \/ schedule = "fault_not_propagated" /\ LeaveBody("swallowed")
       \/ schedule = "raised" /\ LeaveBody("error")
       \/ schedule = "interrupted" /\ LeaveBody("interrupt")
    /\ UNCHANGED scheduleVars

(* A declared complete history must be extended by every observation: the  *)
(* final one in a clean trial, each attempt's in turn in a perturbed one.  *)
Observed == IF kind = "clean" THEN <<baseline, final>>
                              ELSE <<baseline, afterLost, final>>

HistoryPreserved ==
    \A k \in 1 .. Len(Observed) - 1 :
        IsPrefix(Observed[k].history, Observed[k + 1].history)

(* Slip: only the first and the last history are compared.                 *)
ValidateHistoryEnds ==
    /\ In("history_validation")
    /\ IF coverage.history /\ coverage.complete_history
             => IsPrefix(baseline.history, final.history)
       THEN GoTo(IF kind = "clean" THEN "clean_evaluation" ELSE "retry_evaluation")
       ELSE LeaveBody("error")
    /\ UNCHANGED scheduleVars

ValidateHistory ==
    /\ In("history_validation")
    /\ IF coverage.history /\ coverage.complete_history => HistoryPreserved
       THEN GoTo(IF kind = "clean" THEN "clean_evaluation" ELSE "retry_evaluation")
       ELSE LeaveBody("error")
    /\ UNCHANGED scheduleVars

Evaluate ==
    /\ stage \in {"clean_evaluation", "retry_evaluation"} /\ step = "body"
    /\ step' = "exit"
    /\ results' \in IF kind = "clean" THEN CleanEvaluations(coverage)
                                       ELSE RetryEvaluations(coverage)
    /\ errors' = IF Malfunctioned(results') = {} THEN {} ELSE {"evaluator"}
    /\ UNCHANGED <<fixed, stage, raised, cleanup, cleanups, scheduleVars>>

(* Code of the case raises: an observer, a fixture check, the subject of a *)
(* clean trial, a canonicalisation (two of them at history_validation), or *)
(* an evaluator that returns something other than a decision.              *)
RaiseInBody ==
    /\ step = "body"
    /\ stage \notin {"world_factory", "provision", "lost_result_schedule"}
    /\ LeaveBody("error")
    /\ UNCHANGED scheduleVars

-----------------------------------------------------------------------------
(* WorldSession.__exit__ and the except clauses around the with statement. *)

CleanupSucceeds ==
    /\ step = "exit"
    /\ cleanup' = "pass"
    /\ cleanups' = cleanups + 1
    /\ step' = IF raised = "interrupt" THEN "interrupted" ELSE "done"
    /\ \/ raised = "none" /\ Settle(errors, results)
       \/ raised = "error" /\ Settle(errors \cup {stage}, results)
       \/ /\ raised = "boundary"
          /\ Settle(errors, UniformResults(Names, "INCONCLUSIVE", "boundary_not_reached"))
       \/ /\ raised = "swallowed"
          /\ Settle(errors \cup {"fault_propagation"},
                    UniformResults(Names, "ERROR", "fault_caught"))
       \/ raised = "interrupt" /\ UNCHANGED <<errors, results>>
    /\ UNCHANGED <<fixed, stage, raised, scheduleVars>>

(* Slip: the cleanup's error replaces the one that left the body.          *)
CleanupFailsMasksBody ==
    /\ step = "exit" /\ step' = "done"
    /\ cleanup' = "error" /\ cleanups' = cleanups + 1
    /\ Settle(errors \cup {"cleanup"}, results)
    /\ UNCHANGED <<fixed, stage, raised, scheduleVars>>

(* WorldCleanupError carries the body's exception, whatever its class.     *)
CleanupFails ==
    /\ step = "exit"
    /\ cleanup' = "error"
    /\ cleanups' = cleanups + 1
    /\ step' = "done"
    /\ Settle(errors \cup {"cleanup"} \cup (IF raised = "none" THEN {} ELSE {stage}),
              results)
    /\ UNCHANGED <<fixed, stage, raised, scheduleVars>>

(* KeyboardInterrupt outside the schedule, which has its own.  In          *)
(* __enter__ it passes "except Exception", so nothing is rolled back.      *)
InterruptBody ==
    /\ step = "body"
    /\ stage # "lost_result_schedule"
    /\ IF stage \in {"world_factory", "provision"}
       THEN /\ step' = "interrupted"
            /\ UNCHANGED <<fixed, stage, raised, results, errors, cleanup,
                           cleanups>>
       ELSE LeaveBody("interrupt")
    /\ UNCHANGED scheduleVars

(* KeyboardInterrupt in the world's cleanup, or after the body and before  *)
(* the cleanup is called: the world stays as it is.                        *)
InterruptCleanup ==
    /\ step \in {"rollback", "exit"}
    /\ step' = "abandoned"
    /\ cleanups' \in {cleanups, cleanups + 1}
    /\ UNCHANGED <<fixed, stage, raised, results, errors, cleanup,
                   scheduleVars>>

Building == CreateSession \/ FactoryRaises \/ Provision \/ ProvisionRaises \/ Rollback

Body == \/ ObserveBaseline \/ ValidateFixture \/ InvokeSubject \/ ObserveFinal
        \/ CompareBaselines \/ ScheduleReturns \/ ScheduleRaises
        \/ ValidateHistory \/ Evaluate \/ RaiseInBody

Exit == CleanupSucceeds \/ CleanupFails

Next == Building \/ Body \/ RunSchedule \/ Exit \/ InterruptBody \/ InterruptCleanup

Spec == Init /\ [][Next]_vars

(* The trial is sequential Python and takes its next statement; inside the *)
(* schedule the subject's invocations are assumed to end.                  *)
Ending == Building \/ Body \/ Exit

Fairness == /\ WF_vars(Ending)
            /\ WF_vars(RunSchedule /\ LostResultSchedule!Observing)
            /\ WF_vars(RunSchedule /\ LostResultSchedule!InvocationEnds)

FairSpec == Spec /\ Fairness

-----------------------------------------------------------------------------
(* CleanTrialEvidence is built just before the evaluation of a clean       *)
(* trial, RunEvidence when the schedule returns.                           *)
HasEvidence == IF kind = "clean" THEN stage = "clean_evaluation"
                                 ELSE schedule = "completed"

(* A world whose body was entered is cleaned up exactly once, however the  *)
(* trial ends, unless an interrupt meets the cleanup itself; and the       *)
(* recorded status is that one attempt's.                                  *)
CleanedUpOnce ==
    /\ step \in {"done", "interrupted"} /\ stage \notin {"world_factory", "provision"}
           => cleanups = 1
    /\ step = "done" => (cleanup = "not_attempted" <=> cleanups = 0)
    /\ step = "done" /\ cleanups = 0 => stage = "world_factory"

(* No failure hides another: the exception that left the body and a failed *)
(* cleanup are each recorded, and a trial without errors had neither.      *)
NothingIsMasked ==
    step = "done" =>
        /\ raised \in {"error", "interrupt"} => stage \in errors
        /\ raised = "swallowed" => {stage, "fault_propagation"} \cap errors # {}
        /\ cleanup = "error" => {"cleanup", "cleanup_after_provision"} \cap errors # {}
        /\ raised = "boundary" /\ cleanup = "pass" => errors = {}
        /\ errors = {} => cleanup = "pass" /\ raised \in {"none", "boundary"}

(* A contract is decided (passed, or contradicted) only by a trial whose   *)
(* evidence supports the decision: the required surfaces were covered,     *)
(* the observed history only grew where it is declared complete, and, in a *)
(* perturbed trial, the world started like the clean one, the first        *)
(* attempt lost its result and the second returned one.                    *)
Decided(n) == results[n].explanation = "decision"

DecisionsRestOnEvidence ==
    step = "done" => \A n \in DOMAIN results : Decided(n) =>
        /\ HasEvidence
        /\ Missing(n, coverage) = {}
        /\ raised = "none"
        /\ coverage.history /\ coverage.complete_history =>
               HistoryPreserved
        /\ kind = "perturbed" => /\ baseline.state = reference
                                 /\ injected = 1 /\ reached[1] = 1
                                 /\ subjectResult \in Result

(* The trial keeps TrialContract: it ends once, and with an outcome that   *)
(* the pair that ran it knows how to interpret.                            *)
Contract == INSTANCE TrialContract WITH
    ending <- IF step = "done"
              THEN [status |-> "finished",
                    outcome |-> [evidence |-> HasEvidence, results |-> results,
                                 failed |-> errors # {}, cleanup |-> cleanup]]
              ELSE [status |-> IF step \in Ended THEN "interrupted" ELSE "running"]

KeepsTrialContract == Contract!Spec

(* Every trial ends, whatever raises in it, if the subject's invocations   *)
(* do; and a world that was entered does not wait for its cleanup for ever. *)
TrialEnds == <>(step \in Ended)

(* An interrupted command is `130` (README.md:134): KeyboardInterrupt is   *)
(* no malfunction of the trial and leaves it, so no trial ends normally    *)
(* with it.                                                                *)
InterruptLeavesTrial == ~(step = "done" /\ raised = "interrupt")

(* WorldSession is "Context-managed provisioning with one cleanup attempt, *)
(* including rollback" (_semantic_kernel.py:219): a trial that began       *)
(* provisioning does not end without it.                                   *)
ProvisioningIsRolledBack ==
    step \in {"done", "interrupted"} /\ stage # "world_factory" => cleanups = 1
=============================================================================
