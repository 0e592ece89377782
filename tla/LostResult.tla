----------------------------- MODULE LostResult -----------------------------
(***************************************************************************)
(* run_commit_then_lose_first_provider_result and the controller it arms   *)
(* (_lost_result.py), run against a subject that may do anything a Python  *)
(* callable may do with the delivery callback: never call it, call it      *)
(* twice, call the callback it kept from the first attempt, swallow the    *)
(* loss, keep the exception and raise it again later, raise something else *)
(* or return any value.  The world is whatever the subject and its         *)
(* background work made of it, so each observation is any member of World. *)
(* CrossingBound caps how often the subject crosses the boundary.          *)
(***************************************************************************)
EXTENDS Naturals, Sequences

CONSTANTS World,         \* what observe() may return
          Result,        \* what the subject may deliver or return
          None,          \* Python's None, and an exception that is not there
          CrossingBound  \* bound on the calls of the delivery callbacks

ASSUME LostResultAssumption ==
    /\ None \notin World \cup Result \cup {1, 2}
    /\ CrossingBound \in Nat

VARIABLES
    schedule,       \* the statement the schedule stands at, or its outcome
    signal,         \* "lost" while _ProviderResultLost unwinds the subject
    held,           \* the subject caught the signal and can raise it again
    reached,        \* _reached_attempt_ids
    injected,       \* _injected_attempt_id
    undelivered,    \* _undelivered_result
    baseline,       \* recorded_baseline; None is _MISSING_BASELINE
    afterLost,      \* after_lost_result
    final,          \* final_observation
    subjectResult   \* subject_result

controller == <<reached, injected, undelivered>>
observations == <<baseline, afterLost, final>>
vars == <<schedule, signal, held, controller, observations, subjectResult>>

Attempt == {1, 2}
Outcomes == {"completed", "boundary_not_reached", "fault_not_propagated",
             "raised", "interrupted"}
Statements == {"baseline", "first", "observe_lost", "second", "observe_final"}

Running == schedule \in Statements
Invoking == schedule \in {"first", "second"}
CurrentAttempt == IF schedule = "second" THEN 2 ELSE 1

TypeOK ==
    /\ schedule \in Statements \cup Outcomes
    /\ signal \in {"none", "lost"}
    /\ held \in BOOLEAN
    /\ reached \in Seq(Attempt)
    /\ injected \in Attempt \cup {None}
    /\ undelivered \in Result \cup {None}
    /\ baseline \in World \cup {None}
    /\ afterLost \in World \cup {None}
    /\ final \in World \cup {None}
    /\ subjectResult \in Result \cup {None}

-----------------------------------------------------------------------------
(* The schedule before and between the invocations.                        *)

(* A loss that the subject kept from an earlier trial is left out: `held`  *)
(* is only ever this controller's.                                         *)
InitController ==
    /\ schedule = "baseline"
    /\ signal = "none"
    /\ held = FALSE
    /\ reached = <<>>
    /\ injected = None
    /\ undelivered = None
    /\ afterLost = None
    /\ final = None
    /\ subjectResult = None

Init == InitController /\ baseline \in World \cup {None}

(* A caller's baseline is recorded as it is; a missing one is observed.    *)
RecordBaseline ==
    /\ schedule = "baseline"
    /\ schedule' = "first"
    /\ IF baseline = None THEN baseline' \in World ELSE UNCHANGED baseline
    /\ UNCHANGED <<signal, held, controller, afterLost, final, subjectResult>>

ObserveLost ==
    /\ schedule = "observe_lost"
    /\ schedule' = "second"
    /\ afterLost' \in World
    /\ UNCHANGED <<signal, held, controller, baseline, final, subjectResult>>

ObserveFinal ==
    /\ schedule = "observe_final"
    /\ schedule' = "completed"
    /\ final' \in World
    /\ UNCHANGED <<signal, held, controller, baseline, afterLost, subjectResult>>

ObserverRaises ==
    /\ \/ schedule \in {"observe_lost", "observe_final"}
       \/ schedule = "baseline" /\ baseline = None
    /\ schedule' = "raised"
    /\ UNCHANGED <<signal, held, controller, observations, subjectResult>>

-----------------------------------------------------------------------------
(* The subject, inside invoke().                                           *)

(* Slip: attempts numbered from zero where they are recorded.              *)
DeliverCountsFromZero(a, r) ==
    /\ Invoking /\ signal = "none" /\ a <= CurrentAttempt /\ Len(reached) < CrossingBound
    /\ reached' = Append(reached, a - 1)
    /\ injected' = a /\ undelivered' = r /\ signal' = "lost"
    /\ UNCHANGED <<schedule, held, observations, subjectResult>>

(* Slip: the guard on a fault already injected is dropped.                 *)
DeliverAlwaysLoses(a, r) ==
    /\ Invoking /\ signal = "none" /\ a <= CurrentAttempt /\ Len(reached) < CrossingBound
    /\ reached' = Append(reached, a)
    /\ injected' = a /\ undelivered' = r /\ signal' = "lost"
    /\ UNCHANGED <<schedule, held, observations, subjectResult>>

(* deliver(r) of the callback bound to attempt a: the current one's, or    *)
(* the first one's kept by the subject and called during the second.       *)
Deliver(a, r) ==
    /\ Invoking
    /\ signal = "none"
    /\ a <= CurrentAttempt
    /\ Len(reached) < CrossingBound
    /\ reached' = Append(reached, a)
    /\ \/ /\ injected = None
          /\ injected' = a
          /\ undelivered' = r
          /\ signal' = "lost"
       \/ /\ injected # None
          /\ UNCHANGED <<injected, undelivered, signal>>
    /\ UNCHANGED <<schedule, held, observations, subjectResult>>

CatchLoss ==
    /\ Invoking
    /\ signal = "lost"
    /\ signal' = "none"
    /\ held' = TRUE
    /\ UNCHANGED <<schedule, controller, observations, subjectResult>>

RaiseHeldLoss ==
    /\ Invoking
    /\ signal = "none"
    /\ held
    /\ signal' = "lost"
    /\ UNCHANGED <<schedule, held, controller, observations, subjectResult>>

-----------------------------------------------------------------------------
(* The ways an invocation ends.                                            *)

FirstReturnsTo(swallowed, unreached) ==
    /\ schedule = "first" /\ signal = "none"
    /\ schedule' = IF injected # None THEN swallowed ELSE unreached
    /\ UNCHANGED <<signal, held, controller, observations, subjectResult>>

(* Slips: the two errors swapped; a retry after a swallowed loss; a retry  *)
(* without a loss.                                                         *)
FirstReturnsSwapped == FirstReturnsTo("boundary_not_reached", "fault_not_propagated")
FirstReturnsRetries == FirstReturnsTo("second", "boundary_not_reached")
FirstReturnsObserves == FirstReturnsTo("fault_not_propagated", "observe_lost")

FirstReturns ==
    /\ schedule = "first"
    /\ signal = "none"
    /\ schedule' = IF injected # None THEN "fault_not_propagated"
                                      ELSE "boundary_not_reached"
    /\ UNCHANGED <<signal, held, controller, observations, subjectResult>>

SecondReturns(r) ==
    /\ schedule = "second"
    /\ signal = "none"
    /\ schedule' = "observe_final"
    /\ subjectResult' = r
    /\ UNCHANGED <<signal, held, controller, observations>>

(* Slip: the retry is inside the "except" too, and is retried itself.      *)
LossIsAlwaysRetried ==
    /\ Invoking /\ signal = "lost"
    /\ signal' = "none" /\ schedule' = "observe_lost"
    /\ UNCHANGED <<held, controller, observations, subjectResult>>

(* Only the first invocation is inside "except _ProviderResultLost".       *)
LossPropagates ==
    /\ Invoking
    /\ signal = "lost"
    /\ signal' = "none"
    /\ schedule' = IF schedule = "first" THEN "observe_lost" ELSE "raised"
    /\ UNCHANGED <<held, controller, observations, subjectResult>>

SubjectRaises ==
    /\ Invoking
    /\ schedule' = "raised"
    /\ signal' = "none"
    /\ UNCHANGED <<held, controller, observations, subjectResult>>

(* KeyboardInterrupt is no Exception: it leaves the schedule at any point. *)
Interrupt ==
    /\ Running
    /\ schedule' = "interrupted"
    /\ signal' = "none"
    /\ UNCHANGED <<held, controller, observations, subjectResult>>

Observing == RecordBaseline \/ ObserveLost \/ ObserveFinal \/ ObserverRaises
Crossing == \E a \in Attempt, r \in Result : Deliver(a, r)
InvocationEnds == \/ FirstReturns
                  \/ \E r \in Result : SecondReturns(r)
                  \/ LossPropagates
                  \/ SubjectRaises

Next == Observing \/ Crossing \/ CatchLoss \/ RaiseHeldLoss
        \/ InvocationEnds \/ Interrupt

Spec == Init /\ [][Next]_vars

(* The schedule is straight-line Python and always takes its next          *)
(* statement; that an invocation ends is an assumption about the subject.  *)
Fairness == WF_vars(Observing) /\ WF_vars(InvocationEnds)

FairSpec == Spec /\ Fairness

-----------------------------------------------------------------------------
(* The outcome of the schedule and the evidence it kept tell one story,    *)
(* whatever the subject did with the callbacks: a completed run lost the   *)
(* first attempt's result and has all three observations (the evidence     *)
(* built at _lost_result.py:236-261 casts these away from None); an        *)
(* unreached boundary was crossed by nobody; a swallowed fault fired.      *)
OutcomeMatchesEvidence ==
    /\ schedule = "completed" =>
           /\ injected = 1 /\ reached # <<>> /\ reached[1] = 1
           /\ undelivered \in Result /\ subjectResult \in Result
           /\ {baseline, afterLost, final} \subseteq World
    /\ schedule = "boundary_not_reached" => reached = <<>>
    /\ schedule = "fault_not_propagated" => injected = 1 /\ afterLost = None

(* The subject is invoked a second time only after the first attempt lost  *)
(* its result and the world was observed: no retry without the fault.      *)
RetryOnlyAfterLoss ==
    schedule \in {"second", "observe_final", "completed"} =>
        injected = 1 /\ afterLost \in World

(* What the harness recorded of the loss is never rewritten, neither by a  *)
(* second crossing, nor by a stale callback, nor by the retry.             *)
EvidenceIsWriteOnce ==
    [][/\ injected # None => UNCHANGED <<injected, undelivered>>
       /\ baseline # None => UNCHANGED baseline
       /\ afterLost # None => UNCHANGED afterLost]_vars

(* Every schedule ends, if the subject's invocations do: the run never     *)
(* waits for the subject to cross a boundary and never retries for ever.   *)
ScheduleEnds == <>(schedule \in Outcomes)

(* The schedule keeps the promise of OneLoss: one fault, in the first      *)
(* attempt; one retry, after it; an outcome that names what happened.      *)
OneLossPromise == INSTANCE OneLoss WITH
    fault <- IF injected = None THEN "armed" ELSE "fired",
    attempt <- IF afterLost = None THEN 1 ELSE 2,
    outcome <- IF schedule \in Outcomes THEN schedule ELSE "running"

KeepsOneLossPromise == OneLossPromise!Spec
=============================================================================
