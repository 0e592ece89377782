-------------------------- MODULE LostResultProofs --------------------------
(***************************************************************************)
(* Theorems about LostResult, for every World, Result and CrossingBound.   *)
(***************************************************************************)
EXTENDS LostResult, TLAPS

(* The controller's record and the point the schedule has reached agree;   *)
(* this is the inductive invariant behind every theorem of the module.     *)
ScheduleInv ==
    /\ TypeOK
    /\ (injected = None) <=> (reached = <<>>)
    /\ injected # None => /\ injected = 1
                          /\ reached[1] = 1
                          /\ undelivered \in Result
    /\ signal = "lost" \/ held => injected # None
    /\ schedule = "baseline" => injected = None
    /\ schedule \in {"baseline", "first", "observe_lost", "boundary_not_reached",
                     "fault_not_propagated"} => afterLost = None
    /\ schedule = "boundary_not_reached" => injected = None
    /\ schedule \in {"observe_lost", "fault_not_propagated"} => injected # None
    /\ schedule \in {"first", "observe_lost", "second", "observe_final",
                     "completed"} => baseline \in World
    /\ schedule \in {"second", "observe_final", "completed"} =>
           injected # None /\ afterLost \in World
    /\ schedule \in {"observe_final", "completed"} => subjectResult \in Result
    /\ schedule = "completed" => final \in World

LEMMA ScheduleInvInit == Init => ScheduleInv
<1> SUFFICES ASSUME Init PROVE ScheduleInv
  OBVIOUS
<1>1. reached \in Seq(Attempt) /\ injected = None /\ reached = <<>>
  BY DEF Init, InitController
<1>2. TypeOK
  BY <1>1 DEF Init, InitController, TypeOK, Statements
<1> QED
  BY <1>1, <1>2, LostResultAssumption DEF Init, InitController, ScheduleInv

LEMMA DeliverPreserves ==
    ASSUME ScheduleInv, NEW a \in Attempt, NEW r \in Result, Deliver(a, r)
    PROVE  ScheduleInv'
<1> USE LostResultAssumption DEF Attempt, Invoking, Statements, Outcomes
<1>1. reached' \in Seq(Attempt) /\ Len(reached') = Len(reached) + 1
      /\ (reached = <<>> => reached'[1] = a)
      /\ (reached # <<>> => reached'[1] = reached[1])
  <2>1. reached \in Seq(Attempt) /\ reached' = Append(reached, a)
    BY DEF ScheduleInv, TypeOK, Deliver
  <2> QED
    BY <2>1
<1>2. reached' # <<>>
  BY <1>1 DEF ScheduleInv, TypeOK
<1>3. CASE injected = None
  <2>1. a = 1 /\ schedule = "first" /\ reached = <<>>
    BY <1>3 DEF Deliver, ScheduleInv, CurrentAttempt
  <2>2. injected' = a /\ undelivered' = r /\ signal' = "lost"
    BY <1>3 DEF Deliver
  <2> QED
    BY <1>1, <1>2, <2>1, <2>2 DEF Deliver, ScheduleInv, TypeOK, observations
<1>4. CASE injected # None
  <2>1. UNCHANGED <<injected, undelivered, signal>>
    BY <1>4 DEF Deliver
  <2>2. reached # <<>>
    BY <1>4 DEF ScheduleInv
  <2> QED
    BY <1>1, <1>2, <1>4, <2>1, <2>2 DEF Deliver, ScheduleInv, TypeOK, observations
<1> QED
  BY <1>3, <1>4

LEMMA ScheduleInvNext == ScheduleInv /\ [Next]_vars => ScheduleInv'
<1> SUFFICES ASSUME ScheduleInv, [Next]_vars
             PROVE  ScheduleInv'
  OBVIOUS
<1> USE LostResultAssumption
    DEF ScheduleInv, TypeOK, Attempt, Statements, Outcomes, Invoking, Running,
        controller, observations
<1>1. CASE RecordBaseline
  BY <1>1 DEF RecordBaseline
<1>2. CASE ObserveLost
  BY <1>2 DEF ObserveLost
<1>3. CASE ObserveFinal
  BY <1>3 DEF ObserveFinal
<1>4. CASE ObserverRaises
  BY <1>4 DEF ObserverRaises
<1>5. CASE Crossing
  BY <1>5, DeliverPreserves DEF Crossing
<1>6. CASE CatchLoss
  BY <1>6 DEF CatchLoss
<1>7. CASE RaiseHeldLoss
  BY <1>7 DEF RaiseHeldLoss
<1>8. CASE FirstReturns
  BY <1>8 DEF FirstReturns
<1>9. ASSUME NEW r \in Result, SecondReturns(r)
      PROVE  ScheduleInv'
  BY <1>9 DEF SecondReturns
<1>10. CASE LossPropagates
  BY <1>10 DEF LossPropagates
<1>11. CASE SubjectRaises
  BY <1>11 DEF SubjectRaises
<1>12. CASE Interrupt
  BY <1>12 DEF Interrupt
<1>13. CASE UNCHANGED vars
  BY <1>13 DEF vars
<1> QED
  BY <1>1, <1>2, <1>3, <1>4, <1>5, <1>6, <1>7, <1>8, <1>9, <1>10, <1>11, <1>12,
     <1>13 DEF Next, Observing, InvocationEnds

LEMMA ScheduleInvariant == Spec => []ScheduleInv
BY ScheduleInvInit, ScheduleInvNext, PTL DEF Spec

(* The controller and the schedule keep the types the code gives them.     *)
THEOREM TypeCorrect == Spec => []TypeOK
<1>1. ScheduleInv => TypeOK
  BY DEF ScheduleInv
<1> QED
  BY <1>1, ScheduleInvariant, PTL

(* The outcome the schedule reports is the one its evidence shows, for     *)
(* every subject (_lost_result.py:223-261).                                *)
THEOREM OutcomeIsTrue == Spec => []OutcomeMatchesEvidence
<1>1. ScheduleInv => OutcomeMatchesEvidence
  BY LostResultAssumption DEF ScheduleInv, OutcomeMatchesEvidence
<1> QED
  BY <1>1, ScheduleInvariant, PTL

(* No subject is invoked twice unless its first result was lost.           *)
THEOREM RetryFollowsLoss == Spec => []RetryOnlyAfterLoss
<1>1. ScheduleInv => RetryOnlyAfterLoss
  BY DEF ScheduleInv, RetryOnlyAfterLoss
<1> QED
  BY <1>1, ScheduleInvariant, PTL

(* The record of the loss, once made, is never changed.                    *)
THEOREM EvidenceNeverRewritten == Spec => EvidenceIsWriteOnce
<1>1. ScheduleInv /\ [Next]_vars =>
        [/\ injected # None => UNCHANGED <<injected, undelivered>>
         /\ baseline # None => UNCHANGED baseline
         /\ afterLost # None => UNCHANGED afterLost]_vars
  BY DEF ScheduleInv, Next, Observing, RecordBaseline, ObserveLost, ObserveFinal,
         ObserverRaises, Crossing, Deliver, CatchLoss, RaiseHeldLoss,
         InvocationEnds, FirstReturns, SecondReturns, LossPropagates,
         SubjectRaises, Interrupt, controller, observations
<1> QED
  BY <1>1, ScheduleInvariant, PTL DEF Spec, EvidenceIsWriteOnce

-----------------------------------------------------------------------------
(* Refinement: each step of the schedule is a step of OneLoss or leaves    *)
(* the promise's variables alone.                                          *)

LEMMA PromiseInit == Init => OneLossPromise!Init
BY LostResultAssumption DEF Init, InitController, OneLossPromise!Init, Outcomes

LEMMA PromiseStep ==
    ScheduleInv /\ [Next]_vars => [OneLossPromise!Next]_(OneLossPromise!vars)
<1> SUFFICES ASSUME ScheduleInv, Next
             PROVE  OneLossPromise!Next \/ UNCHANGED OneLossPromise!vars
  BY DEF vars, controller, observations, OneLossPromise!vars
<1> USE LostResultAssumption
    DEF OneLossPromise!vars, OneLossPromise!Outcomes, Outcomes, Statements, Running,
        Invoking, controller, observations
<1>1. CASE RecordBaseline
  BY <1>1 DEF RecordBaseline
<1>2. CASE ObserveLost
  <2>1. OneLossPromise!Retry
    BY <1>2 DEF ObserveLost, ScheduleInv, OneLossPromise!Retry
  <2> QED
    BY <2>1 DEF OneLossPromise!Next
<1>3. ASSUME NEW o \in Outcomes, schedule' = o, schedule \notin Outcomes,
             UNCHANGED <<injected, afterLost>>,
             o = "completed" => afterLost # None,
             o = "boundary_not_reached" => injected = None /\ afterLost = None,
             o = "fault_not_propagated" => injected # None /\ afterLost = None
      PROVE  OneLossPromise!Next
  <2>1. OneLossPromise!Finish(o)
    BY <1>3 DEF OneLossPromise!Finish
  <2> QED
    BY <2>1 DEF OneLossPromise!Next
<1>4. CASE ObserveFinal
  <2>1. schedule' = "completed" /\ schedule \notin Outcomes /\ afterLost # None
    BY <1>4 DEF ObserveFinal, ScheduleInv
  <2> QED
    BY <1>3, <1>4, <2>1 DEF ObserveFinal
<1>5. CASE ObserverRaises
  BY <1>3, <1>5 DEF ObserverRaises
<1>6. CASE Crossing
  <2> PICK a \in Attempt, r \in Result : Deliver(a, r)
    BY <1>6 DEF Crossing
  <2>1. CASE injected = None
    <3>1. injected' = 1 /\ afterLost = None /\ schedule = "first"
      BY <2>1 DEF Deliver, ScheduleInv, CurrentAttempt, Attempt
    <3>2. OneLossPromise!Lose
      BY <2>1, <3>1 DEF Deliver, OneLossPromise!Lose
    <3> QED
      BY <3>2 DEF OneLossPromise!Next
  <2>2. CASE injected # None
    BY <2>2 DEF Deliver
  <2> QED
    BY <2>1, <2>2
<1>7. CASE CatchLoss \/ RaiseHeldLoss
  BY <1>7 DEF CatchLoss, RaiseHeldLoss
<1>8. CASE FirstReturns
  <2>1. afterLost = None /\ schedule \notin Outcomes
    BY <1>8 DEF FirstReturns, ScheduleInv
  <2> QED
    BY <1>3, <1>8, <2>1 DEF FirstReturns
<1>9. ASSUME NEW r \in Result, SecondReturns(r)
      PROVE  UNCHANGED OneLossPromise!vars
  BY <1>9 DEF SecondReturns
<1>10. CASE LossPropagates
  BY <1>3, <1>10 DEF LossPropagates
<1>11. CASE SubjectRaises
  BY <1>3, <1>11 DEF SubjectRaises
<1>12. CASE Interrupt
  BY <1>3, <1>12 DEF Interrupt
<1> QED
  BY <1>1, <1>2, <1>4, <1>5, <1>6, <1>7, <1>8, <1>9, <1>10, <1>11, <1>12
     DEF Next, Observing, InvocationEnds

(* LostResult implements OneLoss, for every subject and every world.       *)
THEOREM ImplementsOneLoss == Spec => KeepsOneLossPromise
BY ScheduleInvariant, PromiseInit, PromiseStep, PTL
   DEF Spec, KeepsOneLossPromise, OneLossPromise!Spec
=============================================================================
