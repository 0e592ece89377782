----------------------- MODULE FileRefundWorldProofs -----------------------
(***************************************************************************)
(* Theorems about FileRefundWorld: what is proved of the journal for any   *)
(* caller (FileJournalProofs) holds in every trial of the case.            *)
(***************************************************************************)
EXTENDS FileRefundWorld, FileJournalProofs

LEMMA TrialStepsJournal == [Next]_vars => [JournalNext]_journalVars
<1> SUFFICES ASSUME [Next]_vars
             PROVE  JournalNext \/ UNCHANGED journalVars
  OBVIOUS
<1>1. CASE Provisioning
  BY <1>1 DEF Provisioning, MakeDirectory, InitializeJournal, ProvisionFails,
              ProvisionKeeps
<1>2. CASE Invoking
  <2>1. CASE CallProvider
    <3>1. PICK c \in CommandsOf(subject) : Call(c)
      BY <2>1 DEF CallProvider
    <3>2. c \in RefundCommand
      BY <3>1 DEF CommandsOf
    <3> QED
      BY <3>1, <3>2 DEF JournalNext
  <2>2. CASE ProviderSteps
    BY <2>2 DEF ProviderSteps, JournalNext
  <2>3. CASE ProviderDelivers
    BY <2>3 DEF ProviderDelivers, JournalNext
  <2>4. CASE ProviderRaises
    BY <2>4 DEF ProviderRaises, JournalNext
  <2>5. CASE SubjectCatches
    BY <2>5 DEF SubjectCatches, JournalNext
  <2>6. CASE InvokeEnds
    BY <2>6 DEF InvokeEnds
  <2>7. CASE SubjectGivesUp
    BY <2>7 DEF SubjectGivesUp
  <2> QED
    BY <1>2, <2>1, <2>2, <2>3, <2>4, <2>5, <2>6, <2>7 DEF Invoking
<1>3. CASE Observer
  BY <1>3 DEF Observer, CorruptJournal, Observe, ObserverRaises, JournalNext
<1>4. CASE Cleanup
  BY <1>4 DEF Cleanup, LeaveWorld, RemoveDirectory, CleanupKeeps
<1>5. CASE Interrupt
  BY <1>5 DEF Interrupt, JournalNext
<1>6. CASE UNCHANGED vars
  BY <1>6 DEF vars
<1> QED
  BY <1>1, <1>2, <1>3, <1>4, <1>5, <1>6 DEF Next, Harness

(* A trial, with its subject, its faults, its interrupts and its cleanup,  *)
(* is one of the callers that FileJournal allows for.                      *)
THEOREM TrialKeepsJournal == Spec => KeepsJournal
<1>1. Init => JournalInit
  BY DEF Init
<1> QED
  BY <1>1, TrialStepsJournal, PTL DEF Spec, KeepsJournal, JournalSpec

(* So the journal of every trial implements the ledger, stays as it is     *)
(* once it is torn or too large, and is otherwise readable.                *)
THEOREM TrialKeepsLedger ==
    Spec => KeepsLedger /\ UnreadableIsFinal /\ []WholeJournalIsReadable
BY TrialKeepsJournal, JournalIsLedger, UnreadableStaysFinal, WholeJournalStaysReadable
   DEF KeepsJournal

-----------------------------------------------------------------------------
(* What was seen stays: a journal only grows.                              *)

LEMMA PrefixOfAppend ==
    ASSUME NEW S, NEW s \in Seq(S), NEW t \in Seq(S), NEW e, IsPrefix(s, t)
    PROVE  IsPrefix(s, Append(t, e))
BY DEF IsPrefix

LEMMA PrefixFacts ==
    ASSUME NEW S, NEW s \in Seq(S)
    PROVE  IsPrefix(s, s) /\ IsPrefix(<<>>, s)
BY DEF IsPrefix

LEMMA NamedInAppend ==
    ASSUME NEW S, NEW s \in Seq(S), NEW e, NEW receipt, Named(receipt, s)
    PROVE  Named(receipt, Append(s, e))
<1>1. PICK k \in DOMAIN s : Receipt(s[k]) = receipt
  BY DEF Named
<1>2. k \in DOMAIN Append(s, e) /\ Append(s, e)[k] = s[k]
  BY <1>1
<1> QED
  BY <1>1, <1>2 DEF Named

(* The evidence that a lost first attempt leaves, for as long as it is     *)
(* kept: an observation that a later one only extends.                     *)
LostSeen ==
    /\ baseline = <<>>
    /\ injected # None
    /\ afterLost \in Seq(RefundEvent)
    /\ IsPrefix(afterLost, lines)
    /\ Named(undelivered, afterLost)

(* The schedule and the journal move together: refund() runs only inside   *)
(* an invocation, the loss is of a receipt that was delivered, and the     *)
(* final observation is the last that happens to the journal.              *)
TrialInv ==
    /\ JournalInv
    /\ call # "none" => Schedule!Invoking
    /\ schedule = "baseline" => lines = <<>>
    /\ baseline # None => baseline = <<>>
    /\ schedule \in {"first", "observe_lost", "second", "observe_final", "completed"}
           => baseline = <<>>
    /\ \A receipt \in delivered : Named(receipt, lines)
    /\ injected # None => undelivered \in delivered
    /\ signal = "lost" => injected # None
    /\ schedule \in {"observe_lost", "second", "observe_final", "completed"}
           => injected # None
    /\ afterLost # None \/ schedule \in {"second", "observe_final", "completed"}
           => LostSeen
    /\ final # None => final = lines /\ schedule = "completed"

LEMMA TrialInvInit == Init => TrialInv
<1> SUFFICES ASSUME Init PROVE TrialInv
  OBVIOUS
<1>1. JournalInv
  BY JournalInvInit DEF Init
<1>2. /\ schedule = "baseline" /\ signal = "none" /\ injected = None /\ baseline = None
      /\ afterLost = None /\ final = None
  BY DEF Init, Schedule!InitController
<1>3. lines = <<>> /\ call = "none" /\ delivered = {}
  BY DEF Init, JournalInit
<1> QED
  BY <1>1, <1>2, <1>3 DEF TrialInv

(* Steps that leave the schedule where it is: the provider's own.          *)
LEMMA JournalOnly ==
    ASSUME TrialInv, JournalInv', UNCHANGED <<scheduleVars, delivered>>,
           call' # "none" => call # "none",
           \/ lines' = lines
           \/ call # "none" /\ \E e : lines' = Append(lines, e)
    PROVE  TrialInv'
<1>1. CASE lines' = lines
  BY <1>1 DEF TrialInv, LostSeen, scheduleVars, Schedule!Invoking, Named
<1>2. ASSUME NEW e, lines' = Append(lines, e), call # "none"
      PROVE  TrialInv'
  <2>1. schedule \in {"first", "second"}
    BY <1>2 DEF TrialInv, Schedule!Invoking
  <2>2. lines \in Seq(RefundEvent)
    BY DEF TrialInv, JournalInv
  <2>3. \A receipt \in delivered : Named(receipt, lines')
    BY <1>2, <2>2, NamedInAppend DEF TrialInv
  <2>4. LostSeen => LostSeen'
    <3>1. ASSUME LostSeen
          PROVE  IsPrefix(afterLost, lines')
      BY <1>2, <2>2, <3>1, PrefixOfAppend DEF LostSeen
    <3> QED
      BY <3>1 DEF LostSeen, scheduleVars, Named
  <2> QED
    BY <2>1, <2>3, <2>4 DEF TrialInv, scheduleVars, Schedule!Invoking, Named
<1> QED
  BY <1>1, <1>2

(* What refund() hands over names a line of the journal.                   *)
LEMMA AnswersAreNamed ==
    ASSUME JournalInv, NEW receipt \in Answers
    PROVE  Named(receipt, lines)
<1>1. CASE call = "deliver"
  <2>1. receipt = Receipt(NewEvent(Len(lines)))
    BY <1>1 DEF Answers
  <2>2. /\ lines \in Seq(RefundEvent) /\ lines # <<>>
        /\ lines[Len(lines)].amount = command.amount
        /\ \A k \in DOMAIN lines : lines[k].id = k
    BY <1>1 DEF JournalInv, Appended
  <2>3. Len(lines) \in DOMAIN lines
    BY <2>2
  <2>4. Receipt(lines[Len(lines)]) = receipt
    BY <2>1, <2>2, <2>3 DEF Receipt, NewEvent
  <2> QED
    BY <2>3, <2>4 DEF Named
<1>2. CASE call # "deliver"
  <2>1. PICK k \in Stored : receipt = Receipt(lines[k])
    BY <1>2 DEF Answers
  <2>2. k \in DOMAIN lines
    BY <2>1 DEF Stored
  <2> QED
    BY <2>1, <2>2 DEF Named
<1> QED
  BY <1>1, <1>2

LEMMA DeliveryPreserves ==
    ASSUME TrialInv, JournalInv', NEW receipt \in Answers,
           DeliverReceipt(receipt),
           Schedule!Deliver(Schedule!CurrentAttempt, receipt)
    PROVE  TrialInv'
<1>1. delivered' = delivered \cup {receipt} /\ lines' = lines /\ call' = "none"
  BY DEF DeliverReceipt
<1>2. /\ UNCHANGED <<schedule, baseline, afterLost, final>>
      /\ schedule \in {"first", "second"}
  BY DEF Schedule!Deliver, Schedule!Invoking, Schedule!observations
<1>3. Named(receipt, lines)
  BY AnswersAreNamed DEF TrialInv
<1>4. \A r \in delivered' : Named(r, lines')
  BY <1>1, <1>3 DEF TrialInv, Named
<1>5. CASE injected = None
  <2>1. injected' = Schedule!CurrentAttempt /\ undelivered' = receipt
    BY <1>5 DEF Schedule!Deliver
  <2>2. injected' # None
    BY <2>1, FileRefundAssumption DEF Schedule!CurrentAttempt
  <2>3. afterLost = None /\ schedule = "first"
    BY <1>2, <1>5 DEF TrialInv, LostSeen
  <2> QED
    BY <1>1, <1>2, <1>4, <2>1, <2>2, <2>3 DEF TrialInv
<1>6. CASE injected # None
  <2>1. UNCHANGED <<injected, undelivered, signal>>
    BY <1>6 DEF Schedule!Deliver
  <2>2. LostSeen => LostSeen'
    BY <1>1, <1>2, <2>1 DEF LostSeen, Named
  <2> QED
    BY <1>1, <1>2, <1>4, <1>6, <2>1, <2>2 DEF TrialInv
<1> QED
  BY <1>5, <1>6

LEMMA ObservationPreserves ==
    ASSUME TrialInv, JournalInv', Observe
    PROVE  TrialInv'
<1>1. /\ call = "none" /\ call' = call /\ lines' = lines /\ delivered' = delivered
      /\ lines \in Seq(RefundEvent)
  BY DEF Observe, ObserveJournal, TrialInv, JournalInv
<1>2. CASE baseline' = lines /\ Schedule!RecordBaseline
  <2>1. /\ schedule = "baseline" /\ schedule' = "first"
        /\ UNCHANGED <<signal, injected, undelivered, afterLost, final>>
    BY <1>2 DEF Schedule!RecordBaseline, Schedule!controller
  <2>2. baseline' = <<>> /\ (baseline # None => baseline = <<>>)
    BY <1>2, <2>1 DEF TrialInv
  <2>3. LostSeen => LostSeen'
    BY <1>1, <2>1, <2>2 DEF LostSeen, Named
  <2> QED
    BY <1>1, <2>1, <2>2, <2>3 DEF TrialInv, Named
<1>3. CASE afterLost' = lines /\ Schedule!ObserveLost
  <2>1. /\ schedule = "observe_lost" /\ schedule' = "second"
        /\ UNCHANGED <<signal, injected, undelivered, baseline, final>>
    BY <1>3 DEF Schedule!ObserveLost, Schedule!controller
  <2>2. /\ baseline = <<>> /\ injected # None /\ final = None
        /\ Named(undelivered, lines)
    BY <2>1 DEF TrialInv
  <2>3. LostSeen'
    BY <1>1, <1>3, <2>1, <2>2, PrefixFacts DEF LostSeen, Named
  <2> QED
    BY <1>1, <2>1, <2>2, <2>3 DEF TrialInv, Named
<1>4. CASE final' = lines /\ Schedule!ObserveFinal
  <2>1. /\ schedule = "observe_final" /\ schedule' = "completed"
        /\ UNCHANGED <<signal, injected, undelivered, baseline, afterLost>>
    BY <1>4 DEF Schedule!ObserveFinal, Schedule!controller
  <2>2. LostSeen /\ LostSeen'
    BY <1>1, <2>1 DEF TrialInv, LostSeen, Named
  <2> QED
    BY <1>1, <1>4, <2>1, <2>2 DEF TrialInv, LostSeen, Named
<1> QED
  BY <1>2, <1>3, <1>4 DEF Observe

(* Steps that move the schedule and leave the journal and the evidence.    *)
LEMMA ScheduleOnly ==
    ASSUME TrialInv, JournalInv',
           UNCHANGED <<lines, delivered, injected, undelivered,
                       baseline, afterLost, final>>,
           call' = "none", schedule # "completed",
           signal' = "lost" => signal = "lost",
           \/ schedule' = schedule
           \/ schedule' \in {"raised", "interrupted",
                             "fault_not_propagated", "boundary_not_reached"}
           \/ schedule = "first" /\ signal = "lost" /\ schedule' = "observe_lost"
           \/ schedule = "second" /\ schedule' = "observe_final"
    PROVE  TrialInv'
<1>1. LostSeen => LostSeen'
  BY DEF LostSeen, Named
<1>2. \A r \in delivered' : Named(r, lines')
  BY DEF TrialInv, Named
<1> QED
  BY <1>1, <1>2 DEF TrialInv, Schedule!Invoking

LEMMA TrialInvNext == TrialInv /\ [Next]_vars => TrialInv'
<1> SUFFICES ASSUME TrialInv, [Next]_vars
             PROVE  TrialInv'
  OBVIOUS
<1>1. JournalInv'
  BY TrialStepsJournal, JournalInvNext DEF TrialInv
<1>2. JournalTypeOK /\ lines \in Seq(RefundEvent)
  BY DEF TrialInv, JournalInv
<1>3. CASE Provisioning \/ Cleanup \/ UNCHANGED vars
  <2>1. UNCHANGED <<journalVars, scheduleVars>>
    BY <1>3 DEF Provisioning, MakeDirectory, InitializeJournal, ProvisionFails,
                ProvisionKeeps, Cleanup, LeaveWorld, RemoveDirectory, CleanupKeeps, vars
  <2> QED
    BY <1>1, <2>1, JournalOnly DEF journalVars
<1>4. CASE CallProvider
  <2>1. call' = "read" /\ Schedule!Invoking /\ UNCHANGED <<lines, delivered, scheduleVars>>
    BY <1>4 DEF CallProvider, InInvoke, Call
  <2>2. /\ UNCHANGED <<schedule, signal, injected, undelivered, baseline, afterLost, final>>
        /\ Schedule!Invoking'
    BY <2>1 DEF scheduleVars, Schedule!Invoking
  <2>3. LostSeen => LostSeen'
    BY <2>1, <2>2 DEF LostSeen, Named
  <2> QED
    BY <1>1, <2>1, <2>2, <2>3 DEF TrialInv, Named
<1>5. CASE ProviderSteps
  <2>1. UNCHANGED <<scheduleVars, delivered>> /\ call # "none"
    BY <1>5 DEF ProviderSteps, StartAppend, Write, Sync
  <2>2. lines' = lines \/ \E e : lines' = Append(lines, e)
    BY <1>5 DEF ProviderSteps, StartAppend, Write, Sync
  <2> QED
    BY <1>1, <2>1, <2>2, JournalOnly
<1>6. CASE ProviderDelivers
  BY <1>1, <1>6, DeliveryPreserves DEF ProviderDelivers
<1>7. CASE ProviderRaises
  <2>1. /\ UNCHANGED <<lines, delivered, injected, undelivered, baseline, afterLost, final>>
        /\ call' = "none" /\ schedule # "completed" /\ schedule' = "raised"
        /\ signal' = "none"
    BY <1>7 DEF ProviderRaises, RefundRaises, Schedule!SubjectRaises, Schedule!Invoking,
                Schedule!controller, Schedule!observations
  <2> QED
    BY <1>1, <2>1, ScheduleOnly
<1>8. CASE SubjectCatches
  <2>1. CASE RefundRaises /\ UNCHANGED scheduleVars
    BY <1>1, <2>1, JournalOnly DEF RefundRaises
  <2>2. CASE Schedule!CatchLoss /\ UNCHANGED journalVars
    <3>1. /\ UNCHANGED <<lines, call, delivered, schedule, injected, undelivered,
                         baseline, afterLost, final>>
          /\ signal' = "none"
      BY <2>2 DEF Schedule!CatchLoss, Schedule!controller, Schedule!observations,
                  journalVars
    <3>2. LostSeen => LostSeen'
      BY <3>1 DEF LostSeen, Named
    <3> QED
      BY <1>1, <3>1, <3>2 DEF TrialInv, Schedule!Invoking, Named
  <2> QED
    BY <1>8, <2>1, <2>2 DEF SubjectCatches
<1>9. CASE InvokeEnds
  <2>1. /\ UNCHANGED <<lines, delivered, injected, undelivered, baseline, afterLost, final>>
        /\ call' = "none"
    BY <1>9 DEF InvokeEnds, journalVars, Schedule!LossPropagates, Schedule!SecondReturns,
                Schedule!FirstReturns, Schedule!controller, Schedule!observations
  <2>2. CASE Schedule!LossPropagates
    <3>1. /\ schedule \in {"first", "second"} /\ signal = "lost" /\ signal' = "none"
          /\ schedule' = IF schedule = "first" THEN "observe_lost" ELSE "raised"
      BY <2>2 DEF Schedule!LossPropagates, Schedule!Invoking
    <3> QED
      BY <1>1, <2>1, <3>1, ScheduleOnly
  <2>3. CASE Schedule!SecondReturns(result)
    BY <1>1, <2>1, <2>3, ScheduleOnly DEF Schedule!SecondReturns
  <2>4. CASE Schedule!FirstReturns
    BY <1>1, <2>1, <2>4, ScheduleOnly DEF Schedule!FirstReturns
  <2> QED
    BY <1>9, <2>2, <2>3, <2>4 DEF InvokeEnds
<1>10. CASE SubjectGivesUp
  <2>1. /\ UNCHANGED <<lines, delivered, injected, undelivered, baseline, afterLost, final>>
        /\ call' = "none" /\ schedule # "completed" /\ schedule' = "raised"
        /\ signal' = "none"
    BY <1>10 DEF SubjectGivesUp, journalVars, Schedule!SubjectRaises, Schedule!Invoking,
                 Schedule!controller, Schedule!observations
  <2> QED
    BY <1>1, <2>1, ScheduleOnly
<1>11. CASE CorruptJournal
  BY <1>1, <1>11, JournalOnly DEF CorruptJournal, Corrupt
<1>12. CASE Observe
  BY <1>1, <1>12, ObservationPreserves
<1>13. CASE ObserverRaises
  <2>1. /\ UNCHANGED <<lines, call, delivered, injected, undelivered,
                       baseline, afterLost, final, signal>>
        /\ schedule \in {"baseline", "observe_lost", "observe_final"}
        /\ schedule' = "raised"
    BY <1>13 DEF ObserverRaises, Observing, journalVars, Schedule!ObserverRaises,
                 Schedule!controller, Schedule!observations
  <2>2. call = "none"
    BY <2>1 DEF TrialInv, Schedule!Invoking
  <2> QED
    BY <1>1, <2>1, <2>2, ScheduleOnly
<1>14. CASE Interrupt
  <2>1. /\ UNCHANGED <<lines, delivered, injected, undelivered, baseline, afterLost, final>>
        /\ call' = "none" /\ schedule # "completed" /\ schedule' = "interrupted"
        /\ signal' = "none"
    BY <1>14 DEF Interrupt, journalVars, RefundRaises, Schedule!Interrupt,
                 Schedule!Running, Schedule!Statements,
                 Schedule!controller, Schedule!observations
  <2> QED
    BY <1>1, <2>1, ScheduleOnly
<1> QED
  BY <1>3, <1>4, <1>5, <1>6, <1>7, <1>8, <1>9, <1>10, <1>11, <1>12, <1>13, <1>14
     DEF Next, Harness, Invoking, Observer

(* The three observations of every trial and its receipts make one story,  *)
(* whatever the subject does, and wherever an append of it is torn.        *)
THEOREM TrialObservesReceipts == Spec => []ObservationsFollowReceipts
<1>1. TrialInv => ObservationsFollowReceipts
  <2> SUFFICES ASSUME TrialInv PROVE ObservationsFollowReceipts
    OBVIOUS
  <2>1. baseline # None => baseline = <<>>
    BY DEF TrialInv
  <2>2. ASSUME afterLost # None
        PROVE  IsPrefix(baseline, afterLost) /\ Named(undelivered, afterLost)
    <3>1. LostSeen
      BY <2>2 DEF TrialInv
    <3> QED
      BY <3>1, PrefixFacts DEF LostSeen
  <2>3. ASSUME final # None
        PROVE  /\ IsPrefix(afterLost, final)
               /\ \A receipt \in delivered : Named(receipt, final)
    BY <2>3 DEF TrialInv, LostSeen
  <2> QED
    BY <2>1, <2>2, <2>3 DEF ObservationsFollowReceipts
<1> QED
  BY <1>1, TrialInvInit, TrialInvNext, PTL DEF Spec

-----------------------------------------------------------------------------
(* The two subjects of the case.                                           *)

(* The command that the subject gives the provider in every attempt, and   *)
(* the refund, the k-th of the journal, that it makes of it.               *)
OwnKey == IF subject = "keyed" THEN key ELSE None
OwnCommand == [payment |-> "controlled", amount |-> amount, key |-> OwnKey]
OwnRefund(k) == [id |-> k, amount |-> amount, key |-> OwnKey]

(* The journal before and after the commit of an attempt, and its answer.  *)
RefundsOnce == schedule = "first" \/ subject = "keyed"
Before == IF schedule = "first" THEN <<>> ELSE <<OwnRefund(1)>>
After == IF RefundsOnce THEN <<OwnRefund(1)>> ELSE <<OwnRefund(1), OwnRefund(2)>>
OwnReceipt == Receipt(IF RefundsOnce THEN OwnRefund(1) ELSE OwnRefund(2))

Answered == call = "none" /\ calls.attempt # 0
Committed == Answered \/ call = "deliver" \/ (call = "append" /\ pending = 0)

InAttempt ==
    /\ lines = IF Committed THEN After ELSE Before
    /\ call # "none" => command = OwnCommand /\ calls.attempt # 0
    /\ call \in {"append", "deliver"} => schedule = "first" \/ subject = "unsafe"
    /\ result # None => Answered /\ result = OwnReceipt
    /\ schedule = "first" /\ ~Answered => injected = None

OwnInv ==
    /\ calls \in [total: Nat, attempt: Nat]
    /\ injected # None => undelivered = Receipt(OwnRefund(1))
    /\ schedule \in {"baseline", "observe_lost"} => calls.attempt = 0 /\ result = None
    /\ schedule = "baseline" => injected = None /\ lines = <<>>
    /\ Schedule!Invoking => InAttempt
    /\ schedule = "observe_lost" => lines = <<OwnRefund(1)>>
    /\ schedule \in {"second", "observe_final", "completed"} => afterLost = <<OwnRefund(1)>>
    /\ schedule \in {"observe_final", "completed"} => lines = After /\ subjectResult = OwnReceipt
    /\ schedule = "completed" => final = lines

(* A corrupt trial never gets past the observation that finds the torn     *)
(* record.                                                                 *)
CorruptionStops ==
    /\ corrupt \in {"no", "due", "done"}
    /\ corrupt = "done" => tail > 0 /\ schedule \in {"observe_lost", "raised", "interrupted"}
    /\ schedule \in {"second", "observe_final", "completed"} => corrupt = "no"

CaseInv ==
    /\ TrialInv
    /\ subject \in {"unsafe", "keyed", "any"} /\ amount \in Amounts /\ key \in Keys
    /\ CorruptionStops
    /\ subject # "any" => OwnInv

LEMMA CaseInvInit == Init => CaseInv
<1> SUFFICES ASSUME Init PROVE CaseInv
  OBVIOUS
<1>1. /\ schedule = "baseline" /\ injected = None /\ lines = <<>>
      /\ corrupt \in {"no", "due"}
      /\ calls = [total |-> 0, attempt |-> 0] /\ result = None
  BY DEF Init, JournalInit, Schedule!InitController
<1>2. calls \in [total: Nat, attempt: Nat]
  BY <1>1
<1> QED
  BY <1>1, <1>2, TrialInvInit
     DEF Init, CaseInv, CorruptionStops, OwnInv, Schedule!Invoking

(* Steps that leave the subject, the journal and the schedule alone.       *)
LEMMA CaseUntouched ==
    ASSUME CaseInv, TrialInv',
           UNCHANGED <<inputs, corrupt, subjectVars, journalVars, scheduleVars>>
    PROVE  CaseInv'
BY DEF CaseInv, CorruptionStops, OwnInv, InAttempt, Answered, Committed, Before, After,
       OwnReceipt, OwnRefund, OwnCommand, OwnKey, RefundsOnce, Receipt,
       Schedule!Invoking, inputs, subjectVars, journalVars, scheduleVars

(* Steps that end the schedule without a verdict.                          *)
LEMMA CaseAbandoned ==
    ASSUME CaseInv, TrialInv', UNCHANGED <<inputs, corrupt, tail, injected, undelivered>>,
           \/ schedule' \in {"raised", "interrupted"}
           \/ schedule = "first" /\ schedule' \in {"fault_not_propagated",
                                                   "boundary_not_reached"},
           calls' \in {calls, [calls EXCEPT !.attempt = 0]}
    PROVE  CaseInv'
<1>1. subject # "any" => calls' \in [total: Nat, attempt: Nat]
  BY DEF CaseInv, OwnInv
<1>2. CorruptionStops'
  BY DEF CaseInv, CorruptionStops
<1> QED
  BY <1>1, <1>2
     DEF CaseInv, OwnInv, OwnRefund, OwnKey, Receipt, Schedule!Invoking, inputs

(* Steps of an invocation that leave the schedule where it is.             *)
LEMMA AttemptPreserves ==
    ASSUME CaseInv, TrialInv', UNCHANGED <<inputs, corrupt, schedule, baseline,
                                           afterLost, final, subjectResult>>,
           Schedule!Invoking,
           subject # "any" => /\ calls' \in [total: Nat, attempt: Nat]
                              /\ injected' # None => undelivered' = Receipt(OwnRefund(1))
                              /\ InAttempt'
    PROVE  CaseInv'
<1>1. schedule \in {"first", "second"} /\ Schedule!Invoking'
  BY DEF Schedule!Invoking
<1>2. CorruptionStops'
  BY <1>1 DEF CaseInv, CorruptionStops
<1> QED
  BY <1>1, <1>2 DEF CaseInv, OwnInv, OwnRefund, OwnKey, Receipt, inputs

(* The subject's call of the provider: of its own command, and once in     *)
(* every attempt.                                                          *)
LEMMA CallPreserves ==
    ASSUME CaseInv, TrialInv', CallProvider
    PROVE  CaseInv'
<1>1. /\ Schedule!Invoking /\ UNCHANGED <<inputs, corrupt, scheduleVars, result, lines>>
      /\ call = "none" /\ call' = "read"
      /\ calls' = [total |-> calls.total + 1, attempt |-> calls.attempt + 1]
  BY DEF CallProvider, InInvoke, InvokeKeeps, Call
<1>2. ASSUME subject # "any"
      PROVE  calls.attempt = 0 /\ command' = OwnCommand
  <2>1. PICK c \in CommandsOf(subject) : Call(c)
    BY DEF CallProvider
  <2>2. /\ c \in RefundCommand /\ calls.attempt = 0 /\ c.payment = "controlled"
        /\ c.amount = amount /\ c.key = OwnKey
    BY <1>2, <2>1 DEF CommandsOf, OwnKey
  <2>3. c = OwnCommand
    BY <2>2 DEF RefundCommand, OwnCommand
  <2> QED
    BY <2>1, <2>2, <2>3 DEF Call
<1>3. ASSUME subject # "any"
      PROVE  /\ calls' \in [total: Nat, attempt: Nat]
             /\ injected' # None => undelivered' = Receipt(OwnRefund(1))
             /\ InAttempt'
  <2>1. OwnInv /\ InAttempt /\ calls.attempt = 0
    BY <1>1, <1>2, <1>3 DEF CaseInv, OwnInv
  <2>2. calls' \in [total: Nat, attempt: Nat] /\ calls'.attempt = 1
    BY <1>1, <2>1 DEF OwnInv
  <2>3. /\ UNCHANGED <<schedule, injected, undelivered, Before, After, OwnReceipt,
                       OwnCommand, OwnRefund(1)>>
        /\ result' = result
    BY <1>1 DEF scheduleVars, inputs, Before, After, OwnReceipt, OwnCommand, OwnRefund,
                OwnKey, RefundsOnce, Receipt
  <2>4. ~Committed /\ ~Answered /\ ~Committed' /\ ~Answered'
    BY <1>1, <2>1 DEF Committed, Answered
  <2> QED
    BY <1>1, <1>2, <1>3, <2>1, <2>2, <2>3, <2>4 DEF OwnInv, InAttempt
<1> QED
  BY <1>1, <1>3, AttemptPreserves DEF scheduleVars

(* The provider commits at most one refund of the attempt.                 *)
LEMMA ProviderPreserves ==
    ASSUME CaseInv, TrialInv', ProviderSteps
    PROVE  CaseInv'
<1>1. /\ UNCHANGED <<inputs, corrupt, scheduleVars, subjectVars>>
      /\ call \in {"read", "append"} /\ JournalInv
  BY DEF ProviderSteps, InvokeKeeps, StartAppend, Write, Sync, CaseInv, TrialInv
<1>2. Schedule!Invoking
  BY <1>1 DEF CaseInv, TrialInv
<1>3. ASSUME subject # "any"
      PROVE  InAttempt'
  <2>1. OwnInv /\ InAttempt /\ command = OwnCommand /\ calls.attempt # 0 /\ result = None
    BY <1>1, <1>2, <1>3 DEF CaseInv, OwnInv, InAttempt, Answered
  <2>2. /\ UNCHANGED <<schedule, injected, calls, result, subject, Before, After,
                       OwnReceipt, OwnCommand>>
        /\ schedule \in {"first", "second"}
    BY <1>1, <1>2 DEF scheduleVars, subjectVars, inputs, Before, After, OwnReceipt,
                OwnCommand, OwnRefund, OwnKey, RefundsOnce, Receipt, Schedule!Invoking
  <2>3. subject \in {"unsafe", "keyed"} /\ key \in Keys /\ None \notin Keys
    BY <1>3, FileJournalAssumption DEF CaseInv
  <2>4. CASE StartAppend
    <3>1. /\ call' = "append" /\ pending' = RecordSize /\ UNCHANGED <<lines, command>>
          /\ Stored = {} /\ call = "read"
      BY <2>4 DEF StartAppend
    <3>2. pending' # 0
      BY <3>1, FileJournalAssumption
    <3>3. schedule = "second" => subject = "unsafe"
      <4> SUFFICES ASSUME schedule = "second", subject = "keyed"
                   PROVE  FALSE
        BY <2>3
      <4>1. lines = <<OwnRefund(1)>> /\ command.key = key /\ OwnRefund(1).key = key
        BY <2>1, <3>1
           DEF InAttempt, Committed, Answered, Before, OwnCommand, OwnKey, OwnRefund
      <4>2. 1 \in Stored
        BY <2>3, <4>1 DEF Stored
      <4> QED
        BY <3>1, <4>2
    <3> QED
      BY <2>1, <2>2, <3>1, <3>2, <3>3 DEF InAttempt, Committed, Answered
  <2>5. ASSUME NEW n \in 1..RecordSize, Write(n)
        PROVE  InAttempt'
    <3>1. /\ call = "append" /\ call' = call /\ command' = command
          /\ n \in 1..pending /\ pending' = pending - n /\ pending \in 0..RecordSize
          /\ pending > 0 /\ tail + pending = RecordSize
      BY <1>1, <2>5 DEF Write, JournalInv, JournalTypeOK
    <3>2. CASE n < pending
      <4>1. lines' = lines /\ pending' # 0
        BY <2>5, <3>1, <3>2, FileJournalAssumption DEF Write
      <4> QED
        BY <2>1, <2>2, <3>1, <4>1 DEF InAttempt, Committed, Answered
    <3>3. CASE n = pending
      <4>1. lines' = Append(lines, NewEvent(Len(lines) + 1)) /\ pending' = 0
        BY <2>5, <3>1, <3>3, FileJournalAssumption DEF Write
      <4>2. lines = Before /\ (schedule = "second" => subject = "unsafe")
        BY <2>1, <2>2, <3>1 DEF InAttempt, Committed, Answered
      <4>3. NewEvent(Len(lines) + 1) = OwnRefund(Len(lines) + 1)
        BY <2>1 DEF NewEvent, OwnRefund, OwnCommand
      <4>4. lines' = After
        BY <2>2, <4>1, <4>2, <4>3 DEF Before, After, RefundsOnce
      <4> QED
        BY <2>1, <2>2, <3>1, <4>1, <4>4 DEF InAttempt, Committed, Answered
    <3> QED
      BY <3>1, <3>2, <3>3, FileJournalAssumption
  <2>6. CASE Sync
    <3>1. /\ call' = "deliver" /\ call = "append" /\ pending = 0
          /\ UNCHANGED <<lines, command>>
      BY <2>6 DEF Sync
    <3> QED
      BY <2>1, <2>2, <3>1 DEF InAttempt, Committed, Answered
  <2> QED
    BY <2>4, <2>5, <2>6 DEF ProviderSteps
<1>4. subject # "any" => /\ calls' \in [total: Nat, attempt: Nat]
                         /\ injected' # None => undelivered' = Receipt(OwnRefund(1))
  BY <1>1 DEF CaseInv, OwnInv, scheduleVars, subjectVars
<1> QED
  BY <1>1, <1>2, <1>3, <1>4, AttemptPreserves DEF scheduleVars

(* The receipt that a subject of the case gets is that of the refund its   *)
(* attempt committed or, for the keyed subject's second, found.            *)
LEMMA OwnAnswer ==
    ASSUME CaseInv, subject # "any", Schedule!Invoking, NEW receipt \in Answers
    PROVE  receipt = OwnReceipt /\ lines = After /\ ~Answered
<1>1. /\ InAttempt /\ schedule \in {"first", "second"}
      /\ subject \in {"unsafe", "keyed"} /\ key \in Keys /\ None \notin Keys
  BY FileJournalAssumption DEF CaseInv, OwnInv, Schedule!Invoking
<1>2. CASE call = "deliver"
  <2>1. /\ receipt = Receipt(NewEvent(Len(lines))) /\ command = OwnCommand
        /\ lines = After /\ (schedule = "second" => subject = "unsafe")
    BY <1>1, <1>2 DEF Answers, InAttempt, Committed, Answered
  <2>2. Len(lines) = IF RefundsOnce THEN 1 ELSE 2
    BY <2>1 DEF After
  <2>3. NewEvent(Len(lines)) = OwnRefund(Len(lines))
    BY <2>1 DEF NewEvent, OwnRefund, OwnCommand
  <2> QED
    BY <1>2, <2>1, <2>2, <2>3 DEF OwnReceipt, Answered
<1>3. CASE call = "read"
  <2>1. PICK k \in Stored : receipt = Receipt(lines[k])
    BY <1>3 DEF Answers
  <2>2. command = OwnCommand /\ lines = Before /\ ~Answered
    BY <1>1, <1>3 DEF InAttempt, Committed, Answered
  <2>3. k \in DOMAIN lines /\ OwnKey # None
    BY <2>1, <2>2 DEF Stored, OwnCommand
  <2>4. lines = <<OwnRefund(1)>> /\ k = 1 /\ subject = "keyed"
    BY <1>1, <2>2, <2>3 DEF Before, OwnKey
  <2> QED
    BY <2>1, <2>2, <2>4 DEF OwnReceipt, After, RefundsOnce
<1> QED
  BY <1>2, <1>3 DEF Answers

LEMMA CaseDeliveryPreserves ==
    ASSUME CaseInv, TrialInv', ProviderDelivers
    PROVE  CaseInv'
<1>1. PICK receipt \in Answers :
          /\ DeliverReceipt(receipt)
          /\ Schedule!Deliver(Schedule!CurrentAttempt, receipt)
          /\ result' = receipt
          /\ UNCHANGED <<calls, inputs, corrupt>>
  BY DEF ProviderDelivers, InvokeKeeps
<1>2. /\ Schedule!Invoking /\ UNCHANGED <<schedule, lines, command>> /\ call' = "none"
      /\ UNCHANGED <<baseline, afterLost, final, subjectResult>>
      /\ \/ injected = None /\ undelivered' = receipt
         \/ injected # None /\ UNCHANGED <<injected, undelivered>>
  BY <1>1 DEF DeliverReceipt, Schedule!Deliver, Schedule!observations
<1>3. call # "none"
  BY <1>1 DEF Answers
<1>4. ASSUME subject # "any"
      PROVE  /\ calls' \in [total: Nat, attempt: Nat]
             /\ injected' # None => undelivered' = Receipt(OwnRefund(1))
             /\ InAttempt'
  <2>1. OwnInv /\ InAttempt /\ receipt = OwnReceipt /\ lines = After
    BY <1>1, <1>2, <1>4, OwnAnswer DEF CaseInv, OwnInv
  <2>2. UNCHANGED <<After, OwnReceipt, OwnRefund(1), subject>>
    BY <1>1, <1>2 DEF inputs, After, OwnReceipt, OwnRefund, OwnKey, RefundsOnce, Receipt
  <2>3. calls.attempt # 0 /\ Answered' /\ Committed'
    BY <1>1, <1>2, <1>3, <2>1 DEF InAttempt, Answered, Committed
  <2>4. schedule \in {"first", "second"}
    BY <1>2 DEF Schedule!Invoking
  <2>5. schedule = "second" => injected # None
    BY DEF CaseInv, TrialInv
  <2>6. injected' # None => undelivered' = Receipt(OwnRefund(1))
    BY <1>2, <2>1, <2>4, <2>5 DEF OwnInv, OwnReceipt, RefundsOnce
  <2> QED
    BY <1>1, <1>2, <2>1, <2>2, <2>3, <2>6 DEF OwnInv, InAttempt
<1> QED
  BY <1>1, <1>2, <1>4, AttemptPreserves

(* An invocation ends with the receipt it was given, or with its loss.     *)
LEMMA InvokeEndsPreserves ==
    ASSUME CaseInv, TrialInv', InvokeEnds
    PROVE  CaseInv'
<1>1. /\ call = "none" /\ result # None /\ result' = None
      /\ calls' = [calls EXCEPT !.attempt = 0]
      /\ UNCHANGED <<journalVars, inputs, corrupt>>
  BY DEF InvokeEnds, InvokeKeeps
<1>2. ASSUME subject # "any", Schedule!Invoking
      PROVE  /\ OwnInv /\ lines = After /\ result = OwnReceipt
             /\ calls' \in [total: Nat, attempt: Nat] /\ calls'.attempt = 0
  BY <1>1, <1>2 DEF CaseInv, OwnInv, InAttempt, Committed
<1>3. CASE Schedule!FirstReturns
  BY <1>1, <1>3, CaseAbandoned DEF Schedule!FirstReturns, Schedule!controller, journalVars
<1>4. CASE Schedule!LossPropagates
  <2>1. /\ UNCHANGED <<injected, undelivered, afterLost>>
        /\ schedule \in {"first", "second"} /\ Schedule!Invoking
        /\ schedule' = IF schedule = "first" THEN "observe_lost" ELSE "raised"
    BY <1>4 DEF Schedule!LossPropagates, Schedule!controller, Schedule!observations,
                Schedule!Invoking
  <2>2. CASE schedule = "first"
    <3>1. CorruptionStops'
      BY <1>1, <2>1, <2>2 DEF CaseInv, CorruptionStops, journalVars
    <3>2. subject # "any" => lines' = <<OwnRefund(1)>>'
      BY <1>1, <1>2, <2>1, <2>2
         DEF After, RefundsOnce, OwnRefund, OwnKey, inputs, journalVars
    <3>3. subject # "any" => OwnInv'
      BY <1>1, <1>2, <2>1, <2>2, <3>2
         DEF OwnInv, OwnRefund, OwnKey, Receipt, inputs, Schedule!Invoking
    <3> QED
      BY <1>1, <3>1, <3>3 DEF CaseInv, inputs
  <2>3. CASE schedule = "second"
    BY <1>1, <2>1, <2>3, CaseAbandoned DEF journalVars
  <2> QED
    BY <2>1, <2>2, <2>3
<1>5. CASE Schedule!SecondReturns(result)
  <2>1. /\ UNCHANGED <<injected, undelivered, afterLost>>
        /\ schedule = "second" /\ schedule' = "observe_final" /\ Schedule!Invoking
        /\ subjectResult' = result
    BY <1>5 DEF Schedule!SecondReturns, Schedule!controller, Schedule!observations,
                Schedule!Invoking
  <2>2. CorruptionStops'
    BY <1>1, <2>1 DEF CaseInv, CorruptionStops, journalVars
  <2>3. UNCHANGED <<After, OwnReceipt, OwnRefund(1)>>
    BY <1>1, <2>1 DEF After, OwnReceipt, RefundsOnce, OwnRefund, OwnKey, Receipt, inputs
  <2>4. subject # "any" => OwnInv'
    BY <1>1, <1>2, <2>1, <2>3 DEF OwnInv, Schedule!Invoking, journalVars
  <2> QED
    BY <1>1, <2>2, <2>4 DEF CaseInv, inputs
<1> QED
  BY <1>3, <1>4, <1>5 DEF InvokeEnds

(* A torn record is never observed: the observer refuses the journal.      *)
LEMMA CaseObservationPreserves ==
    ASSUME CaseInv, TrialInv', Observe
    PROVE  CaseInv'
<1>1. /\ ~CorruptDue /\ call = "none" /\ Readable
      /\ UNCHANGED <<lines, tail, call, inputs, calls, result, corrupt>>
  BY DEF Observe, ObserveJournal, ObserveKeeps, subjectVars
<1>2. tail = 0
  BY <1>1 DEF Readable
<1>3. UNCHANGED OwnRefund(1)
  BY <1>1 DEF inputs, OwnRefund, OwnKey
<1>4. CASE baseline' = lines /\ Schedule!RecordBaseline
  <2>1. /\ schedule = "baseline" /\ schedule' = "first"
        /\ UNCHANGED <<injected, undelivered, afterLost>>
    BY <1>4 DEF Schedule!RecordBaseline, Schedule!controller
  <2>2. CorruptionStops'
    BY <1>1, <2>1 DEF CaseInv, CorruptionStops
  <2>3. subject # "any" => InAttempt'
    BY <1>1, <2>1 DEF CaseInv, OwnInv, InAttempt, Answered, Committed, Before
  <2>4. subject # "any" => OwnInv'
    BY <1>1, <1>3, <2>1, <2>3 DEF CaseInv, OwnInv, Receipt
  <2> QED
    BY <1>1, <2>2, <2>4 DEF CaseInv, inputs
<1>5. CASE afterLost' = lines /\ Schedule!ObserveLost
  <2>1. /\ schedule = "observe_lost" /\ schedule' = "second"
        /\ UNCHANGED <<injected, undelivered>>
    BY <1>5 DEF Schedule!ObserveLost, Schedule!controller
  <2>2. corrupt = "no"
    BY <1>1, <1>2, <2>1, FileJournalAssumption DEF CorruptDue, CaseInv, CorruptionStops
  <2>3. CorruptionStops'
    BY <1>1, <2>1, <2>2 DEF CorruptionStops
  <2>4. subject # "any" => InAttempt' /\ afterLost' = <<OwnRefund(1)>>'
    BY <1>1, <1>3, <1>5, <2>1 DEF CaseInv, OwnInv, InAttempt, Answered, Committed, Before
  <2>5. subject # "any" => OwnInv'
    BY <1>1, <1>3, <2>1, <2>4 DEF CaseInv, OwnInv, Receipt
  <2> QED
    BY <1>1, <2>3, <2>5 DEF CaseInv, inputs
<1>6. CASE final' = lines /\ Schedule!ObserveFinal
  <2>1. /\ schedule = "observe_final" /\ schedule' = "completed"
        /\ UNCHANGED <<injected, undelivered, afterLost, subjectResult>>
    BY <1>6 DEF Schedule!ObserveFinal, Schedule!controller
  <2>2. CorruptionStops'
    BY <1>1, <2>1 DEF CaseInv, CorruptionStops
  <2>3. UNCHANGED <<After, OwnReceipt>>
    BY <1>1, <2>1 DEF After, OwnReceipt, RefundsOnce, OwnRefund, OwnKey, Receipt, inputs
  <2>4. subject # "any" => OwnInv'
    BY <1>1, <1>3, <1>6, <2>1, <2>3 DEF CaseInv, OwnInv, Receipt, Schedule!Invoking
  <2> QED
    BY <1>1, <2>2, <2>4 DEF CaseInv, inputs
<1> QED
  BY <1>4, <1>5, <1>6 DEF Observe

LEMMA CaseInvNext == CaseInv /\ [Next]_vars => CaseInv'
<1> SUFFICES ASSUME CaseInv, [Next]_vars
             PROVE  CaseInv'
  OBVIOUS
<1>1. TrialInv'
  BY TrialInvNext DEF CaseInv
<1>2. CASE Provisioning \/ Cleanup \/ UNCHANGED vars
  <2>1. UNCHANGED <<inputs, corrupt, subjectVars, journalVars, scheduleVars>>
    BY <1>2 DEF Provisioning, MakeDirectory, InitializeJournal, ProvisionFails,
                ProvisionKeeps, Cleanup, LeaveWorld, RemoveDirectory, CleanupKeeps, vars
  <2> QED
    BY <1>1, <2>1, CaseUntouched
<1>3. CASE ProviderRaises \/ SubjectGivesUp \/ ObserverRaises \/ Interrupt
  <2>1. /\ UNCHANGED <<inputs, corrupt, tail, calls, injected, undelivered>>
        /\ schedule' \in {"raised", "interrupted"}
    BY <1>3
       DEF ProviderRaises, RefundRaises, SubjectGivesUp, ObserverRaises, Interrupt,
           InvokeKeeps, ObserveKeeps, subjectVars, journalVars, Schedule!SubjectRaises,
           Schedule!ObserverRaises, Schedule!Interrupt, Schedule!controller
  <2> QED
    BY <1>1, <2>1, CaseAbandoned
<1>4. CASE SubjectCatches
  <2>1. /\ subject = "any" /\ UNCHANGED <<inputs, corrupt, tail, schedule>>
    BY <1>4 DEF SubjectCatches, RefundRaises, InvokeKeeps, scheduleVars, journalVars,
                Schedule!CatchLoss
  <2> QED
    BY <1>1, <2>1 DEF CaseInv, CorruptionStops, inputs
<1>5. CASE CorruptJournal
  <2>1. /\ corrupt = "due" /\ corrupt' = "done" /\ schedule = "observe_lost"
        /\ tail' = tail + 1 /\ tail \in Nat
        /\ UNCHANGED <<inputs, calls, result, lines, scheduleVars>>
    BY <1>5 DEF CorruptJournal, CorruptDue, Corrupt, ObserveKeeps, subjectVars, CaseInv,
                TrialInv, JournalInv, JournalTypeOK
  <2>2. CorruptionStops'
    BY <2>1 DEF CorruptionStops, scheduleVars
  <2>3. subject # "any" => OwnInv'
    BY <2>1 DEF CaseInv, OwnInv, OwnRefund, OwnKey, Receipt, scheduleVars, inputs,
                Schedule!Invoking
  <2> QED
    BY <1>1, <2>1, <2>2, <2>3 DEF CaseInv, inputs
<1> QED
  BY <1>1, <1>2, <1>3, <1>4, <1>5, CallPreserves, ProviderPreserves,
     CaseDeliveryPreserves, InvokeEndsPreserves, CaseObservationPreserves
     DEF Next, Harness, Invoking, Observer

(* From an empty baseline, a delta is all of the later observation.        *)
LEMMA DeltaFromNothing ==
    ASSUME NEW S, NEW events \in Seq(S)
    PROVE  Delta(<<>>, events) = events
BY DEF Delta

(* The retry contract contradicts every completed trial of the unsafe      *)
(* subject and none of the keyed one, the clean contract accepts what the  *)
(* first attempt alone did (_refund_comparison.py:230-297), and no corrupt *)
(* trial completes: for every payment, amount, key and size of a record.   *)
THEOREM SubjectsToldApart == Spec => []SubjectsAreToldApart
<1>1. ASSUME CaseInv, schedule = "completed", subject # "any"
      PROVE  /\ NoAdditionalRefundAfterRetry <=> subject = "keyed"
             /\ OneRefundMatchesRequest(baseline, afterLost, undelivered)
             /\ corrupt = "no"
  <2>1. /\ baseline = <<>> /\ afterLost = <<OwnRefund(1)>> /\ final = After
        /\ undelivered = Receipt(OwnRefund(1)) /\ subjectResult = OwnReceipt
        /\ subject \in {"unsafe", "keyed"} /\ corrupt = "no"
    BY <1>1 DEF CaseInv, TrialInv, CorruptionStops, OwnInv
  <2>2. OwnRefund(1) \in RefundEvent /\ OwnRefund(2) \in RefundEvent
    BY <1>1 DEF CaseInv, OwnRefund, OwnKey, RefundEvent
  <2>3. Refunded(<<>>) = 0 /\ Refunded(<<OwnRefund(1)>>) = amount
    <3>1. <<OwnRefund(1)>> = Append(<<>>, OwnRefund(1)) /\ <<>> \in Seq(RefundEvent)
      OBVIOUS
    <3>2. Refunded(<<OwnRefund(1)>>) = Refunded(<<>>) + OwnRefund(1).amount
      BY <2>2, <3>1, RefundedOfAppend
    <3>3. OwnRefund(1).amount = amount /\ amount \in Nat
      BY FileJournalAssumption, <1>1 DEF OwnRefund, CaseInv
    <3> QED
      BY <3>2, <3>3, RefundedOfNone
  <2>4. Delta(baseline, afterLost) = <<OwnRefund(1)>> /\ Delta(baseline, final) = After
    <3>1. <<OwnRefund(1)>> \in Seq(RefundEvent) /\ After \in Seq(RefundEvent)
      BY <2>2 DEF After
    <3> QED
      BY <2>1, <3>1, DeltaFromNothing
  <2>5. /\ OwnRefund(1).id = 1 /\ OwnRefund(1).amount = amount /\ amount \in Nat
        /\ Receipt(OwnRefund(1)) = [id |-> 1, amount |-> amount]
    BY FileJournalAssumption, <1>1 DEF OwnRefund, Receipt, CaseInv
  <2>6. OneRefundMatchesRequest(baseline, afterLost, undelivered)
    BY <2>1, <2>3, <2>4, <2>5 DEF OneRefundMatchesRequest
  <2>7. CASE subject = "keyed"
    <3>1. After = <<OwnRefund(1)>> /\ OwnReceipt = Receipt(OwnRefund(1))
      BY <2>7 DEF After, OwnReceipt, RefundsOnce
    <3>2. /\ Canonical(Delta(baseline, afterLost)) = Canonical(Delta(baseline, final))
          /\ Len(Delta(baseline, final)) = 1
          /\ Delta(baseline, final)[1].id = subjectResult.id
          /\ subjectResult.amount = amount
      BY <2>1, <2>4, <2>5, <3>1
    <3>3. /\ Refunded(afterLost) - Refunded(baseline) = amount
          /\ Refunded(final) - Refunded(baseline) = amount
      BY <2>1, <2>3, <2>5, <3>1
    <3>4. NoAdditionalRefundAfterRetry
      BY <3>2, <3>3, Zenon DEF NoAdditionalRefundAfterRetry
    <3> QED
      BY <2>1, <2>6, <2>7, <3>4
  <2>8. CASE subject = "unsafe"
    <3>1. Len(After) = 2
      BY <1>1, <2>8 DEF After, RefundsOnce
    <3>2. Len(Delta(baseline, final)) # 1
      BY <2>4, <3>1
    <3>3. ~NoAdditionalRefundAfterRetry
      BY <3>2, Zenon DEF NoAdditionalRefundAfterRetry
    <3> QED
      BY <2>1, <2>6, <2>8, <3>3
  <2> QED
    BY <2>1, <2>7, <2>8
<1>2. CaseInv => SubjectsAreToldApart
  BY <1>1 DEF SubjectsAreToldApart
<1> QED
  BY <1>2, CaseInvInit, CaseInvNext, PTL DEF Spec
=============================================================================
