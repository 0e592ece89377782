-------------------------- MODULE FileRefundWorld --------------------------
(***************************************************************************)
(* The world of one perturbed trial of the file-journal refund case        *)
(* (_file_refund_comparison.py): a temporary directory with a journal, the *)
(* schedule of LostResult, a subject that calls the provider of            *)
(* FileJournal, and the observer.  Beside the two subjects of the case the *)
(* provider also gets "any" subject: one that calls it with commands of    *)
(* its own choice, as the tests do, catches its errors or the loss, and    *)
(* goes on.                                                                *)
(***************************************************************************)
EXTENDS FileJournal

CONSTANT CallBound  \* bound on the calls of refund() in one trial

(* That of LostResult, of its worlds and results here.                     *)
ASSUME FileRefundAssumption ==
    /\ CallBound \in Nat
    /\ None \notin Seq(RefundEvent) \cup RefundReceipt \cup {1, 2}

VARIABLES
    subject,          \* who calls refund()
    amount, key,      \* the input of the case, the same in every trial
    corrupt,          \* corrupt_journal_trials: "no", "due" or "done"
    world,            \* how far provisioning and cleanup have come
    directory,        \* "absent", "empty", or with its "journal"
    calls,            \* how often refund() was called, and in this attempt
    result,           \* what deliver_result returned to the subject
    schedule, signal, held, reached, injected, undelivered,  \* of LostResult
    baseline, afterLost, final, subjectResult

inputs == <<subject, amount, key>>
lifecycleVars == <<world, directory>>
subjectVars == <<calls, result>>
scheduleVars == <<schedule, signal, held, reached, injected, undelivered,
                  baseline, afterLost, final, subjectResult>>
vars == <<inputs, corrupt, lifecycleVars, subjectVars, journalVars, scheduleVars>>

Schedule == INSTANCE LostResult WITH
    World <- Seq(RefundEvent), Result <- RefundReceipt, CrossingBound <- CallBound

TypeOK ==
    /\ JournalTypeOK
    /\ subject \in {"unsafe", "keyed", "any"} /\ amount \in Amounts /\ key \in Keys
    /\ corrupt \in {"no", "due", "done"}
    /\ world \in {"provisioning", "open", "closing", "closed"}
    /\ directory \in {"absent", "empty", "journal"}
    /\ calls \in [total: 0..CallBound, attempt: 0..CallBound]
    /\ result \in RefundReceipt \cup {None}
    /\ Schedule!TypeOK

Init ==
    /\ JournalInit
    /\ subject \in {"unsafe", "keyed", "any"} /\ amount \in Amounts /\ key \in Keys
    /\ corrupt \in {"no", "due"}
    /\ world = "provisioning" /\ directory = "absent"
    /\ calls = [total |-> 0, attempt |-> 0] /\ result = None
    /\ Schedule!InitController /\ baseline = None

-----------------------------------------------------------------------------
(* provision(): the directory, and its journal created exclusively.        *)

ProvisionKeeps == UNCHANGED <<inputs, corrupt, subjectVars, journalVars, scheduleVars>>

MakeDirectory ==
    /\ world = "provisioning" /\ directory = "absent"
    /\ directory' = "empty" /\ UNCHANGED world
    /\ ProvisionKeeps

InitializeJournal ==
    /\ world = "provisioning" /\ directory = "empty"
    /\ directory' = "journal" /\ world' = "open"
    /\ ProvisionKeeps

ProvisionFails ==
    /\ world = "provisioning"
    /\ world' = "closing" /\ UNCHANGED directory
    /\ ProvisionKeeps

-----------------------------------------------------------------------------
(* invoke(): the subject and the provider.                                 *)

InvokeKeeps == UNCHANGED <<inputs, corrupt, lifecycleVars>>

InInvoke == world = "open" /\ Schedule!Invoking /\ signal = "none"

(* Slip: the keyed subject does not hand on the key it was given.          *)
CommandsWithoutKey(s) ==
    {c \in RefundCommand :
        s # "any" => /\ calls.attempt = 0
                     /\ c.payment = "controlled" /\ c.amount = amount /\ c.key = None}

(* The commands a subject may give the provider: its input with or without *)
(* the key, once in an attempt; "any" subject gives what it likes.         *)
CommandsOf(s) ==
    {c \in RefundCommand :
        s # "any" => /\ calls.attempt = 0
                     /\ c.payment = "controlled" /\ c.amount = amount
                     /\ c.key = IF s = "keyed" THEN key ELSE None}

CallProvider ==
    /\ InInvoke /\ calls.total < CallBound
    /\ \E c \in CommandsOf(subject) : Call(c)
    /\ calls' = [total |-> calls.total + 1, attempt |-> calls.attempt + 1]
    /\ UNCHANGED <<result, scheduleVars>> /\ InvokeKeeps

ProviderSteps ==
    /\ StartAppend \/ (\E n \in 1..RecordSize : Write(n)) \/ Sync
    /\ UNCHANGED <<subjectVars, scheduleVars>> /\ InvokeKeeps

ProviderDelivers ==
    \E receipt \in Answers :
        /\ DeliverReceipt(receipt)
        /\ Schedule!Deliver(Schedule!CurrentAttempt, receipt)
        /\ result' = receipt
        /\ UNCHANGED calls /\ InvokeKeeps

ProviderRaises ==
    /\ RefundRaises
    /\ Schedule!SubjectRaises
    /\ UNCHANGED subjectVars /\ InvokeKeeps

(* Only "any" subject handles what refund() or deliver_result raised.      *)
SubjectCatches ==
    /\ subject = "any"
    /\ \/ RefundRaises /\ UNCHANGED scheduleVars
       \/ Schedule!CatchLoss /\ UNCHANGED journalVars
    /\ UNCHANGED subjectVars /\ InvokeKeeps

InvokeEnds ==
    /\ world = "open" /\ call = "none" /\ result # None
    /\ \/ Schedule!LossPropagates
       \/ Schedule!SecondReturns(result)
       \/ Schedule!FirstReturns
    /\ calls' = [calls EXCEPT !.attempt = 0] /\ result' = None
    /\ UNCHANGED journalVars /\ InvokeKeeps

(* "any" subject gives up after errors of its own.                         *)
SubjectGivesUp ==
    /\ InInvoke /\ subject = "any" /\ call = "none"
    /\ Schedule!SubjectRaises
    /\ UNCHANGED <<subjectVars, journalVars>> /\ InvokeKeeps

-----------------------------------------------------------------------------
(* observe(): the second one of a corrupt trial finds a torn record.       *)

Observing == world = "open" /\ schedule \in {"baseline", "observe_lost", "observe_final"}

ObserveKeeps == UNCHANGED <<inputs, lifecycleVars, subjectVars>>

CorruptDue == corrupt = "due" /\ schedule = "observe_lost"

CorruptJournal ==
    /\ Observing /\ CorruptDue
    /\ corrupt' = "done"
    /\ Corrupt
    /\ UNCHANGED scheduleVars /\ ObserveKeeps

(* Slip: the observer shows the records that precede a torn one.           *)
ObserveRecords ==
    /\ Observing /\ ~CorruptDue
    /\ call = "none" /\ ReadableLines
    /\ observed' = lines
    /\ UNCHANGED <<lines, tail, call, command, pending, delivered>>
    /\ \/ baseline' = lines /\ Schedule!RecordBaseline
       \/ afterLost' = lines /\ Schedule!ObserveLost
       \/ final' = lines /\ Schedule!ObserveFinal
    /\ UNCHANGED corrupt /\ ObserveKeeps

Observe ==
    /\ Observing /\ ~CorruptDue
    /\ ObserveJournal
    /\ \/ baseline' = lines /\ Schedule!RecordBaseline
       \/ afterLost' = lines /\ Schedule!ObserveLost
       \/ final' = lines /\ Schedule!ObserveFinal
    /\ UNCHANGED corrupt /\ ObserveKeeps

ObserverRaises ==
    /\ Observing /\ ~CorruptDue
    /\ Schedule!ObserverRaises
    /\ UNCHANGED <<corrupt, journalVars>> /\ ObserveKeeps

Interrupt ==
    /\ world = "open"
    /\ Schedule!Interrupt
    /\ IF call = "none" THEN UNCHANGED journalVars ELSE RefundRaises
    /\ UNCHANGED <<corrupt, subjectVars>> /\ UNCHANGED <<inputs, lifecycleVars>>

-----------------------------------------------------------------------------
(* cleanup(), after the trial or after a provisioning that failed.         *)

CleanupKeeps == UNCHANGED <<inputs, corrupt, subjectVars, journalVars, scheduleVars>>

LeaveWorld ==
    /\ world = "open" /\ schedule \in Schedule!Outcomes
    /\ world' = "closing" /\ UNCHANGED directory
    /\ CleanupKeeps

(* Slip: only a world that was provisioned is cleaned up.                  *)
RemoveProvisionedDirectory ==
    /\ world = "closing" /\ directory = "journal"
    /\ world' = "closed" /\ directory' \in {"absent", directory}
    /\ CleanupKeeps

(* directory.cleanup(), which may raise and leave the directory.           *)
RemoveDirectory ==
    /\ world = "closing"
    /\ world' = "closed" /\ directory' \in {"absent", directory}
    /\ CleanupKeeps

Provisioning == MakeDirectory \/ InitializeJournal \/ ProvisionFails
Invoking == \/ CallProvider \/ ProviderSteps \/ ProviderDelivers \/ ProviderRaises
            \/ SubjectCatches \/ InvokeEnds \/ SubjectGivesUp
Observer == CorruptJournal \/ Observe \/ ObserverRaises
Cleanup == LeaveWorld \/ RemoveDirectory

Harness == Provisioning \/ Invoking \/ Observer \/ Cleanup

Next == Harness \/ Interrupt

Spec == Init /\ [][Next]_vars

(* Everything here is one thread of Python, which takes its next statement.*)
FairSpec == Spec /\ WF_vars(Harness)

-----------------------------------------------------------------------------
(* No step of a trial does to the journal what its provider and observer   *)
(* may not: what holds of them for any caller holds in every trial.        *)
KeepsJournal == JournalSpec

Named(receipt, events) == \E k \in DOMAIN events : Receipt(events[k]) = receipt

(* The observer's three reads make one story with the receipts, whatever   *)
(* the subject does and wherever an append is torn: the world was fresh,   *)
(* nothing observed is lost again, and what was delivered before an        *)
(* observation, the dropped receipt included, has its refund in it.        *)
ObservationsFollowReceipts ==
    /\ baseline # None => baseline = <<>>
    /\ afterLost # None => /\ IsPrefix(baseline, afterLost)
                           /\ Named(undelivered, afterLost)
    /\ final # None => /\ IsPrefix(afterLost, final)
                       /\ \A receipt \in delivered : Named(receipt, final)

(* _one_refund_matches_request and _no_additional_refund_after_retry, the  *)
(* clean trial of the same subject being the first attempt.                *)
Delta(from, to) == SubSeq(to, Len(from) + 1, Len(to))

Canonical(events) == [k \in DOMAIN events |-> <<events[k].amount, events[k].key>>]

OneRefundMatchesRequest(from, to, receipt) ==
    LET delta == Delta(from, to)
    IN  /\ Len(delta) = 1
        /\ Receipt(delta[1]) = receipt
        /\ receipt.amount = amount
        /\ Refunded(to) - Refunded(from) = amount

NoAdditionalRefundAfterRetry ==
    LET perturbed == Delta(baseline, final)
    IN  /\ Canonical(Delta(baseline, afterLost)) = Canonical(perturbed)
        /\ Refunded(afterLost) - Refunded(baseline) = amount
        /\ Refunded(final) - Refunded(baseline) = amount
        /\ Len(perturbed) = 1
        /\ perturbed[1].id = subjectResult.id
        /\ subjectResult.amount = amount

(* A trial that completes has contradicted the unsafe subject and not the  *)
(* keyed one, and compared with one clean refund; torn appends, a journal  *)
(* that is corrupt and refusals end it otherwise, and never as a verdict.  *)
SubjectsAreToldApart ==
    schedule = "completed" /\ subject # "any" =>
        /\ NoAdditionalRefundAfterRetry <=> subject = "keyed"
        /\ OneRefundMatchesRequest(baseline, afterLost, undelivered)
        /\ corrupt = "no"

(* Every world is closed, however the trial in it ended.                   *)
WorldIsClosed == <>(world = "closed")
=============================================================================
