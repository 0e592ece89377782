-------------------------- MODULE ReportableTrial --------------------------
(***************************************************************************)
(* What a report requires of the evidence of one trial (_validate_pair and *)
(* its helpers, _mcp_reports.py), whoever recorded it: nothing is taken    *)
(* over from the kernel's verdicts, the histories, states, receipts,       *)
(* attempts and deliveries are checked against each other once more.       *)
(***************************************************************************)
EXTENDS Naturals, SequencesExt

CONSTANTS OpKey,  \* the registered operation key
          None    \* the key of an unkeyed refund

RecordedKey(mode) == IF mode = "keyed" THEN OpKey ELSE None

(* _validate_baseline *)
BaselineIsFresh(o) == o.history = <<>> /\ o.refunded = 0 /\ o.keys = 0

(* _validate_observed_refunds: count refunds as registered, and a state    *)
(* that agrees with them.                                                  *)
RefundsAreRegistered(o, count, mode, amount) ==
    /\ Len(o.history) = count
    /\ \A k \in 1..count : /\ o.history[k].amount = amount
                           /\ o.history[k].key = RecordedKey(mode)
    /\ IsInjective([k \in 1..count |-> o.history[k].id])
    /\ o.refunded = count * amount
    /\ o.keys = IF mode = "keyed" /\ count > 0 THEN 1 ELSE 0

(* _validate_receipt_matches_history *)
ReceiptMatches(receipt, o, k) ==
    receipt.id = o.history[k].id /\ receipt.amount = o.history[k].amount

(* _history_delta *)
Grows(from, to, by) ==
    IsPrefix(from.history, to.history) /\ Len(to.history) = Len(from.history) + by

(* _validate_pair, the clean trial.                                        *)
CleanTrialIsReportable(trial, mode, amount) ==
    /\ BaselineIsFresh(trial.baseline)
    /\ RefundsAreRegistered(trial.observed, 1, mode, amount)
    /\ ReceiptMatches(trial.result, trial.observed, 1)
    /\ Grows(trial.baseline, trial.observed, 1)

(* _validate_pair, the perturbed trial: the first result was lost where    *)
(* the schedule says, the second one was returned, and the keyed subject   *)
(* got the first refund again where the unsafe one made a second.          *)
PerturbedTrialIsReportable(trial, mode, amount) ==
    LET extra == IF mode = "keyed" THEN 0 ELSE 1
    IN  /\ BaselineIsFresh(trial.baseline)
        /\ RefundsAreRegistered(trial.afterLost, 1, mode, amount)
        /\ RefundsAreRegistered(trial.final, 1 + extra, mode, amount)
        /\ ReceiptMatches(trial.result, trial.final, 1 + extra)
        /\ Grows(trial.afterLost, trial.final, extra)
        /\ trial.injected = 1 /\ trial.reached = <<1, 2>>
        /\ ReceiptMatches(trial.undelivered, trial.afterLost, 1)
        /\ trial.deliveries = 2
        /\ trial.cleanup = "pass"
=============================================================================
