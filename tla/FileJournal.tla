---------------------------- MODULE FileJournal ----------------------------
(***************************************************************************)
(* The refund provider and the observer that share one JSON-lines journal  *)
(* (_file_refund_comparison.py), for any caller: refund() reads the whole  *)
(* journal strictly, looks the key up in it, and appends one record with   *)
(* as many writes as the system takes, any of which may be the last one    *)
(* before an error or an interrupt.  A caller may catch what refund()      *)
(* raises and call it again.                                               *)
(*                                                                         *)
(* The file is its complete lines and the length of an unfinished one; a   *)
(* record is RecordSize pieces long, which a write takes some of.          *)
(***************************************************************************)
EXTENDS Naturals, SequencesExt

CONSTANTS Payment,     \* _PAYMENT_MINOR_UNITS
          Amounts,     \* amounts a command may ask to refund
          Keys,        \* operation keys
          None,        \* no key, and no receipt
          RecordSize,  \* pieces a write may split a record into
          MaxSize      \* _MAX_JOURNAL_BYTES, in the same pieces

RefundCommand == [payment: {"controlled", "missing"}, amount: Amounts, key: Keys \cup {None}]

ASSUME FileJournalAssumption ==
    /\ Payment \in Nat /\ Amounts \subseteq Nat
    /\ None \notin Keys \cup RefundCommand
    /\ RecordSize \in Nat \ {0} /\ MaxSize \in Nat

VARIABLES
    lines,      \* the complete lines of the file
    tail,       \* the length of what follows the last newline
    call,       \* the statement refund() stands at, "none" outside of it
    command,    \* its arguments
    pending,    \* the length of `view`, what is left to write
    delivered,  \* the receipts handed to deliver_result
    observed    \* the history the observer read last

journalVars == <<lines, tail, call, command, pending, delivered, observed>>

RefundEvent == [id: Nat \ {0}, amount: Amounts, key: Keys \cup {None}]
RefundReceipt == [id: Nat \ {0}, amount: Amounts]

(* A line that is no record: what a record appended to a torn one makes.   *)
Garbage == [id |-> 0, amount |-> 0, key |-> None]

JournalTypeOK ==
    /\ lines \in Seq(RefundEvent \cup {Garbage})
    /\ tail \in Nat
    /\ call \in {"none", "read", "append", "deliver"}
    /\ command \in RefundCommand \cup {None}
    /\ call # "none" => command # None
    /\ pending \in 0..RecordSize
    /\ delivered \in SUBSET RefundReceipt
    /\ observed \in Seq(RefundEvent)

JournalInit ==
    /\ lines = <<>> /\ tail = 0
    /\ call = "none" /\ command = None /\ pending = 0
    /\ delivered = {} /\ observed = <<>>

-----------------------------------------------------------------------------
(* read_file_refund_journal: all of the journal, or an error.              *)

(* The minor units that a history refunds, and their number.               *)
Units(events) == UNION {{k} \X (1..events[k].amount) : k \in DOMAIN events}

Refunded(events) == Cardinality(Units(events))

(* _decode_event *)
Decodes(line, ordinal) == line # Garbage /\ line.id = ordinal /\ line.amount > 0

KeysAreUnique(events) ==
    \A j, k \in DOMAIN events :
        events[j].key # None /\ events[j].key = events[k].key => j = k

History(events) ==
    /\ \A k \in DOMAIN events : Decodes(events[k], k)
    /\ Refunded(events) <= Payment
    /\ KeysAreUnique(events)

Size == Len(lines) * RecordSize + tail

(* Slip: what follows the last newline is dropped as not yet written.      *)
ReadableLines == Size <= MaxSize /\ History(lines)

Readable == Size <= MaxSize /\ tail = 0 /\ History(lines)

-----------------------------------------------------------------------------
(* FileRefundProvider.refund.                                              *)

Receipt(event) == [id |-> event.id, amount |-> event.amount]

Call(c) ==
    /\ call = "none"
    /\ call' = "read" /\ command' = c
    /\ UNCHANGED <<lines, tail, pending, delivered, observed>>

Stored == {k \in DOMAIN lines : command.key # None /\ lines[k].key = command.key}

(* Slip: the limit is that of the single refund.                           *)
WithinPayment == command.amount > 0 /\ command.amount <= Payment

Acceptable ==
    /\ command.amount > 0
    /\ Refunded(lines) + command.amount <= Payment

(* Slip: the operation key is not looked up.                               *)
StartAppendUnkeyed ==
    /\ call = "read" /\ Readable /\ command.payment = "controlled" /\ Acceptable
    /\ call' = "append" /\ pending' = RecordSize
    /\ UNCHANGED <<lines, tail, command, delivered, observed>>

StartAppend ==
    /\ call = "read" /\ Readable
    /\ command.payment = "controlled"
    /\ Stored = {}
    /\ Acceptable
    /\ call' = "append" /\ pending' = RecordSize
    /\ UNCHANGED <<lines, tail, command, delivered, observed>>

NewEvent(ordinal) == [id |-> ordinal, amount |-> command.amount, key |-> command.key]

(* os.write takes n of what is left.                                       *)
Write(n) ==
    /\ call = "append" /\ n \in 1..pending
    /\ pending' = pending - n
    /\ IF n < pending
       THEN tail' = tail + n /\ UNCHANGED lines
       ELSE /\ tail' = 0
            /\ lines' = Append(lines, IF tail + n = RecordSize
                                      THEN NewEvent(Len(lines) + 1) ELSE Garbage)
    /\ UNCHANGED <<call, command, delivered, observed>>

(* Slip: an error of a write is swallowed, and on to the receipt.          *)
SyncAnything ==
    /\ call = "append"
    /\ call' = "deliver" /\ pending' = 0
    /\ UNCHANGED <<lines, tail, command, delivered, observed>>

(* The record is written, synced and closed.                               *)
Sync ==
    /\ call = "append" /\ pending = 0
    /\ call' = "deliver"
    /\ UNCHANGED <<lines, tail, command, pending, delivered, observed>>

(* What refund() may hand to deliver_result: the receipt of the record it  *)
(* appended, or of the stored one that bears its key.                      *)
Answers ==
    IF call = "deliver" THEN {Receipt(NewEvent(Len(lines)))}
    ELSE IF call = "read" /\ Readable /\ command.payment = "controlled"
    THEN {Receipt(lines[k]) : k \in Stored}
    ELSE {}

DeliverReceipt(receipt) ==
    /\ receipt \in Answers
    /\ call' = "none"
    /\ delivered' = delivered \cup {receipt}
    /\ UNCHANGED <<lines, tail, command, pending, observed>>

(* The journal is refused, the command is, a system call fails or makes no *)
(* progress, or an interrupt arrives: the file stays as it is.             *)
RefundRaises ==
    /\ call # "none"
    /\ call' = "none" /\ pending' = 0
    /\ UNCHANGED <<lines, tail, command, delivered, observed>>

-----------------------------------------------------------------------------
(* FileRefundObserver.observe, and the fixture's half-written record.      *)

ObserveJournal ==
    /\ call = "none" /\ Readable
    /\ observed' = lines
    /\ UNCHANGED <<lines, tail, call, command, pending, delivered>>

Corrupt ==
    /\ call = "none"
    /\ tail' = tail + 1
    /\ UNCHANGED <<lines, call, command, pending, delivered, observed>>

JournalNext ==
    \/ \E c \in RefundCommand : Call(c)
    \/ StartAppend \/ \E n \in 1..RecordSize : Write(n)
    \/ Sync \/ \E receipt \in Answers : DeliverReceipt(receipt)
    \/ RefundRaises
    \/ ObserveJournal \/ Corrupt

JournalSpec == JournalInit /\ [][JournalNext]_journalVars

-----------------------------------------------------------------------------
(* An append that was torn, and one that outgrew the size bound, stop the  *)
(* journal for good: no later call drops the torn record, appends to it,   *)
(* answers from what precedes it or shows that to the observer, however    *)
(* often the caller tries again.                                           *)
UnreadableIsFinal ==
    [][call # "append" /\ (tail > 0 \/ Size > MaxSize) =>
           /\ UNCHANGED <<lines, observed>>
           /\ delivered' # delivered => call = "deliver" /\ tail = 0]_journalVars

(* The strict reader refuses nothing the provider wrote whole: what its    *)
(* writes and their failures leave is refused for a torn tail or its size  *)
(* only, never for an identity, an amount, a key or the payment's limit.   *)
WholeJournalIsReadable == History(lines)

(* The journal keeps the promise of the ledger, its newlines being the     *)
(* commits: also a refund whose fsync failed, and which was reported as an *)
(* error, is committed, and its key is answered from it.                   *)
Ledger == INSTANCE RefundLedger WITH
    Key <- Keys, Amount <- Amounts, history <- lines, received <- delivered

KeepsLedger == Ledger!Spec
=============================================================================
