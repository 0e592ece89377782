---------------------------- MODULE RefundLedger ----------------------------
(***************************************************************************)
(* What a refund provider promises, in the form its in-memory fixture has  *)
(* (FakeRefundProvider, _refund_comparison.py): a refund is committed to   *)
(* an append-only history, a keyed refund at most once, and every receipt  *)
(* handed to the caller names a committed refund.  A receipt may get lost  *)
(* on its way and an answer may be sent again.                             *)
(***************************************************************************)
EXTENDS Naturals, Sequences

CONSTANTS Key,     \* operation keys
          Amount,  \* amounts a refund may have
          None     \* the key of an unkeyed refund

VARIABLES history,   \* the committed refunds, in order
          received   \* the receipts handed to the caller

vars == <<history, received>>

Refund == [id: Nat, amount: Amount, key: Key \cup {None}]

Receipt(refund) == [id |-> refund.id, amount |-> refund.amount]

Committed == {history[k] : k \in DOMAIN history}

Init == history = <<>> /\ received = {}

Commit(amount, key) ==
    /\ key = None \/ \A refund \in Committed : refund.key # key
    /\ history' = Append(history,
                         [id |-> Len(history) + 1, amount |-> amount, key |-> key])
    /\ UNCHANGED received

Deliver(refund) ==
    /\ received' = received \cup {Receipt(refund)}
    /\ UNCHANGED history

Next == \/ \E amount \in Amount, key \in Key \cup {None} : Commit(amount, key)
        \/ \E refund \in Committed : Deliver(refund)

Spec == Init /\ [][Next]_vars
=============================================================================
