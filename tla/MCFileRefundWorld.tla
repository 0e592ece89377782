------------------------- MODULE MCFileRefundWorld -------------------------
(* FileRefundWorld for TLC: a payment of three, refunds of nothing, one    *)
(* and two, records that one or two writes append, and a size bound that   *)
(* the third record exceeds.                                               *)
EXTENDS FileRefundWorld

MCAmounts == 0..2
=============================================================================
