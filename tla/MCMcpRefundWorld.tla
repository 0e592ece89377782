-------------------------- MODULE MCMcpRefundWorld --------------------------
(* McpRefundWorld for TLC: a payment of two, refunds of nothing, half of   *)
(* it (which may be repeated once), all of it, and more than it.           *)
EXTENDS McpRefundWorld

MCAmounts == 0..3
=============================================================================
