-------------------------- MODULE MCCommandExchange --------------------------
(***************************************************************************)
(* Two calls over two connections whose queues hold one message each.      *)
(***************************************************************************)
EXTENDS CommandExchange
=============================================================================
