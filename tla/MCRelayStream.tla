--------------------------- MODULE MCRelayStream ---------------------------
(***************************************************************************)
(* RelayStream with channels of a few slots, so that they fill.            *)
(***************************************************************************)
EXTENDS RelayStream
=============================================================================
