---------------------------- MODULE MCResolution ----------------------------
(* Resolution for TLC: two dials of an agent that moves between endpoints. *)
EXTENDS Resolution
=============================================================================
