---------------------------- MODULE MCSignaling ----------------------------
(***************************************************************************)
(* Signaling with a few peers.  Clients c1 and c2 come from one address    *)
(* with their own bootstrap ids; the agent shares neither.                 *)
(***************************************************************************)
EXTENDS Signaling

CONSTANTS c1, c2, a1

MCBoot == [p \in {c1, c2, a1} |-> p]
MCSource == [p \in {c1, c2, a1} |-> IF p \in {c1, c2} THEN "home" ELSE p]
=============================================================================
