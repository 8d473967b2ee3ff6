-------------------------- MODULE MCWebRtcConnect --------------------------
(***************************************************************************)
(* WebRtcConnect for TLC: two TURN hosts, so that replies with two URLs    *)
(* can name one host twice or two; a candidate channel that can be full;   *)
(* an answer and two more messages of the CLI; timeouts unset, zero, too   *)
(* short, good and too long.                                               *)
(***************************************************************************)
EXTENDS WebRtcConnect
=============================================================================
