--------------------------- MODULE MCControlPlane ---------------------------
(***************************************************************************)
(* ControlPlane for TLC: three connections of one robot, so that a         *)
(* connection can be replaced while the one before it is still leaving.    *)
(***************************************************************************)
EXTENDS ControlPlane
=============================================================================
