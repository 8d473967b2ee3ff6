--------------------------- MODULE MCAttachSession ---------------------------
(* Instances of AttachSession for TLC. *)
EXTENDS AttachSession, TLC

CONSTANTS r1, r2, a1, u1

Symmetric == Permutations(Keys)
OneUser == [c \in Calls |-> u1]
=============================================================================
