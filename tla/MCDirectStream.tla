--------------------------- MODULE MCDirectStream ---------------------------
(* An instance of DirectStream for TLC: how much each agent sends. *)
EXTENDS DirectStream

ThreeAndOne == [i |-> 3, r |-> 1]
=============================================================================
