---------------------------- MODULE MCStreamTable ----------------------------
(* Instances of StreamTable for TLC. *)
EXTENDS StreamTable, TLC

Symmetry == Permutations(Addrs) \union Permutations(Dials)
            \union Permutations(Inbounds) \union Permutations(Clients)
=============================================================================
