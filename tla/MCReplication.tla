--------------------------- MODULE MCReplication ---------------------------
(* Three interchangeable servers. *)
EXTENDS RaftReplication, TLC

Symmetry == Permutations(Server)
=============================================================================
