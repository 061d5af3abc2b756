------------------------ MODULE MCReplicationFaults ------------------------
(* Three interchangeable servers. *)
EXTENDS RaftReplicationFaults, TLC

Symmetry == Permutations(Server)
=============================================================================
