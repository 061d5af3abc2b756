----------------------------- MODULE MCFastPath -----------------------------
(* Small instances of RaftFastPath for TLC. *)
EXTENDS RaftFastPath, TLC

Symmetry == Permutations(Server)
=============================================================================
