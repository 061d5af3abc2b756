------------------------------ MODULE MCFastID ------------------------------
(* Two nodes with the ids 1 and 6 in a machine field of two bits: the      *)
(* second is masked.                                                       *)
EXTENDS FastIDClock

CONSTANTS g1, g2

MCId == [g \in Gen |-> IF g = g1 THEN 1 ELSE 6]
=============================================================================
