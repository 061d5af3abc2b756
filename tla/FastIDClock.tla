---------------------------- MODULE FastIDClock ----------------------------
(***************************************************************************)
(* FastID on a wall clock that is set back: getCurrentTimestamp uses       *)
(* UnixNano, which follows every adjustment of the system's time.          *)
(***************************************************************************)
EXTENDS FastID

(* The system's time is set back. *)
SetBack(g) ==
    /\ clock[g] > 0
    /\ clock' = [clock EXCEPT ![g] = @ - 1]
    /\ UNCHANGED <<lastID, pc, local, now, issued, repeated>>

ClockSpec == Init /\ [][Next \/ \E g \in Gen : SetBack(g)]_vars
=============================================================================
