---------------------------- MODULE RaftFastPath ----------------------------
(***************************************************************************)
(* RaftElection with the heartbeat fast path that NewRaft installs in the  *)
(* transport and NetworkTransport.handleCommand takes: appendEntries for a *)
(* heartbeat runs on the goroutine of the connection, beside the main      *)
(* goroutine, and shares with it only atomically read and written fields.  *)
(* hb is the heartbeat being handled and the next access it makes; one     *)
(* connection per server is enough for the races shown.                    *)
(***************************************************************************)
EXTENDS RaftElection

VARIABLE hb

NoHb == [at |-> "idle", term |-> 0, from |-> Nil]

fpVars == <<vars, hb>>

FPInit == Init /\ hb = [i \in Server |-> NoHb]

(* processHeartbeat: the tests on the term and the state. *)
HbTest(i, e) ==
    /\ hb[i].at = "idle" /\ e[2] # i /\ e[1] >= currentTerm[i]
    /\ hb' = [hb EXCEPT ![i] =
               [at |-> IF e[1] > currentTerm[i] \/ state[i] # "Follower" THEN "setState" ELSE "setLeader",
                term |-> e[1], from |-> e[2]]]
    /\ UNCHANGED vars

HbSetState(i) ==
    /\ hb[i].at = "setState"
    /\ setState(i, "Follower")
    /\ hb' = [hb EXCEPT ![i].at = "setTerm"]
    /\ UNCHANGED <<durable, pc, job, grantedVotes, net, faults>>

HbSetTerm(i) ==
    /\ hb[i].at = "setTerm"
    /\ currentTerm' = [currentTerm EXCEPT ![i] = hb[i].term]
    /\ hb' = [hb EXCEPT ![i].at = "setLeader"]
    /\ UNCHANGED <<lastVoteTerm, lastVoteCand, state, leader, pc, job, grantedVotes, net, faults>>

HbSetLeader(i) ==
    /\ hb[i].at = "setLeader"
    /\ leader' = [leader EXCEPT ![i] = hb[i].from]
    /\ hb' = [hb EXCEPT ![i] = NoHb]
    /\ UNCHANGED <<durable, state, pc, job, grantedVotes, net, faults>>

(* The main goroutine leaves its select, by a timer for one, and the loop  *)
(* finds the state changed under it.                                       *)
LoopExit(i) ==
    /\ pc[i] \in {"candidate", "leader"} /\ state[i] = "Follower"
    /\ Idle(i)
    /\ UNCHANGED <<durable, state, leader, net, faults, hb>>

(* A restart ends the connection's goroutine too. *)
FPNext ==
    \E i \in Server :
        \/ Main(i) /\ UNCHANGED hb
        \/ Restart(i) /\ hb' = [hb EXCEPT ![i] = NoHb]
        \/ \E e \in elections : HbTest(i, e)
        \/ LoopExit(i) \/ HbSetState(i) \/ HbSetTerm(i) \/ HbSetLeader(i)

FPSpec == FPInit /\ [][FPNext]_fpVars

(* NewRaft, on the fast path: "It MUST be safe for this to be called       *)
(* concurrently with a blocking RPC."  Safe means for the election what it *)
(* means without the fast path: at most one leader in a term.              *)
FastPathElectionSafety == ElectionSafety
=============================================================================
