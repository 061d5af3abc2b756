----------------------- MODULE RaftReplicationFaults -----------------------
(***************************************************************************)
(* RaftReplication with what its environment may do besides.  Faults says  *)
(* which of it:                                                            *)
(*   "limit"  the log grows between replicate reading its last index and   *)
(*            setupAppendEntries reading the commit index;                 *)
(*   "store"  the follower's log store returns an error;                   *)
(*   "torn"   a server stops between the two writes of persistVote.        *)
(***************************************************************************)
EXTENDS RaftReplication

CONSTANT Faults     \* a subset of {"limit", "store", "torn"}

VARIABLE limit      \* replicateTo's parameter lastIndex for the next call

allVars == <<vars, limit>>

InitFaults == Init /\ limit = [i \in Server |-> Everyone(0)]

(* startReplication precedes the no-op: the replicators may read the last  *)
(* index before that is stored.                                            *)
BecomeLeaderAfter(i) ==
    /\ BecomeLeader(i)
    /\ limit' = [limit EXCEPT ![i] = Everyone(Len(log[i]))]

(* replicate reads the last index for its next call. *)
ReadLast(i, j) ==
    /\ "limit" \in Faults
    /\ replTerm[i] # 0 /\ rpc[i][j] = Idle
    /\ limit' = [limit EXCEPT ![i][j] = Len(log[i])]
    /\ UNCHANGED vars

(* replicateTo, after backing off, calls with the last index read before. *)
SendStale(i, j) ==
    /\ "limit" \in Faults
    /\ SendUpTo(i, j, limit[i][j])
    /\ UNCHANGED limit

(* DeleteRange fails, or StoreLogs when there was nothing to delete: the   *)
(* log is as before and the answer is no.                                  *)
StoreError(i, j) ==
    LET q == rpc[i][j]
    IN  /\ "store" \in Faults /\ losses < MaxLosses
        /\ losses' = losses + 1
        /\ q # Idle /\ PrevMatches(j, q) /\ q.entries # <<>>
        /\ AppendEntries(i, j, [q EXCEPT !.entries = <<>>, !.commit = 0])
        /\ Continue(i, j, Back(i, j), count[i])
        /\ UNCHANGED limit

(* requestVote gets as far as the first write of persistVote. *)
RestartTorn(i, m) ==
    /\ "torn" \in Faults
    /\ Considers(i, m) /\ ~Voted(i, m) /\ UpToDate(i, m)
    /\ currentTerm' = [currentTerm EXCEPT ![i] = m.term]
    /\ lastVoteTerm' = [lastVoteTerm EXCEPT ![i] = m.term]
    /\ Volatile(i)
    /\ UNCHANGED <<lastVoteCand, limit>>

NextFaults ==
    \/ Other /\ UNCHANGED limit
    \/ \E i \in Server :
        \/ BecomeLeaderAfter(i)
        \/ \E m \in reqs : RestartTorn(i, m)
        \/ \E j \in Peers(i) : ReadLast(i, j) \/ SendStale(i, j) \/ StoreError(i, j)

SpecFaults == InitFaults /\ [][NextFaults]_allVars
=============================================================================
