-------------------------- MODULE RaftReplication --------------------------
(***************************************************************************)
(* Log replication of package raft (src/raft/raft.go, replication.go) on a *)
(* fixed peer set.  A log is the sequence of the terms of its entries.     *)
(* A leader has one replicator goroutine per peer, with one AppendEntries  *)
(* call outstanding, which may be handled after the leader has stepped     *)
(* down.  The answer is dealt with in the step that handles the request:   *)
(* until then the replicator waits, and a leader that has stepped down in  *)
(* the meantime is one for which the answer is lost.  Elections are those  *)
(* of module RaftElection with a handler as one step, and with the         *)
(* comparison of the logs.  inflight is its count of acknowledgements per  *)
(* index; module Inflight has its steps.                                   *)
(*                                                                         *)
(* Calls get lost and servers restart.  What else may go wrong is in       *)
(* module RaftReplicationFaults: here replicate reads the last index and   *)
(* the commit index for a call together, a call given up is never handled, *)
(* log stores do not fail, and the two writes of persistVote are one.      *)
(***************************************************************************)
EXTENDS Integers, Sequences, FiniteSets

CONSTANTS Server,       \* the cluster
          Nil,          \* no leader known, no candidate voted for
          Linger,       \* whether replicators call on after their leader steps down
          MaxAppend,    \* conf.MaxAppendEntries
          MaxTerm,      \* bound: no timer starts an election at this term
          MaxElections, \* bound: elections in a behaviour
          MaxLog,       \* bound: length of a log
          MaxRestarts,  \* bound: restarts in a behaviour
          MaxLosses,    \* bound: calls that fail in a behaviour
          MaxCalls      \* bound: calls outstanding at a time

ASSUME ReplicationAssumption ==
    /\ IsFiniteSet(Server) /\ Server # {} /\ Nil \notin Server
    /\ Linger \in BOOLEAN
    /\ MaxAppend \in Nat \ {0} /\ MaxTerm \in Nat /\ MaxElections \in Nat /\ MaxLog \in Nat
    /\ MaxRestarts \in Nat /\ MaxLosses \in Nat /\ MaxCalls \in Nat

VARIABLES
    currentTerm, lastVoteTerm, lastVoteCand,   \* the stable store
    log,            \* the log store
    state, leader,  \* raftState.state, Raft.leader
    commitIndex,    \* raftState.commitIndex, what the FSM has been given
    votes,          \* voters of the candidate's current election
    reqs,           \* RequestVote requests sent
    startIndex,     \* last index when the leadership began
    count,          \* inflight: acknowledgements of an index
    replTerm,       \* followerReplication.currentTerm, 0 without replicators
    nextIndex,      \* followerReplication.nextIndex
    rpc,            \* the call the replicator of a peer waits for, or Idle
    chosen,         \* <<index, term, leader's term>> of the entries committed
    restarts, losses

stable == <<currentTerm, lastVoteTerm, lastVoteCand>>
lead == <<startIndex, count, replTerm, nextIndex>>
bounds == <<restarts, losses>>
vars == <<stable, log, state, leader, commitIndex, votes, reqs, lead, rpc, chosen, bounds>>

Peers(i) == Server \ {i}
quorumSize(i) == (Cardinality(Peers(i)) + 1) \div 2 + 1
LastTerm(l) == IF l = <<>> THEN 0 ELSE l[Len(l)]

Idle == [at |-> "idle"]
Request == [at : {"req"}, term : 1 .. MaxTerm, prev : 0 .. MaxLog, prevTerm : 0 .. MaxTerm,
            entries : UNION {[1 .. n -> 1 .. MaxTerm] : n \in 0 .. MaxLog}, commit : 0 .. MaxLog]

NoCount == [k \in 1 .. MaxLog |-> 0]
Everyone(n) == [j \in Server |-> n]

Init ==
    /\ currentTerm = [i \in Server |-> 0] /\ lastVoteTerm = [i \in Server |-> 0]
    /\ lastVoteCand = [i \in Server |-> Nil]
    /\ log = [i \in Server |-> <<>>]
    /\ state = [i \in Server |-> "Follower"] /\ leader = [i \in Server |-> Nil]
    /\ commitIndex = [i \in Server |-> 0]
    /\ votes = [i \in Server |-> {}] /\ reqs = {}
    /\ startIndex = [i \in Server |-> 0] /\ count = [i \in Server |-> NoCount]
    /\ replTerm = [i \in Server |-> 0]
    /\ nextIndex = [i \in Server |-> Everyone(1)]
    /\ rpc = [i \in Server |-> Everyone(Idle)]
    /\ chosen = {}
    /\ restarts = 0 /\ losses = 0

-----------------------------------------------------------------------------
setState(i, st) ==
    /\ state' = [state EXCEPT ![i] = st]
    /\ leader' = [leader EXCEPT ![i] = Nil]

(* Nothing of a leadership is left. *)
Stopped(i) ==
    /\ startIndex' = [startIndex EXCEPT ![i] = 0] /\ count' = [count EXCEPT ![i] = NoCount]
    /\ replTerm' = [replTerm EXCEPT ![i] = 0]
    /\ nextIndex' = [nextIndex EXCEPT ![i] = Everyone(1)]

(* The cleanup of runLeader, a stutter for a server that was not leading:  *)
(* the tracker is dropped and the replicators are told to stop.            *)
Cleanup(i) == IF Linger THEN UNCHANGED lead ELSE Stopped(i)

(* Back to runFollower. *)
ToFollower(i) ==
    /\ setState(i, "Follower")
    /\ votes' = [votes EXCEPT ![i] = {}]
    /\ Cleanup(i)

(* The heartbeat timer of a follower or the election timer of a candidate: *)
(* electSelf takes a new term, asks the peers and votes for itself.        *)
ElectSelf(i) ==
    LET t == currentTerm[i] + 1
    IN  /\ state[i] # "Leader" /\ t <= MaxTerm /\ Cardinality(reqs) < MaxElections
        /\ setState(i, "Candidate")
        /\ currentTerm' = [currentTerm EXCEPT ![i] = t]
        /\ lastVoteTerm' = [lastVoteTerm EXCEPT ![i] = t]
        /\ lastVoteCand' = [lastVoteCand EXCEPT ![i] = i]
        /\ votes' = [votes EXCEPT ![i] = {i}]
        /\ reqs' = reqs \cup {[term |-> t, cand |-> i, lastIdx |-> Len(log[i]), lastTerm |-> LastTerm(log[i])]}
        /\ UNCHANGED <<log, commitIndex, lead, rpc, chosen, bounds>>

(* requestVote, the early returns. *)
Considers(i, m) ==
    /\ m.cand # i /\ leader[i] \in {Nil, m.cand} /\ m.term >= currentTerm[i]

Voted(i, m) == lastVoteTerm[i] = m.term /\ lastVoteCand[i] # Nil



(* requestVote: the candidate's last entry is not older than ours. *)
UpToDate(i, m) ==
    \/ m.lastTerm > LastTerm(log[i])
    \/ m.lastTerm = LastTerm(log[i]) /\ m.lastIdx >= Len(log[i])

(* requestVote: a newer term makes a follower; a vote that is given        *)
(* reaches its candidate if that is still in the same election.            *)
AnswerVote(i, m, granted) ==
    LET given == IF granted /\ state[m.cand] = "Candidate" /\ currentTerm[m.cand] = m.term
                 THEN [votes EXCEPT ![m.cand] = @ \cup {i}] ELSE votes
    IN  /\ currentTerm' = [currentTerm EXCEPT ![i] = m.term]
        /\ IF m.term > currentTerm[i]
           THEN setState(i, "Follower") /\ votes' = [given EXCEPT ![i] = {}] /\ Cleanup(i)
           ELSE votes' = given /\ UNCHANGED <<state, leader, lead>>
        /\ UNCHANGED <<log, commitIndex, reqs, rpc, chosen, bounds>>

(* The vote on disk is repeated to its candidate. *)
RepeatVote(i, m) ==
    /\ Considers(i, m) /\ Voted(i, m) /\ lastVoteCand[i] = m.cand
    /\ AnswerVote(i, m, TRUE)
    /\ UNCHANGED <<lastVoteTerm, lastVoteCand>>

(* No vote, but a newer term stays. *)
DenyVote(i, m) ==
    /\ Considers(i, m)
    /\ IF Voted(i, m) THEN lastVoteCand[i] # m.cand ELSE ~UpToDate(i, m)
    /\ AnswerVote(i, m, FALSE)
    /\ UNCHANGED <<lastVoteTerm, lastVoteCand>>

(* A first vote in the term, persisted before it is given. *)
GrantVote(i, m) ==
    /\ Considers(i, m) /\ ~Voted(i, m) /\ UpToDate(i, m)
    /\ AnswerVote(i, m, TRUE)
    /\ lastVoteTerm' = [lastVoteTerm EXCEPT ![i] = m.term]
    /\ lastVoteCand' = [lastVoteCand EXCEPT ![i] = m.cand]

(* runCandidate: a refusal tells of a newer term. *)
RefusedByNewer(i, j) ==
    /\ state[i] = "Candidate" /\ currentTerm[j] > currentTerm[i]
    /\ ToFollower(i)
    /\ currentTerm' = [currentTerm EXCEPT ![i] = currentTerm[j]]
    /\ UNCHANGED <<lastVoteTerm, lastVoteCand, log, commitIndex, reqs, rpc, chosen, bounds>>

-----------------------------------------------------------------------------
(* dispatchLogs: one more entry of the leader's term, on its own disk and  *)
(* counted once.                                                           *)
Store(i, counted) ==
    /\ Len(log[i]) < MaxLog
    /\ log' = [log EXCEPT ![i] = Append(@, currentTerm[i])]
    /\ count' = [count EXCEPT ![i] = [counted EXCEPT ![Len(log[i]) + 1] = 1]]

(* runCandidate has a quorum and runLeader sets up its state, starts the   *)
(* replicators and dispatches its no-op.                                   *)
BecomeLeader(i) ==
    /\ state[i] = "Candidate" /\ Cardinality(votes[i]) >= quorumSize(i)
    /\ state' = [state EXCEPT ![i] = "Leader"] /\ leader' = [leader EXCEPT ![i] = i]
    /\ votes' = [votes EXCEPT ![i] = {}]
    /\ startIndex' = [startIndex EXCEPT ![i] = Len(log[i])]
    /\ Store(i, NoCount)
    /\ replTerm' = [replTerm EXCEPT ![i] = currentTerm[i]]
    /\ nextIndex' = [nextIndex EXCEPT ![i] = Everyone(Len(log[i]) + 1)]
    /\ rpc' = [rpc EXCEPT ![i] = Everyone(Idle)]
    /\ UNCHANGED <<stable, commitIndex, reqs, chosen, bounds>>

(* leaderLoop takes an Apply. *)
Dispatch(i) ==
    /\ state[i] = "Leader"
    /\ Store(i, count[i])
    /\ UNCHANGED <<stable, state, leader, commitIndex, votes, reqs, startIndex, replTerm, nextIndex, rpc,
                   chosen, bounds>>

Chosen(k, t) == \E c \in chosen : c[1] = k /\ c[2] = t

(* leaderLoop takes the entries the tracker has committed, in order, up to *)
(* index k: commit index, then processLogs.                                *)
Commit(i, k) ==
    /\ state[i] = "Leader"
    /\ k > startIndex[i] /\ k > commitIndex[i] /\ k <= Len(log[i])
    /\ \A n \in startIndex[i] + 1 .. k : count[i][n] >= quorumSize(i)
    /\ commitIndex' = [commitIndex EXCEPT ![i] = k]
    /\ chosen' = chosen \cup {<<n, log[i][n], currentTerm[i]>> :
                              n \in {m \in 1 .. k : ~Chosen(m, log[i][m])}}
    /\ UNCHANGED <<stable, log, state, leader, votes, reqs, lead, rpc, bounds>>

(* checkLeaderLease, or another reason for leaderLoop to give up. *)
StepDown(i) ==
    /\ state[i] = "Leader"
    /\ ToFollower(i)
    /\ UNCHANGED <<stable, log, commitIndex, reqs, rpc, chosen, bounds>>

-----------------------------------------------------------------------------
(* setupAppendEntries: the entries from nextIndex to last, at most         *)
(* MaxAppend of them, after the one before them.                           *)
setupAppendEntries(i, j, last) ==
    LET next == nextIndex[i][j]
        end == IF next + MaxAppend - 1 < last THEN next + MaxAppend - 1 ELSE last
    IN  [at |-> "req", term |-> replTerm[i], prev |-> next - 1,
         prevTerm |-> IF next = 1 THEN 0 ELSE log[i][next - 1],
         entries |-> SubSeq(log[i], next, end), commit |-> commitIndex[i]]

Outstanding == {c \in Server \X Server : rpc[c[1]][c[2]].at = "req"}

(* replicateTo makes the call, unless a log it needs is gone. *)
SendUpTo(i, j, last) ==
    /\ replTerm[i] # 0 /\ rpc[i][j] = Idle /\ Cardinality(Outstanding) < MaxCalls
    /\ nextIndex[i][j] - 1 <= Len(log[i]) /\ last <= Len(log[i])
    /\ rpc' = [rpc EXCEPT ![i][j] = setupAppendEntries(i, j, last)]
    /\ UNCHANGED <<stable, log, state, leader, commitIndex, votes, reqs, lead, chosen, bounds>>

(* replicate calls replicateTo with the last index of the log. *)
Send(i, j) == SendUpTo(i, j, Len(log[i]))

(* appendEntries, the tests: an older term, and the previous entry. *)
Outdated(j, q) == q.term < currentTerm[j]

(* Mutant of PrevMatches: the term of the previous entry is not compared. *)
PrevMatchesIndex(j, q) == q.prev <= Len(log[j])

PrevMatches(j, q) == q.prev > 0 => q.prev <= Len(log[j]) /\ log[j][q.prev] = q.prevTerm

(* appendEntries: the suffix from the first new entry on is deleted, and   *)
(* the entries appended.                                                   *)
NewLog(j, q) ==
    IF q.entries = <<>> THEN log[j] ELSE SubSeq(log[j], 1, q.prev) \o q.entries

(* Mutant of NewCommit: everything in the log is taken as committed. *)
NewCommitAll(j, q) == IF q.commit > commitIndex[j] THEN Len(NewLog(j, q)) ELSE commitIndex[j]

(* Mutant of NewCommit: the commit index may be beyond the log. *)
NewCommitBeyond(j, q) == IF q.commit > commitIndex[j] THEN q.commit ELSE commitIndex[j]

(* appendEntries: the leader's commit index, as far as the log goes. *)
NewCommit(j, q) ==
    LET last == Len(NewLog(j, q))
    IN  IF q.commit > commitIndex[j] THEN IF q.commit < last THEN q.commit ELSE last
                                     ELSE commitIndex[j]

(* appendEntries on server j of a request of server i that is not outdated. *)
AppendEntries(i, j, q) ==
    /\ ~Outdated(j, q)
    /\ currentTerm' = [currentTerm EXCEPT ![j] = q.term]
    /\ state' = [state EXCEPT ![j] = "Follower"]
    /\ leader' = [leader EXCEPT ![j] = i]
    /\ votes' = [votes EXCEPT ![j] = {}]
    /\ IF PrevMatches(j, q)
       THEN /\ log' = [log EXCEPT ![j] = NewLog(j, q)]
            /\ commitIndex' = [commitIndex EXCEPT ![j] = NewCommit(j, q)]
       ELSE UNCHANGED <<log, commitIndex>>
    /\ UNCHANGED <<lastVoteTerm, lastVoteCand, reqs, chosen, restarts>>

(* The leadership of server j, if any, is over; the replicator of server i *)
(* goes on with next.                                                      *)
Continue(i, j, next, acks) ==
    LET waits == replTerm[i] = rpc[i][j].term
    IN  /\ startIndex' = IF Linger THEN startIndex ELSE [startIndex EXCEPT ![j] = 0]
        /\ replTerm' = IF Linger THEN replTerm ELSE [replTerm EXCEPT ![j] = 0]
        /\ nextIndex' = [nextIndex EXCEPT ![j] = IF Linger THEN @ ELSE Everyone(1),
                                          ![i][j] = IF waits THEN next ELSE @]
        /\ count' = [count EXCEPT ![j] = IF Linger THEN @ ELSE NoCount,
                                  ![i] = IF waits /\ state[i] = "Leader" THEN acks ELSE @]
        /\ rpc' = [rpc EXCEPT ![i][j] = Idle]


(* updateLastAppended: CommitRange counts the entries tracked. *)
Acknowledged(i, q) ==
    [k \in 1 .. MaxLog |->
        IF startIndex[i] < k /\ commitIndex[i] < k /\ q.prev < k /\ k <= q.prev + Len(q.entries)
        THEN count[i][k] + 1 ELSE count[i][k]]

(* replicateTo: go back after a rejection. *)
Back(i, j) ==
    LET back == IF nextIndex[i][j] - 1 < Len(log[j]) + 1 THEN nextIndex[i][j] - 1 ELSE Len(log[j]) + 1
    IN  IF back < 1 THEN 1 ELSE back

(* Server j handles the call, and the replicator the answer. *)
Accept(i, j) ==
    LET q == rpc[i][j]
    IN  /\ q.at = "req" /\ PrevMatches(j, q)
        /\ AppendEntries(i, j, q)
        /\ Continue(i, j, q.prev + Len(q.entries) + 1, Acknowledged(i, q))
        /\ UNCHANGED losses

Reject(i, j) ==
    LET q == rpc[i][j]
    IN  /\ q.at = "req" /\ ~PrevMatches(j, q)
        /\ AppendEntries(i, j, q)
        /\ Continue(i, j, Back(i, j), count[i])
        /\ UNCHANGED losses

(* Server j is in a newer term: handleStaleTerm makes the leader step down. *)
StaleTerm(i, j) ==
    LET q == rpc[i][j]
    IN  /\ q.at = "req" /\ Outdated(j, q)
        /\ rpc' = [rpc EXCEPT ![i][j] = Idle]
        /\ IF state[i] = "Leader" /\ replTerm[i] = q.term
           THEN ToFollower(i) ELSE UNCHANGED <<state, leader, votes, lead>>
        /\ UNCHANGED <<stable, log, commitIndex, reqs, chosen, bounds>>

(* The call is handled and the answer lost. *)
LoseAnswer(i, j) ==
    /\ rpc[i][j].at = "req" /\ losses < MaxLosses
    /\ losses' = losses + 1
    /\ AppendEntries(i, j, rpc[i][j])
    /\ Continue(i, j, nextIndex[i][j], count[i])

(* The call fails before it is handled. *)
LoseCall(i, j) ==
    /\ rpc[i][j].at = "req" /\ losses < MaxLosses
    /\ losses' = losses + 1
    /\ rpc' = [rpc EXCEPT ![i][j] = Idle]
    /\ UNCHANGED <<stable, log, state, leader, commitIndex, votes, reqs, lead, chosen, restarts>>

(* heartbeat: a call with no entries and no indexes, beside the replicator. *)
Heartbeat(i, j) ==
    /\ replTerm[i] # 0
    /\ AppendEntries(i, j, [term |-> replTerm[i], prev |-> 0, entries |-> <<>>, commit |-> 0])
    /\ Cleanup(j)
    /\ UNCHANGED <<rpc, losses>>

(* The replicators of a leader that has stepped down see stopCh closed. *)
StopReplication(i) ==
    /\ Linger
    /\ state[i] # "Leader" /\ replTerm[i] # 0
    /\ Stopped(i)
    /\ UNCHANGED <<stable, log, state, leader, commitIndex, votes, reqs, rpc, chosen, bounds>>

-----------------------------------------------------------------------------

(* What a restart leaves: the stable store and the log. *)
Volatile(i) ==
    /\ restarts < MaxRestarts
    /\ restarts' = restarts + 1
    /\ setState(i, "Follower")
    /\ votes' = [votes EXCEPT ![i] = {}]
    /\ Stopped(i)
    /\ commitIndex' = [commitIndex EXCEPT ![i] = 0]
    /\ rpc' = [rpc EXCEPT ![i] = Everyone(Idle)]
    /\ UNCHANGED <<log, reqs, chosen, losses>>

(* A server stops and NewRaft starts it again. *)
Restart(i) == Volatile(i) /\ UNCHANGED stable

(* Everything but the start of a leadership. *)
Other ==
    \E i \in Server :
        \/ ElectSelf(i) \/ Dispatch(i) \/ StepDown(i) \/ StopReplication(i) \/ Restart(i)
        \/ \E m \in reqs : RepeatVote(i, m) \/ DenyVote(i, m) \/ GrantVote(i, m)
        \/ \E k \in 1 .. MaxLog : Commit(i, k)
        \/ \E j \in Peers(i) :
            \/ RefusedByNewer(i, j) \/ Send(i, j) \/ Heartbeat(i, j)
            \/ Accept(i, j) \/ Reject(i, j) \/ StaleTerm(i, j)
            \/ LoseAnswer(i, j) \/ LoseCall(i, j)

Next == Other \/ \E i \in Server : BecomeLeader(i)

Spec == Init /\ [][Next]_vars

-----------------------------------------------------------------------------
(* Every variable has its type, and no commit index is beyond its log. *)
TypeOK ==
    /\ currentTerm \in [Server -> 0 .. MaxTerm] /\ lastVoteTerm \in [Server -> 0 .. MaxTerm]
    /\ lastVoteCand \in [Server -> Server \cup {Nil}]
    /\ \A i \in Server : log[i] \in Seq(1 .. MaxTerm) /\ commitIndex[i] <= Len(log[i])
    /\ \A i \in Server : Len(log[i]) <= MaxLog
    /\ state \in [Server -> {"Follower", "Candidate", "Leader"}]
    /\ leader \in [Server -> Server \cup {Nil}]
    /\ commitIndex \in [Server -> 0 .. MaxLog] /\ startIndex \in [Server -> 0 .. MaxLog]
    /\ votes \in [Server -> SUBSET Server]
    /\ count \in [Server -> [1 .. MaxLog -> Nat]]
    /\ replTerm \in [Server -> 0 .. MaxTerm]
    /\ nextIndex \in [Server -> [Server -> 1 .. MaxLog + 1]]
    /\ \A i, j \in Server : rpc[i][j] \in Request \cup {Idle}
    /\ chosen \subseteq (1 .. MaxLog) \X (1 .. MaxTerm) \X (1 .. MaxTerm)

Holds(i, c) == c[1] <= Len(log[i]) /\ log[i][c[1]] = c[2]

(* appendEntries: logs that agree on an entry agree on all before it. *)
LogMatching ==
    \A i, j \in Server : \A k \in 1 .. Len(log[i]) :
        k <= Len(log[j]) /\ log[i][k] = log[j][k]
            => \A n \in 1 .. k : log[i][n] = log[j][n]

(* Apply, "in a highly consistent manner": what a leader has committed is  *)
(* in the log of every leader of a later term, whatever restarts happen.   *)
LeaderCompleteness ==
    \A i \in Server : state[i] = "Leader" =>
        \A c \in chosen : c[3] <= currentTerm[i] => Holds(i, c)

(* processLogs: what a server has handed to its FSM is an entry that a     *)
(* leader has committed, and no other is ever committed at that index.     *)
AppliedChosen ==
    /\ \A i \in Server : \A k \in 1 .. commitIndex[i] : Chosen(k, log[i][k])
    /\ \A c, d \in chosen : c[1] = d[1] => c[2] = d[2]


KeepsMatching ==
    \A i \in Server : \A k \in 1 .. Len(log[i]) :
        ~(k <= Len(log'[i]) /\ log'[i][k] = log[i][k])
            => \E n \in 1 .. k : n <= Len(log'[i]) /\ log'[i][n] # log[i][n]


CommittedKept ==
    \A i \in Server : commitIndex'[i] >= commitIndex[i] =>
        \A k \in 1 .. commitIndex[i] : k <= Len(log'[i]) /\ log'[i][k] = log[i][k]

=============================================================================
