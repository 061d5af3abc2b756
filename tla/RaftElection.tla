---------------------------- MODULE RaftElection ----------------------------
(***************************************************************************)
(* Leader election of package raft (src/raft/raft.go) on a fixed peer set. *)
(* Each server has one main goroutine (run, runFollower, runCandidate,     *)
(* runLeader); pc says where it stands.  A handler that runs on it is one  *)
(* step, cut where a crash may fall between two writes to the stable store *)
(* that matter to each other.  Here every request reaches the main         *)
(* goroutine; module RaftFastPath adds the heartbeats that do not.         *)
(*                                                                         *)
(* Logs are left to module RaftReplication: the up-to-date test of         *)
(* requestVote has an arbitrary outcome here, so what holds here holds     *)
(* whatever the logs are.                                                  *)
(***************************************************************************)
EXTENDS Integers, FiniteSets

CONSTANTS Server,      \* the cluster: every server and its peers
          Nil,         \* no leader known, no candidate voted for
          MaxTerm,     \* bound: no timer starts an election at this term
          MaxFaults    \* bound: restarts and failed writes in a behaviour

ASSUME ServerAssumption == IsFiniteSet(Server) /\ Server # {} /\ Nil \notin Server
ASSUME BoundAssumption == MaxTerm \in Nat /\ MaxFaults \in Nat

VARIABLES
    currentTerm,    \* keyCurrentTerm, durable (cached in raftState)
    lastVoteTerm,   \* keyLastVoteTerm, durable
    lastVoteCand,   \* keyLastVoteCand, durable
    state,          \* raftState.state
    leader,         \* Raft.leader
    pc,             \* where the main goroutine stands
    job,            \* the term and candidate the main goroutine works on
    grantedVotes,   \* voters counted by runCandidate
    reqs,           \* RequestVote requests sent; may be handled late, twice or never
    grants,         \* every vote granted, own votes included
    newer,          \* refusals that carry a newer term than the request's
    elections,      \* leaderships started; their AppendEntries are in flight
    stale,          \* leaderships told of a newer term by some follower
    faults          \* restarts and failed writes so far

durable == <<currentTerm, lastVoteTerm, lastVoteCand>>
net == <<reqs, grants, newer, elections, stale>>
vars == <<durable, state, leader, pc, job, grantedVotes, net, faults>>

Peers(i) == Server \ {i}

(* Mutant of quorumSize: half of the cluster is enough. *)
quorumSizeOfHalf(i) == (Cardinality(Peers(i)) + 1) \div 2

(* quorumSize: r.peers excludes the server itself. *)
quorumSize(i) == (Cardinality(Peers(i)) + 1) \div 2 + 1

(* The selects of the three sub-FSMs, and the two writes of persistVote. *)
Selecting == {"follower", "candidate", "leader"}
Locations == Selecting \cup {"voteTerm", "voteCand"}

Vote(t, v, c) == [term |-> t, voter |-> v, cand |-> c]

Refusal(t, c, rt) == [term |-> t, cand |-> c, respTerm |-> rt]

NoJob == [term |-> 0, cand |-> Nil]

Init ==
    /\ currentTerm = [i \in Server |-> 0]
    /\ lastVoteTerm = [i \in Server |-> 0]
    /\ lastVoteCand = [i \in Server |-> Nil]
    /\ state = [i \in Server |-> "Follower"]
    /\ leader = [i \in Server |-> Nil]
    /\ pc = [i \in Server |-> "follower"]
    /\ job = [i \in Server |-> NoJob]
    /\ grantedVotes = [i \in Server |-> {}]
    /\ reqs = {} /\ grants = {} /\ newer = {} /\ elections = {} /\ stale = {}
    /\ faults = 0

-----------------------------------------------------------------------------
(* Mutant of setState: the known leader is kept. *)
setStateKeepLeader(i, st) ==
    /\ state' = [state EXCEPT ![i] = st]
    /\ UNCHANGED leader

(* setState clears the known leader on every transition. *)
setState(i, st) ==
    /\ state' = [state EXCEPT ![i] = st]
    /\ leader' = [leader EXCEPT ![i] = Nil]

(* Back in runFollower: the locals of the function left are gone. *)
Idle(i) ==
    /\ pc' = [pc EXCEPT ![i] = "follower"]
    /\ job' = [job EXCEPT ![i] = NoJob]
    /\ grantedVotes' = [grantedVotes EXCEPT ![i] = {}]

(* After a handler the loops of runCandidate and leaderLoop test the       *)
(* state; a server that is a follower by now goes back to run.             *)
Loop(i) == IF state'[i] = "Follower" THEN Idle(i) ELSE UNCHANGED <<pc, job, grantedVotes>>

(* A leader or a candidate falls back: run enters runFollower. *)
ToFollower(i) == setState(i, "Follower") /\ Idle(i)

(* electSelf: increment the term durably, ask the peers, and only then go  *)
(* on to persist the own vote.                                             *)
ElectSelf(i) ==
    LET t == currentTerm[i] + 1
    IN  /\ currentTerm' = [currentTerm EXCEPT ![i] = t]
        /\ job' = [job EXCEPT ![i] = [term |-> t, cand |-> i]]
        /\ reqs' = reqs \cup {[term |-> t, cand |-> i]}
        /\ grantedVotes' = [grantedVotes EXCEPT ![i] = {}]
        /\ pc' = [pc EXCEPT ![i] = "voteTerm"]
        /\ UNCHANGED <<lastVoteTerm, lastVoteCand, grants, newer, elections, stale, faults>>

(* runFollower, heartbeat timer without recent contact. *)
HeartbeatTimeout(i) ==
    /\ pc[i] = "follower" /\ currentTerm[i] < MaxTerm
    /\ setState(i, "Candidate")
    /\ ElectSelf(i)

(* runCandidate, election timer: return with the state still Candidate and *)
(* start over.                                                             *)
ElectionTimeout(i) ==
    /\ pc[i] = "candidate" /\ state[i] = "Candidate" /\ currentTerm[i] < MaxTerm
    /\ UNCHANGED <<state, leader>>
    /\ ElectSelf(i)

(* persistVote makes two writes.  electSelf and requestVote both call it.  *)
PersistVoteTerm(i) ==
    /\ pc[i] = "voteTerm"
    /\ lastVoteTerm' = [lastVoteTerm EXCEPT ![i] = job[i].term]
    /\ pc' = [pc EXCEPT ![i] = "voteCand"]
    /\ UNCHANGED <<currentTerm, lastVoteCand, state, leader, job, grantedVotes, net, faults>>

(* Back in the select.  A candidate whose electSelf failed has no vote     *)
(* channel: its job is NoJob and it waits for the election timer.          *)
Resume(i, j) ==
    IF state[i] = "Candidate"
    THEN /\ pc' = [pc EXCEPT ![i] = "candidate"]
         /\ job' = [job EXCEPT ![i] = j]
         /\ UNCHANGED grantedVotes
    ELSE Idle(i)

(* The second write, then the answer: the own vote goes to the vote        *)
(* channel of a new tally, another candidate's vote to that candidate.     *)
PersistVoteCand(i) ==
    /\ pc[i] = "voteCand"
    /\ lastVoteCand' = [lastVoteCand EXCEPT ![i] = job[i].cand]
    /\ grants' = grants \cup {Vote(job[i].term, i, job[i].cand)}
    /\ Resume(i, IF job[i].cand = i THEN job[i] ELSE NoJob)
    /\ UNCHANGED <<currentTerm, lastVoteTerm, state, leader, reqs, newer, elections, stale, faults>>

(* Either write fails: no vote is given. *)
PersistVoteFail(i) ==
    /\ pc[i] \in {"voteTerm", "voteCand"}
    /\ faults < MaxFaults
    /\ faults' = faults + 1
    /\ Resume(i, NoJob)
    /\ UNCHANGED <<durable, state, leader, net>>

-----------------------------------------------------------------------------
(* requestVote, the early returns: another leader is known, or the term is *)
(* older than ours.  A refusal matters to runCandidate only when it        *)
(* carries a newer term.                                                   *)
RefuseVote(i, m) ==
    /\ pc[i] \in Selecting /\ m.cand # i
    /\ leader[i] \notin {Nil, m.cand} \/ m.term < currentTerm[i]
    /\ newer' = IF m.term < currentTerm[i]
                THEN newer \cup {Refusal(m.term, m.cand, currentTerm[i])}
                ELSE newer
    /\ UNCHANGED <<durable, state, leader, reqs, grants, elections, stale, faults>>
    /\ Loop(i)

(* requestVote past the early returns: a newer term is adopted. *)
AdoptTerm(i, m) ==
    /\ pc[i] \in Selecting /\ m.cand # i
    /\ leader[i] \in {Nil, m.cand} /\ m.term >= currentTerm[i]
    /\ currentTerm' = [currentTerm EXCEPT ![i] = m.term]
    /\ IF m.term > currentTerm[i] THEN setState(i, "Follower") ELSE UNCHANGED <<state, leader>>
    /\ UNCHANGED <<lastVoteTerm, lastVoteCand, reqs, newer, elections, stale, faults>>

Voted(i, t) == lastVoteTerm[i] = t /\ lastVoteCand[i] # Nil

(* A vote already on disk for this term is given again to its candidate. *)
RepeatVote(i, m) ==
    /\ AdoptTerm(i, m)
    /\ Voted(i, m.term) /\ lastVoteCand[i] = m.cand
    /\ grants' = grants \cup {Vote(m.term, i, m.cand)}
    /\ Loop(i)

(* Voted for another, or the candidate's log is behind. *)
DenyVote(i, m) ==
    /\ AdoptTerm(i, m)
    /\ ~(Voted(i, m.term) /\ lastVoteCand[i] = m.cand)
    /\ UNCHANGED grants
    /\ Loop(i)

(* Mutant of BeginVote: the vote on disk is not looked at. *)
BeginVoteAgain(i, m) ==
    /\ AdoptTerm(i, m)
    /\ job' = [job EXCEPT ![i] = [term |-> m.term, cand |-> m.cand]]
    /\ pc' = [pc EXCEPT ![i] = "voteTerm"]
    /\ grantedVotes' = [grantedVotes EXCEPT ![i] = {}]
    /\ UNCHANGED grants

(* Mutant of BeginVote: the vote is persisted without its candidate. *)
BeginVoteNoCand(i, m) ==
    /\ AdoptTerm(i, m)
    /\ ~Voted(i, m.term)
    /\ job' = [job EXCEPT ![i].term = m.term]
    /\ pc' = [pc EXCEPT ![i] = "voteTerm"]
    /\ grantedVotes' = [grantedVotes EXCEPT ![i] = {}]
    /\ UNCHANGED grants

(* Not voted yet and the candidate's log will do: go on to persistVote. *)
BeginVote(i, m) ==
    /\ AdoptTerm(i, m)
    /\ ~Voted(i, m.term)
    /\ job' = [job EXCEPT ![i] = [term |-> m.term, cand |-> m.cand]]
    /\ pc' = [pc EXCEPT ![i] = "voteTerm"]
    /\ grantedVotes' = [grantedVotes EXCEPT ![i] = {}]
    /\ UNCHANGED grants

(* The terms of the responses in the vote channel of this election.  A     *)
(* failed call puts a refusal with the request's own term there, which     *)
(* changes nothing.                                                        *)
VoteTerms(i) ==
    {m.respTerm : m \in {n \in newer : [term |-> n.term, cand |-> n.cand] = job[i]}} \cup
    {m.term : m \in {n \in grants : [term |-> n.term, cand |-> n.cand] = job[i]}}

(* runCandidate takes a response of a newer term and bails. *)
VoteOfNewerTerm(i, t) ==
    /\ pc[i] = "candidate" /\ t > currentTerm[i]
    /\ ToFollower(i)
    /\ currentTerm' = [currentTerm EXCEPT ![i] = t]
    /\ UNCHANGED <<lastVoteTerm, lastVoteCand, net, faults>>

(* runCandidate takes a vote it has not counted yet. *)
Countable(i, m) ==
    /\ pc[i] = "candidate" /\ m.cand = i /\ job[i] = [term |-> m.term, cand |-> i]
    /\ m.term <= currentTerm[i] /\ m.voter \notin grantedVotes[i]

Votes(i, m) == grantedVotes[i] \cup {m.voter}

(* The vote does not make a quorum: wait on, if still a candidate. *)
CountVote(i, m) ==
    /\ Countable(i, m) /\ Cardinality(Votes(i, m)) < quorumSize(i)
    /\ IF state[i] = "Candidate"
       THEN grantedVotes' = [grantedVotes EXCEPT ![i] = Votes(i, m)] /\ UNCHANGED <<pc, job>>
       ELSE Idle(i)
    /\ UNCHANGED <<durable, state, leader, net, faults>>

(* The vote makes a quorum: runLeader starts replicating with the term it  *)
(* reads then.                                                             *)
BecomeLeader(i, m) ==
    /\ Countable(i, m) /\ Cardinality(Votes(i, m)) >= quorumSize(i)
    /\ state' = [state EXCEPT ![i] = "Leader"]
    /\ leader' = [leader EXCEPT ![i] = i]
    /\ pc' = [pc EXCEPT ![i] = "leader"]
    /\ job' = [job EXCEPT ![i] = [term |-> currentTerm[i], cand |-> i]]
    /\ grantedVotes' = [grantedVotes EXCEPT ![i] = {}]
    /\ elections' = elections \cup {<<currentTerm[i], i>>}
    /\ UNCHANGED <<durable, reqs, grants, newer, stale, faults>>

(* runCandidate, SetPeers with the same peer set: become a follower again. *)
SetPeers(i) ==
    /\ pc[i] = "candidate"
    /\ ToFollower(i)
    /\ UNCHANGED <<durable, net, faults>>

-----------------------------------------------------------------------------
(* Mutant of AppendEntries: an older term is taken over too. *)
AppendEntriesAnyTerm(i, e) ==
    /\ pc[i] \in Selecting /\ e \in elections /\ e[2] # i
    /\ state' = [state EXCEPT ![i] = "Follower"]
    /\ currentTerm' = [currentTerm EXCEPT ![i] = e[1]]
    /\ leader' = [leader EXCEPT ![i] = e[2]]
    /\ UNCHANGED <<lastVoteTerm, lastVoteCand, reqs, grants, newer, elections, stale, faults>>
    /\ Loop(i)

(* Mutant of AppendEntries: the refusal does not carry the newer term. *)
AppendEntriesMute(i, e) ==
    /\ pc[i] \in Selecting /\ e \in elections /\ e[2] # i
    /\ e[1] >= currentTerm[i]
    /\ state' = [state EXCEPT ![i] = "Follower"]
    /\ currentTerm' = [currentTerm EXCEPT ![i] = e[1]]
    /\ leader' = [leader EXCEPT ![i] = e[2]]
    /\ UNCHANGED <<lastVoteTerm, lastVoteCand, reqs, grants, newer, elections, stale, faults>>
    /\ Loop(i)

(* appendEntries on the main goroutine, up to the log checks; e is one of  *)
(* the requests of a leadership.  The answer to an old term tells its      *)
(* leader of the newer one.                                                *)
AppendEntries(i, e) ==
    /\ pc[i] \in Selecting /\ e \in elections /\ e[2] # i
    /\ \/ /\ e[1] < currentTerm[i]
          /\ stale' = stale \cup {e}
          /\ UNCHANGED <<currentTerm, state, leader>>
       \/ /\ e[1] >= currentTerm[i]
          /\ state' = [state EXCEPT ![i] = "Follower"]
          /\ currentTerm' = [currentTerm EXCEPT ![i] = e[1]]
          /\ leader' = [leader EXCEPT ![i] = e[2]]
          /\ UNCHANGED stale
    /\ UNCHANGED <<lastVoteTerm, lastVoteCand, reqs, grants, newer, elections, faults>>
    /\ Loop(i)

(* handleStaleTerm signals stepDown; leaderLoop takes the signal. *)
StepDown(i) ==
    /\ pc[i] = "leader" /\ <<job[i].term, i>> \in stale
    /\ ToFollower(i)
    /\ UNCHANGED <<durable, net, faults>>

(* checkLeaderLease found fewer than a quorum contacted in time; a failed  *)
(* StoreLogs in dispatchLogs and a lost verification do the same.          *)
CheckLeaderLease(i) ==
    /\ pc[i] = "leader"
    /\ ToFollower(i)
    /\ UNCHANGED <<durable, net, faults>>

(* The process stops at any point and NewRaft starts again from the stable *)
(* store, as a follower with no known leader.                              *)
Restart(i) ==
    /\ faults < MaxFaults
    /\ faults' = faults + 1
    /\ ToFollower(i)
    /\ UNCHANGED <<durable, net>>

Main(i) ==
    \/ HeartbeatTimeout(i) \/ ElectionTimeout(i)
    \/ PersistVoteTerm(i) \/ PersistVoteCand(i) \/ PersistVoteFail(i)
    \/ \E m \in reqs : RefuseVote(i, m) \/ RepeatVote(i, m) \/ DenyVote(i, m) \/ BeginVote(i, m)
    \/ \E t \in VoteTerms(i) : VoteOfNewerTerm(i, t)
    \/ \E m \in grants : CountVote(i, m) \/ BecomeLeader(i, m)
    \/ SetPeers(i)
    \/ \E e \in elections : AppendEntries(i, e)
    \/ StepDown(i) \/ CheckLeaderLease(i)

Next == \E i \in Server : Main(i) \/ Restart(i)

Spec == Init /\ [][Next]_vars

(* What the scheduling of the code gives for one leadership: the main      *)
(* goroutine runs, replicate() calls again and again until it is told to   *)
(* stop, the follower's main goroutine takes the request, and leaderLoop   *)
(* takes the stepDown signal.                                              *)
Fairness ==
    \A i \in Server :
        /\ WF_vars(PersistVoteTerm(i) \/ PersistVoteCand(i))
        /\ WF_vars(StepDown(i))
        /\ \A t \in 1..MaxTerm, l \in Server : WF_vars(AppendEntries(i, <<t, l>>))

FairSpec == Spec /\ Fairness

-----------------------------------------------------------------------------
(* Every variable has its type. *)
TypeOK ==
    /\ currentTerm \in [Server -> Nat]
    /\ lastVoteTerm \in [Server -> Nat]
    /\ lastVoteCand \in [Server -> Server \cup {Nil}]
    /\ state \in [Server -> {"Follower", "Candidate", "Leader"}]
    /\ leader \in [Server -> Server \cup {Nil}]
    /\ pc \in [Server -> Locations]
    /\ job \in [Server -> [term : Nat, cand : Server \cup {Nil}]]
    /\ grantedVotes \in [Server -> SUBSET Server]
    /\ reqs \subseteq [term : Nat, cand : Server]
    /\ grants \subseteq [term : Nat, voter : Server, cand : Server]
    /\ newer \subseteq [term : Nat, cand : Server, respTerm : Nat]
    /\ elections \subseteq Nat \X Server
    /\ stale \subseteq elections
    /\ faults \in Nat

(* requestVote and electSelf: over all restarts, also one between the two  *)
(* writes of persistVote, a server grants its vote to at most one          *)
(* candidate in a term.                                                    *)
VoteOnce ==
    \A m, n \in grants : m.voter = n.voter /\ m.term = n.term => m.cand = n.cand

(* runCandidate to runLeader: at most one server ever leads in a term. *)
ElectionSafety ==
    \A e, f \in elections : e[1] = f[1] => e[2] = f[2]

(* Raft.Leader(): the leader a server knows, which it forwards to and for  *)
(* whose sake it refuses votes, was elected in the server's current term.  *)
KnownLeader ==
    \A i \in Server :
        leader[i] # Nil => <<currentTerm[i], leader[i]>> \in elections

Forward ==
    \A i \in Server : currentTerm'[i] >= currentTerm[i] /\ lastVoteTerm'[i] >= lastVoteTerm[i]

(* setCurrentTerm and persistVote: neither the durable term nor the        *)
(* durable vote term of a server ever goes back.                           *)
DurableForward == [][Forward]_vars

(* replicateTo, handleStaleTerm, leaderLoop: a leader does not stay leader *)
(* for ever once some peer is in a newer term.                             *)
StaleLeaderStepsDown ==
    \A i \in Server :
        (pc[i] = "leader" /\ \E j \in Peers(i) : currentTerm[j] > job[i].term)
            ~> pc[i] # "leader"
=============================================================================
