------------------------- MODULE RaftElectionProofs -------------------------
(***************************************************************************)
(* Proofs about RaftElection for any finite cluster, any number of terms   *)
(* and any number of restarts.  The inductive invariant says, for every    *)
(* server, how the votes it has granted relate to the vote it has on disk, *)
(* also between the two writes of persistVote, and, for every leadership,  *)
(* that a quorum granted it.                                               *)
(***************************************************************************)
EXTENDS RaftElection, FiniteSetTheorems, TLAPS

GrantedBy(i) == {m \in grants : m.voter = i}

(* The vote on disk is of a term not beyond the current one. *)
VoteTermBound == \A i \in Server : lastVoteTerm[i] <= currentTerm[i]

(* No granted vote is newer than the vote on disk, and one of the same     *)
(* term is that vote.                                                      *)
VoteOnDisk ==
    \A i \in Server : \A m \in GrantedBy(i) :
        /\ m.term <= lastVoteTerm[i]
        /\ lastVoteCand[i] # Nil
        /\ m.term = lastVoteTerm[i] => m.cand = lastVoteCand[i]

(* While a vote is being persisted the server has granted none in its      *)
(* term, and no votes are counted.                                         *)
VoteInProgress ==
    \A i \in Server : pc[i] \in {"voteTerm", "voteCand"} =>
        /\ job[i].cand \in Server
        /\ job[i].term = currentTerm[i]
        /\ \A m \in GrantedBy(i) : m.term < job[i].term
        /\ grantedVotes[i] = {}
        /\ pc[i] = "voteCand" => lastVoteTerm[i] = job[i].term

(* Every vote a candidate has counted was granted to it in its term. *)
Tally ==
    \A i \in Server : pc[i] = "candidate" /\ job[i].cand = i =>
        /\ job[i].term = currentTerm[i]
        /\ \A v \in grantedVotes[i] : Vote(currentTerm[i], v, i) \in grants

(* A quorum granted every leadership. *)
QuorumElected ==
    \A e \in elections : \E Q \in SUBSET Server :
        /\ Cardinality(Q) >= quorumSize(e[2])
        /\ \A v \in Q : Vote(e[1], v, e[2]) \in grants

VoteInv == VoteTermBound /\ VoteOnDisk /\ VoteInProgress /\ VoteOnce
IInv == TypeOK /\ VoteInv /\ Tally /\ QuorumElected

(* A candidate knows no leader. *)
CandidateLeader ==
    \A i \in Server :
        /\ state[i] = "Candidate" => leader[i] = Nil
        /\ pc[i] = "candidate" => state[i] = "Candidate"

-----------------------------------------------------------------------------
(* Two majorities of the cluster, as quorumSize counts them, share a       *)
(* server.                                                                 *)
LEMMA QuorumsIntersect ==
    ASSUME NEW i \in Server, NEW j \in Server,
           NEW Q \in SUBSET Server, NEW R \in SUBSET Server,
           Cardinality(Q) >= quorumSize(i), Cardinality(R) >= quorumSize(j)
    PROVE  Q \cap R # {}
  <1>1. /\ IsFiniteSet(Q) /\ IsFiniteSet(R) /\ IsFiniteSet(Server)
        /\ Cardinality(Q) \in Nat /\ Cardinality(R) \in Nat /\ Cardinality(Server) \in Nat
    BY ServerAssumption, FS_Subset, FS_CardinalityType
  <1>2. /\ Cardinality(Peers(i)) = Cardinality(Server) - 1
        /\ Cardinality(Peers(j)) = Cardinality(Server) - 1
    BY <1>1, FS_RemoveElement DEF Peers
  <1>3. Cardinality(Q) + Cardinality(R) > Cardinality(Server)
    BY <1>1, <1>2 DEF quorumSize
  <1>4. SUFFICES ASSUME Q \cap R = {} PROVE FALSE
    OBVIOUS
  <1>5. Cardinality(Q \cup R) = Cardinality(Q) + Cardinality(R)
    <2>1. Cardinality(Q \cup R) = Cardinality(Q) + Cardinality(R) - Cardinality(Q \cap R)
      BY <1>1, FS_Union
    <2>2. Cardinality(Q \cap R) = 0
      BY <1>4, FS_EmptySet
    <2>3. QED
      BY <1>1, <2>1, <2>2
  <1>6. Cardinality(Q \cup R) <= Cardinality(Server)
    BY <1>1, FS_Subset, Q \cup R \subseteq Server
  <1>7. QED
    BY <1>1, <1>3, <1>5, <1>6

(* The locals of the main goroutine are well typed after a handler. *)
LocalsOK ==
    /\ pc \in [Server -> Locations]
    /\ job \in [Server -> [term : Nat, cand : Server \cup {Nil}]]
    /\ grantedVotes \in [Server -> SUBSET Server]

(* A main goroutine back in runFollower: its locals keep their types. *)
LEMMA IdleType == ASSUME TypeOK, NEW i \in Server, Idle(i) PROVE LocalsOK'
  BY DEF TypeOK, Idle, NoJob, LocalsOK, Locations, Selecting

(* After persistVote the locals keep their types. *)
LEMMA ResumeType ==
    ASSUME TypeOK, NEW i \in Server, NEW j \in [term : Nat, cand : Server \cup {Nil}], Resume(i, j)
    PROVE  LocalsOK'
  <1>1. CASE state[i] = "Candidate"
    <2>1. "candidate" \in Locations
      BY DEF Locations, Selecting
    <2>2. QED
      BY <1>1, <2>1 DEF Resume, LocalsOK, TypeOK
  <1>2. CASE state[i] # "Candidate"
    BY <1>2, IdleType DEF Resume
  <1>3. QED
    BY <1>1, <1>2

(* After a handler the locals keep their types. *)
LEMMA LoopType == ASSUME TypeOK, NEW i \in Server, Loop(i) PROVE LocalsOK'
  BY IdleType DEF TypeOK, Loop, LocalsOK

(* Every variable has its type (TypeOK), whatever the code does. *)
LEMMA TypeStep == TypeOK /\ VoteInProgress /\ [Next]_vars => TypeOK'
  <1> SUFFICES ASSUME TypeOK, VoteInProgress, [Next]_vars PROVE TypeOK'
    OBVIOUS
  <1> USE ServerAssumption DEF durable, net
  <1>1. CASE UNCHANGED vars
    BY <1>1 DEF vars, TypeOK
  <1>2. ASSUME NEW i \in Server, ToFollower(i) PROVE
          /\ LocalsOK'
          /\ (state \in [Server -> {"Follower", "Candidate", "Leader"}])'
          /\ (leader \in [Server -> Server \cup {Nil}])'
    BY <1>2, IdleType DEF ToFollower, setState, TypeOK
  <1>3. ASSUME NEW i \in Server, Restart(i) PROVE TypeOK'
    BY <1>2, <1>3 DEF Restart, TypeOK, LocalsOK
  <1>4. ASSUME NEW i \in Server, HeartbeatTimeout(i) PROVE TypeOK'
    BY <1>4 DEF HeartbeatTimeout, setState, ElectSelf, TypeOK, Locations, Selecting
  <1>5. ASSUME NEW i \in Server, ElectionTimeout(i) PROVE TypeOK'
    BY <1>5 DEF ElectionTimeout, ElectSelf, TypeOK, Locations, Selecting
  <1>6. ASSUME NEW i \in Server, PersistVoteTerm(i) PROVE TypeOK'
    BY <1>6 DEF PersistVoteTerm, TypeOK, Locations, Selecting
  <1>7. ASSUME NEW i \in Server, PersistVoteCand(i) PROVE TypeOK'
    <2>1. LocalsOK'
      BY <1>7, ResumeType DEF PersistVoteCand, NoJob, TypeOK
    <2>2. (grants \subseteq [term : Nat, voter : Server, cand : Server])'
      BY <1>7 DEF PersistVoteCand, VoteInProgress, Vote, TypeOK
    <2>3. QED
      BY <1>7, <2>1, <2>2 DEF PersistVoteCand, VoteInProgress, LocalsOK, TypeOK
  <1>8. ASSUME NEW i \in Server, NEW m \in reqs, RefuseVote(i, m) PROVE TypeOK'
    <2>1. LocalsOK'
      BY <1>8, LoopType DEF RefuseVote
    <2>2. (newer \subseteq [term : Nat, cand : Server, respTerm : Nat])'
      BY <1>8 DEF RefuseVote, Refusal, TypeOK
    <2>3. QED
      BY <1>8, <2>1, <2>2 DEF RefuseVote, LocalsOK, TypeOK
  <1>9. ASSUME NEW i \in Server, NEW m \in reqs, AdoptTerm(i, m), LocalsOK',
               (grants \subseteq [term : Nat, voter : Server, cand : Server])'
        PROVE TypeOK'
    BY <1>9 DEF AdoptTerm, setState, LocalsOK, TypeOK
  <1>10. ASSUME NEW i \in Server, NEW m \in reqs, RepeatVote(i, m) PROVE TypeOK'
    <2>1. (grants \subseteq [term : Nat, voter : Server, cand : Server])'
      BY <1>10 DEF RepeatVote, Vote, TypeOK
    <2>2. QED
      BY <1>9, <1>10, <2>1, LoopType DEF RepeatVote
  <1>11. ASSUME NEW i \in Server, NEW m \in reqs, DenyVote(i, m) PROVE TypeOK'
    <2>1. (grants \subseteq [term : Nat, voter : Server, cand : Server])'
      BY <1>11 DEF DenyVote, TypeOK
    <2>2. QED
      BY <1>9, <1>11, <2>1, LoopType DEF DenyVote
  <1>12. ASSUME NEW i \in Server, NEW m \in reqs, BeginVote(i, m) PROVE TypeOK'
    <2>1. LocalsOK' /\ (grants \subseteq [term : Nat, voter : Server, cand : Server])'
      BY <1>12 DEF BeginVote, LocalsOK, TypeOK, Locations, Selecting
    <2>2. QED
      BY <1>9, <1>12, <2>1 DEF BeginVote
  <1>13. ASSUME NEW i \in Server, NEW t \in VoteTerms(i), VoteOfNewerTerm(i, t) PROVE TypeOK'
    BY <1>2, <1>13 DEF VoteOfNewerTerm, VoteTerms, TypeOK, LocalsOK
  <1>14. ASSUME NEW i \in Server, NEW m \in grants, CountVote(i, m) PROVE TypeOK'
    <2>1. LocalsOK'
      <3>1. CASE Idle(i)
        BY <3>1, IdleType
      <3>2. CASE grantedVotes' = [grantedVotes EXCEPT ![i] = Votes(i, m)] /\ UNCHANGED <<pc, job>>
        BY <3>2 DEF Votes, LocalsOK, TypeOK
      <3>3. QED
        BY <1>14, <3>1, <3>2 DEF CountVote
    <2>2. QED
      BY <1>14, <2>1 DEF CountVote, LocalsOK, TypeOK
  <1>14a. ASSUME NEW i \in Server, NEW m \in grants, BecomeLeader(i, m) PROVE TypeOK'
    <2>1. LocalsOK'
      <3>1. currentTerm[i] \in Nat /\ "leader" \in Locations
        BY DEF TypeOK, Locations, Selecting
      <3>2. QED
        BY <1>14a, <3>1 DEF BecomeLeader, TypeOK, LocalsOK
    <2>2. (elections \subseteq Nat \X Server /\ stale \subseteq elections)'
      BY <1>14a DEF BecomeLeader, TypeOK
    <2>3. QED
      BY <1>14a, <2>1, <2>2 DEF BecomeLeader, TypeOK, LocalsOK
  <1>14b. ASSUME NEW i \in Server, PersistVoteFail(i) PROVE TypeOK'
    <2>1. LocalsOK'
      BY <1>14b, ResumeType DEF PersistVoteFail, NoJob
    <2>2. QED
      BY <1>14b, <2>1 DEF PersistVoteFail, LocalsOK, TypeOK
  <1>15. ASSUME NEW i \in Server, SetPeers(i) PROVE TypeOK'
    BY <1>2, <1>15 DEF SetPeers, TypeOK, LocalsOK
  <1>16. ASSUME NEW i \in Server, NEW e \in elections, AppendEntries(i, e) PROVE TypeOK'
    <2>1. LocalsOK'
      BY <1>16, LoopType DEF AppendEntries
    <2>2. e \in Nat \X Server
      BY DEF TypeOK
    <2>3. QED
      BY <1>16, <2>1, <2>2 DEF AppendEntries, LocalsOK, TypeOK
  <1>17. ASSUME NEW i \in Server, StepDown(i) PROVE TypeOK'
    BY <1>2, <1>17 DEF StepDown, TypeOK, LocalsOK
  <1>18. ASSUME NEW i \in Server, CheckLeaderLease(i) PROVE TypeOK'
    BY <1>2, <1>18 DEF CheckLeaderLease, TypeOK, LocalsOK
  <1>19. QED
    BY <1>1, <1>3, <1>4, <1>5, <1>6, <1>7, <1>8, <1>10, <1>11, <1>12, <1>13, <1>14, <1>14a, <1>14b, <1>15,
       <1>16, <1>17, <1>18 DEF Next, Main

(* Votes are granted by RepeatVote and PersistVoteCand only; every other   *)
(* action leaves grants and the votes on disk alone, moves no term back    *)
(* and starts persisting a vote in a term without one.                     *)
LEMMA VoteFrame ==
    ASSUME IInv, TypeOK', UNCHANGED <<lastVoteTerm, lastVoteCand, grants>>,
           \A j \in Server : currentTerm'[j] >= currentTerm[j],
           \A j \in Server : pc'[j] \in {"voteTerm", "voteCand"} =>
               \/ /\ job'[j] = job[j] /\ pc'[j] = pc[j] /\ currentTerm'[j] = currentTerm[j]
                  /\ grantedVotes'[j] = grantedVotes[j]
               \/ /\ pc'[j] = "voteTerm"
                  /\ job'[j].cand \in Server
                  /\ job'[j].term = currentTerm'[j]
                  /\ \A m \in GrantedBy(j) : m.term < currentTerm'[j]
                  /\ grantedVotes'[j] = {}
    PROVE  VoteInv'
  <1>1. VoteTermBound'
    BY DEF IInv, VoteInv, VoteTermBound, TypeOK
  <1>2. VoteOnDisk' /\ VoteOnce'
    BY DEF IInv, VoteInv, VoteOnDisk, VoteOnce, GrantedBy
  <1>3. VoteInProgress'
    BY DEF IInv, VoteInv, VoteInProgress, GrantedBy
  <1>4. QED
    BY <1>1, <1>2, <1>3 DEF VoteInv

(* After Loop(i) no vote is being persisted by a server that was selecting. *)
LEMMA LoopVote ==
    ASSUME TypeOK, NEW i \in Server, pc[i] \in Selecting, Loop(i), NEW j \in Server,
           pc'[j] \in {"voteTerm", "voteCand"}
    PROVE  j # i /\ pc'[j] = pc[j] /\ job'[j] = job[j] /\ grantedVotes'[j] = grantedVotes[j]
  BY DEF Loop, Idle, Selecting, TypeOK

(* Every step keeps the votes given consistent with the votes on disk. *)
LEMMA VoteStep == IInv /\ [Next]_vars => VoteInv'
  <1> SUFFICES ASSUME IInv, [Next]_vars PROVE VoteInv'
    OBVIOUS
  <1> TypeOK /\ VoteInProgress /\ TypeOK'
    BY TypeStep DEF IInv, VoteInv
  <1> USE DEF durable, net
  <1>1. CASE UNCHANGED vars
    BY <1>1, VoteFrame DEF vars, TypeOK
  <1>2. ASSUME NEW i \in Server, ToFollower(i),
               UNCHANGED <<lastVoteTerm, lastVoteCand, grants>>,
               \E t \in Nat : t >= currentTerm[i] /\ currentTerm' = [currentTerm EXCEPT ![i] = t]
        PROVE VoteInv'
    BY <1>2, VoteFrame DEF ToFollower, Idle, TypeOK
  <1>3. ASSUME NEW i \in Server, ToFollower(i), UNCHANGED <<durable, grants>> PROVE VoteInv'
    BY <1>3, VoteFrame DEF ToFollower, Idle, TypeOK
  <1>4. ASSUME NEW i \in Server, Restart(i) \/ SetPeers(i) \/ StepDown(i) \/ CheckLeaderLease(i)
        PROVE VoteInv'
    BY <1>3, <1>4 DEF Restart, SetPeers, StepDown, CheckLeaderLease
  <1>5. ASSUME NEW i \in Server PROVE \A m \in GrantedBy(i) : m.term <= currentTerm[i] /\ m.term \in Nat
    BY DEF IInv, VoteInv, VoteOnDisk, VoteTermBound, GrantedBy, TypeOK
  <1>6. ASSUME NEW i \in Server, ElectSelf(i) PROVE VoteInv'
    <2>1. \A m \in GrantedBy(i) : m.term < currentTerm'[i]
      BY <1>5, <1>6 DEF ElectSelf, TypeOK
    <2>2. QED
      BY <1>6, <2>1, VoteFrame DEF ElectSelf, TypeOK
  <1>7. ASSUME NEW i \in Server, HeartbeatTimeout(i) \/ ElectionTimeout(i) PROVE VoteInv'
    BY <1>6, <1>7 DEF HeartbeatTimeout, ElectionTimeout
  <1>8. ASSUME NEW i \in Server, PersistVoteTerm(i) PROVE VoteInv'
    <2>1. VoteTermBound'
      BY <1>8 DEF PersistVoteTerm, IInv, VoteInv, VoteTermBound, VoteInProgress, TypeOK
    <2>2. VoteOnDisk'
      BY <1>8 DEF PersistVoteTerm, IInv, VoteInv, VoteOnDisk, VoteInProgress, GrantedBy, TypeOK
    <2>3. VoteInProgress'
      BY <1>8 DEF PersistVoteTerm, VoteInProgress, GrantedBy, TypeOK
    <2>4. VoteOnce'
      BY <1>8 DEF PersistVoteTerm, IInv, VoteInv, VoteOnce
    <2>5. QED
      BY <2>1, <2>2, <2>3, <2>4 DEF VoteInv
  <1>9. ASSUME NEW i \in Server, NEW c \in Server, grants' = grants \cup {Vote(lastVoteTerm[i], i, c)},
               lastVoteCand' = [lastVoteCand EXCEPT ![i] = c], UNCHANGED lastVoteTerm,
               \A m \in GrantedBy(i) : m.term = lastVoteTerm[i] => m.cand = c
        PROVE VoteOnDisk' /\ VoteOnce'
    <2>1. Nil # c
      BY ServerAssumption
    <2>2. VoteOnDisk'
      BY <1>9, <2>1 DEF IInv, VoteInv, VoteOnDisk, GrantedBy, Vote, TypeOK
    <2>3. VoteOnce'
      BY <1>9 DEF IInv, VoteInv, VoteOnce, GrantedBy, Vote, TypeOK
    <2>4. QED
      BY <2>2, <2>3
  <1>10. ASSUME NEW i \in Server, PersistVoteCand(i) PROVE VoteInv'
    <2>1. /\ job[i].cand \in Server /\ job[i].term = lastVoteTerm[i]
          /\ \A m \in GrantedBy(i) : m.term < lastVoteTerm[i]
      BY <1>10 DEF PersistVoteCand, VoteInProgress
    <2>2. VoteOnDisk' /\ VoteOnce'
      <3>1. lastVoteTerm[i] \in Nat
        BY DEF TypeOK
      <3>2. \A m \in GrantedBy(i) : m.term = lastVoteTerm[i] => m.cand = job[i].cand
        BY <1>5, <2>1, <3>1
      <3>3. /\ grants' = grants \cup {Vote(lastVoteTerm[i], i, job[i].cand)}
            /\ lastVoteCand' = [lastVoteCand EXCEPT ![i] = job[i].cand]
            /\ UNCHANGED lastVoteTerm
        BY <1>10, <2>1 DEF PersistVoteCand
      <3>4. QED
        BY <1>9, <2>1, <3>2, <3>3
    <2>3. VoteTermBound'
      BY <1>10 DEF PersistVoteCand, IInv, VoteInv, VoteTermBound
    <2>4. ASSUME NEW j \in Server, pc'[j] \in {"voteTerm", "voteCand"}
          PROVE  /\ j # i /\ pc'[j] = pc[j] /\ job'[j] = job[j] /\ grantedVotes'[j] = grantedVotes[j]
                 /\ GrantedBy(j)' = GrantedBy(j)
      BY <1>10, <2>4 DEF PersistVoteCand, Resume, Idle, GrantedBy, Vote, TypeOK
    <2>5. VoteInProgress'
      BY <1>10, <2>4 DEF PersistVoteCand, VoteInProgress
    <2>6. QED
      BY <2>2, <2>3, <2>5 DEF VoteInv
  <1>10a. ASSUME NEW i \in Server, PersistVoteFail(i) PROVE VoteInv'
    <2>1. \A j \in Server : pc'[j] \in {"voteTerm", "voteCand"} =>
            pc'[j] = pc[j] /\ job'[j] = job[j] /\ grantedVotes'[j] = grantedVotes[j]
      BY <1>10a DEF PersistVoteFail, Resume, Idle, TypeOK
    <2>2. QED
      BY <1>10a, <2>1, VoteFrame DEF PersistVoteFail, TypeOK
  <1>11. ASSUME NEW i \in Server, NEW m \in reqs, RefuseVote(i, m) PROVE VoteInv'
    <2>1. \A j \in Server : pc'[j] \in {"voteTerm", "voteCand"} =>
            pc'[j] = pc[j] /\ job'[j] = job[j] /\ grantedVotes'[j] = grantedVotes[j]
      BY <1>11, LoopVote DEF RefuseVote
    <2>2. UNCHANGED <<currentTerm, lastVoteTerm, lastVoteCand, grants>>
      BY <1>11 DEF RefuseVote
    <2>3. \A j \in Server : currentTerm'[j] >= currentTerm[j]
      BY <2>2 DEF TypeOK
    <2>4. QED
      BY <2>1, <2>2, <2>3, VoteFrame
  <1>12. ASSUME NEW i \in Server, NEW m \in reqs, AdoptTerm(i, m)
         PROVE  /\ \A j \in Server : currentTerm'[j] >= currentTerm[j]
                /\ \A j \in Server \ {i} : currentTerm'[j] = currentTerm[j]
                /\ currentTerm'[i] = m.term /\ m.term \in Nat
                /\ pc[i] \in Selecting /\ UNCHANGED <<lastVoteTerm, lastVoteCand>>
    BY <1>12 DEF AdoptTerm, TypeOK
  <1>13. ASSUME NEW i \in Server, NEW m \in reqs, RepeatVote(i, m) PROVE VoteInv'
    <2>1. /\ lastVoteTerm[i] = m.term /\ lastVoteCand[i] = m.cand /\ m.cand \in Server
          /\ lastVoteCand' = [lastVoteCand EXCEPT ![i] = m.cand]
      BY <1>12, <1>13 DEF RepeatVote, Voted, TypeOK
    <2>2. VoteOnDisk' /\ VoteOnce'
      <3>1. \A n \in GrantedBy(i) : n.term = lastVoteTerm[i] => n.cand = m.cand
        BY <2>1 DEF IInv, VoteInv, VoteOnDisk
      <3>2. QED
        BY <1>9, <1>12, <1>13, <2>1, <3>1 DEF RepeatVote
    <2>3. VoteTermBound'
      BY <1>12, <1>13 DEF RepeatVote, IInv, VoteInv, VoteTermBound, TypeOK
    <2>4. ASSUME NEW j \in Server, pc'[j] \in {"voteTerm", "voteCand"}
          PROVE  /\ j # i /\ pc'[j] = pc[j] /\ job'[j] = job[j] /\ grantedVotes'[j] = grantedVotes[j]
                 /\ GrantedBy(j)' = GrantedBy(j) /\ currentTerm'[j] = currentTerm[j]
      <3>1. j # i /\ pc'[j] = pc[j] /\ job'[j] = job[j] /\ grantedVotes'[j] = grantedVotes[j]
        BY <1>12, <1>13, <2>4, LoopVote DEF RepeatVote
      <3>2. QED
        <4>1. AdoptTerm(i, m) /\ grants' = grants \cup {Vote(m.term, i, m.cand)}
          BY <1>13 DEF RepeatVote
        <4>2. currentTerm'[j] = currentTerm[j]
          BY <1>12, <3>1, <4>1
        <4>3. GrantedBy(j)' = GrantedBy(j)
          BY <3>1, <4>1 DEF GrantedBy, Vote
        <4>4. QED
          BY <3>1, <4>2, <4>3
    <2>5. VoteInProgress'
      <3> SUFFICES ASSUME NEW j \in Server, pc'[j] \in {"voteTerm", "voteCand"}
                   PROVE  /\ job'[j].cand \in Server
                          /\ job'[j].term = currentTerm'[j]
                          /\ \A n \in GrantedBy(j)' : n.term < job'[j].term
                          /\ grantedVotes'[j] = {}
                          /\ pc'[j] = "voteCand" => lastVoteTerm'[j] = job'[j].term
        BY DEF VoteInProgress
      <3>1. UNCHANGED lastVoteTerm
        BY <1>12, <1>13 DEF RepeatVote
      <3>2. QED
        BY <2>4, <3>1 DEF VoteInProgress
    <2>6. QED
      BY <2>2, <2>3, <2>5 DEF VoteInv
  <1>14. ASSUME NEW i \in Server, NEW m \in reqs, DenyVote(i, m) PROVE VoteInv'
    <2>1. \A j \in Server : pc'[j] \in {"voteTerm", "voteCand"} =>
            j # i /\ pc'[j] = pc[j] /\ job'[j] = job[j] /\ grantedVotes'[j] = grantedVotes[j]
      BY <1>12, <1>14, LoopVote DEF DenyVote
    <2>2. QED
      BY <1>12, <1>14, <2>1, VoteFrame DEF DenyVote
  <1>15. ASSUME NEW i \in Server, NEW m \in reqs, BeginVote(i, m) PROVE VoteInv'
    <2>1. \A n \in GrantedBy(i) : n.term < m.term
      <3> SUFFICES ASSUME NEW n \in GrantedBy(i) PROVE n.term < m.term
        OBVIOUS
      <3>1. n.term <= currentTerm[i] /\ n.term \in Nat /\ n.term <= lastVoteTerm[i] /\ lastVoteCand[i] # Nil
        BY <1>5 DEF IInv, VoteInv, VoteOnDisk
      <3>2. lastVoteTerm[i] <= currentTerm[i]
        BY DEF IInv, VoteInv, VoteTermBound
      <3>3. lastVoteTerm[i] # m.term /\ currentTerm[i] <= m.term
        BY <1>15, <3>1 DEF BeginVote, AdoptTerm, Voted
      <3>4. lastVoteTerm[i] \in Nat /\ currentTerm[i] \in Nat /\ m.term \in Nat
        BY DEF TypeOK
      <3>5. QED
        BY <3>1, <3>2, <3>3, <3>4
    <2>2. m.cand \in Server
      BY DEF TypeOK
    <2>3. /\ \A j \in Server : currentTerm'[j] >= currentTerm[j]
          /\ \A j \in Server \ {i} : currentTerm'[j] = currentTerm[j]
          /\ currentTerm'[i] = m.term /\ UNCHANGED <<lastVoteTerm, lastVoteCand, grants>>
      BY <1>12, <1>15 DEF BeginVote
    <2>4. /\ pc'[i] = "voteTerm" /\ job'[i] = [term |-> m.term, cand |-> m.cand] /\ grantedVotes'[i] = {}
          /\ \A j \in Server \ {i} : pc'[j] = pc[j] /\ job'[j] = job[j] /\ grantedVotes'[j] = grantedVotes[j]
      BY <1>15 DEF BeginVote, TypeOK
    <2>5. job'[i].term = m.term /\ job'[i].cand = m.cand
      BY <2>4
    <2>6. QED
      BY <2>1, <2>2, <2>3, <2>4, <2>5, VoteFrame
  <1>16. ASSUME NEW i \in Server, NEW t \in VoteTerms(i), VoteOfNewerTerm(i, t) PROVE VoteInv'
    <2>1. t \in Nat
      BY DEF VoteTerms, TypeOK
    <2>2. QED
      <3>1. t >= currentTerm[i]
        BY <1>16, <2>1 DEF VoteOfNewerTerm, TypeOK
      <3>2. QED
        BY <1>2, <1>16, <2>1, <3>1 DEF VoteOfNewerTerm
  <1>17. ASSUME NEW i \in Server, NEW m \in grants, CountVote(i, m) \/ BecomeLeader(i, m) PROVE VoteInv'
    <2>1. \A j \in Server : pc'[j] \in {"voteTerm", "voteCand"} =>
            pc'[j] = pc[j] /\ job'[j] = job[j] /\ grantedVotes'[j] = grantedVotes[j]
      <3>1. CASE CountVote(i, m)
        BY <3>1 DEF CountVote, Countable, Idle, TypeOK
      <3>2. CASE BecomeLeader(i, m)
        BY <3>2 DEF BecomeLeader, TypeOK
      <3>3. QED
        BY <1>17, <3>1, <3>2
    <2>2. UNCHANGED <<currentTerm, lastVoteTerm, lastVoteCand, grants>>
      BY <1>17 DEF CountVote, BecomeLeader
    <2>3. \A j \in Server : currentTerm'[j] >= currentTerm[j]
      BY <2>2 DEF TypeOK
    <2>4. QED
      BY <2>1, <2>2, <2>3, VoteFrame
  <1>18. ASSUME NEW i \in Server, NEW e \in elections, AppendEntries(i, e) PROVE VoteInv'
    <2>1. \A j \in Server : pc'[j] \in {"voteTerm", "voteCand"} =>
            j # i /\ pc'[j] = pc[j] /\ job'[j] = job[j] /\ grantedVotes'[j] = grantedVotes[j]
      BY <1>18, LoopVote DEF AppendEntries
    <2>2. /\ \A j \in Server : currentTerm'[j] >= currentTerm[j]
          /\ \A j \in Server \ {i} : currentTerm'[j] = currentTerm[j]
      <3>1. e \in Nat \X Server
        BY DEF TypeOK
      <3>2. QED
        <4>1. CASE currentTerm' = currentTerm
          BY <4>1 DEF TypeOK
        <4>2. CASE e[1] >= currentTerm[i] /\ currentTerm' = [currentTerm EXCEPT ![i] = e[1]]
          BY <3>1, <4>2 DEF TypeOK
        <4>3. QED
          BY <1>18, <4>1, <4>2 DEF AppendEntries
    <2>3. QED
      BY <1>18, <2>1, <2>2, VoteFrame DEF AppendEntries
  <1>19. QED
    BY <1>1, <1>4, <1>7, <1>8, <1>10, <1>10a, <1>11, <1>13, <1>14, <1>15, <1>16, <1>17,
       <1>18 DEF Next, Main

-----------------------------------------------------------------------------
(* A vote that runCandidate may count was granted in the current term. *)
LEMMA CountedVote ==
    ASSUME TypeOK, Tally, NEW i \in Server, NEW m \in grants, Countable(i, m)
    PROVE  Vote(currentTerm[i], m.voter, i) = m
  <1>1. job[i].cand = i /\ m.term = job[i].term /\ m.cand = i /\ pc[i] = "candidate"
    BY DEF Countable
  <1>2. m.term = currentTerm[i] /\ m \in [term : Nat, voter : Server, cand : Server]
    BY <1>1 DEF Tally, TypeOK
  <1>3. QED
    BY <1>1, <1>2 DEF Vote

(* What a step may do to the tallies: a server that stands in the select   *)
(* of runCandidate was there with the same tally and term, has counted one *)
(* more granted vote, or has just granted its own.                         *)
LEMMA TallyStep == IInv /\ [Next]_vars => Tally' /\ grants \subseteq grants'
  <1> SUFFICES ASSUME IInv, [Next]_vars PROVE Tally' /\ grants \subseteq grants'
    OBVIOUS
  <1> TypeOK /\ VoteInProgress /\ Tally
    BY DEF IInv, VoteInv
  <1> USE DEF durable, net
  <1>1. ASSUME grants \subseteq grants',
               \A j \in Server : pc'[j] = "candidate" =>
                   /\ pc[j] = "candidate" /\ job'[j] = job[j]
                   /\ currentTerm'[j] = currentTerm[j] /\ grantedVotes'[j] = grantedVotes[j]
        PROVE Tally'
    BY <1>1 DEF Tally
  <1>2. CASE UNCHANGED vars
    BY <1>1, <1>2 DEF vars
  <1>3. ASSUME NEW i \in Server, Idle(i), NEW j \in Server, pc'[j] = "candidate"
        PROVE  j # i /\ pc[j] = "candidate" /\ job'[j] = job[j] /\ grantedVotes'[j] = grantedVotes[j]
    BY <1>3 DEF Idle, TypeOK
  <1>4. ASSUME NEW i \in Server,
               Restart(i) \/ SetPeers(i) \/ StepDown(i) \/ CheckLeaderLease(i)
        PROVE  Tally' /\ grants \subseteq grants'
    BY <1>1, <1>3, <1>4 DEF Restart, SetPeers, StepDown, CheckLeaderLease, ToFollower
  <1>5. ASSUME NEW i \in Server, HeartbeatTimeout(i) \/ ElectionTimeout(i)
        PROVE  Tally' /\ grants \subseteq grants'
    <2>1. ElectSelf(i)
      BY <1>5 DEF HeartbeatTimeout, ElectionTimeout
    <2>2. QED
      BY <1>1, <2>1 DEF ElectSelf, TypeOK
  <1>6. ASSUME NEW i \in Server, PersistVoteTerm(i) PROVE Tally' /\ grants \subseteq grants'
    BY <1>1, <1>6 DEF PersistVoteTerm, TypeOK
  <1>7. ASSUME NEW i \in Server, PersistVoteCand(i) PROVE Tally' /\ grants \subseteq grants'
    <2>1. grants \subseteq grants'
      BY <1>7 DEF PersistVoteCand
    <2>2. CASE Idle(i)
      BY <1>1, <1>3, <1>7, <2>1, <2>2 DEF PersistVoteCand
    <2>3. CASE /\ pc' = [pc EXCEPT ![i] = "candidate"] /\ UNCHANGED grantedVotes
               /\ job' = [job EXCEPT ![i] = IF job[i].cand = i THEN job[i] ELSE NoJob]
      <3>1. grantedVotes[i] = {} /\ job[i].term = currentTerm[i] /\ UNCHANGED currentTerm /\ Nil # i
        BY <1>7, ServerAssumption DEF PersistVoteCand, VoteInProgress
      <3>2. QED
        BY <2>1, <2>3, <3>1 DEF Tally, NoJob, TypeOK
    <2>4. QED
      BY <1>7, <2>1, <2>2, <2>3 DEF PersistVoteCand, Resume
  <1>7a. ASSUME NEW i \in Server, PersistVoteFail(i) PROVE Tally' /\ grants \subseteq grants'
    <2>1. CASE Idle(i)
      BY <1>1, <1>3, <1>7a, <2>1 DEF PersistVoteFail
    <2>2. CASE pc' = [pc EXCEPT ![i] = "candidate"] /\ job' = [job EXCEPT ![i] = NoJob] /\ UNCHANGED grantedVotes
      <3>1. UNCHANGED <<currentTerm, grants>> /\ Nil # i
        BY <1>7a, ServerAssumption DEF PersistVoteFail
      <3>2. QED
        BY <2>2, <3>1 DEF Tally, NoJob, TypeOK
    <2>3. QED
      BY <1>7a, <2>1, <2>2 DEF PersistVoteFail, Resume
  <1>8. ASSUME NEW i \in Server, Loop(i), NEW j \in Server, pc'[j] = "candidate"
        PROVE  /\ pc[j] = "candidate" /\ job'[j] = job[j] /\ grantedVotes'[j] = grantedVotes[j]
               /\ j = i => state'[i] # "Follower"
    BY <1>3, <1>8 DEF Loop
  <1>9. ASSUME NEW i \in Server, NEW m \in reqs, RefuseVote(i, m)
        PROVE  Tally' /\ grants \subseteq grants'
    BY <1>1, <1>8, <1>9 DEF RefuseVote
  <1>10. ASSUME NEW i \in Server, NEW m \in reqs, AdoptTerm(i, m), NEW j \in Server,
                j = i => state'[i] # "Follower"
         PROVE  currentTerm'[j] = currentTerm[j]
    BY <1>10 DEF AdoptTerm, setState, TypeOK
  <1>11. ASSUME NEW i \in Server, NEW m \in reqs, RepeatVote(i, m) \/ DenyVote(i, m)
         PROVE  Tally' /\ grants \subseteq grants'
    <2>1. AdoptTerm(i, m) /\ Loop(i) /\ grants \subseteq grants'
      BY <1>11 DEF RepeatVote, DenyVote
    <2>2. QED
      BY <1>1, <1>8, <1>10, <2>1
  <1>12. ASSUME NEW i \in Server, NEW m \in reqs, BeginVote(i, m)
         PROVE  Tally' /\ grants \subseteq grants'
    <2>1. \A j \in Server : pc'[j] = "candidate" =>
            j # i /\ pc[j] = "candidate" /\ job'[j] = job[j] /\ grantedVotes'[j] = grantedVotes[j]
      BY <1>12 DEF BeginVote, TypeOK
    <2>2. \A j \in Server \ {i} : currentTerm'[j] = currentTerm[j]
      BY <1>12 DEF BeginVote, AdoptTerm, TypeOK
    <2>3. QED
      BY <1>1, <1>12, <2>1, <2>2 DEF BeginVote
  <1>13. ASSUME NEW i \in Server, NEW t \in VoteTerms(i), VoteOfNewerTerm(i, t)
         PROVE  Tally' /\ grants \subseteq grants'
    <2>1. \A j \in Server \ {i} : currentTerm'[j] = currentTerm[j]
      BY <1>13 DEF VoteOfNewerTerm, TypeOK
    <2>2. QED
      BY <1>1, <1>3, <1>13, <2>1 DEF VoteOfNewerTerm, ToFollower
  <1>14. ASSUME NEW i \in Server, NEW m \in grants, CountVote(i, m)
         PROVE  Tally' /\ grants \subseteq grants'
    <2>1. CASE Idle(i)
      BY <1>1, <1>3, <1>14, <2>1 DEF CountVote
    <2>2. CASE grantedVotes' = [grantedVotes EXCEPT ![i] = Votes(i, m)] /\ UNCHANGED <<pc, job>>
      <3>1. UNCHANGED <<currentTerm, grants>> /\ Vote(currentTerm[i], m.voter, i) = m
        BY <1>14, CountedVote DEF CountVote
      <3>2. QED
        BY <2>2, <3>1 DEF Tally, Votes, TypeOK
    <2>3. QED
      BY <1>14, <2>1, <2>2 DEF CountVote
  <1>14a. ASSUME NEW i \in Server, NEW m \in grants, BecomeLeader(i, m)
          PROVE  Tally' /\ grants \subseteq grants'
    BY <1>1, <1>14a DEF BecomeLeader, TypeOK
  <1>15. ASSUME NEW i \in Server, NEW e \in elections, AppendEntries(i, e)
         PROVE  Tally' /\ grants \subseteq grants'
    <2>1. ASSUME NEW j \in Server, j = i => state'[i] # "Follower"
          PROVE  currentTerm'[j] = currentTerm[j]
      BY <1>15, <2>1 DEF AppendEntries, TypeOK
    <2>2. QED
      BY <1>1, <1>8, <1>15, <2>1 DEF AppendEntries
  <1>16. QED
    BY <1>2, <1>4, <1>5, <1>6, <1>7, <1>7a, <1>9, <1>11, <1>12, <1>13, <1>14, <1>14a,
       <1>15 DEF Next, Main

(* A new leadership is that of a server whose tally is a quorum. *)
LEMMA ElectionsStep ==
    ASSUME TypeOK, [Next]_vars, elections' # elections
    PROVE  \E i \in Server, m \in grants : BecomeLeader(i, m)
  <1> USE DEF durable, net
  <1>1. ASSUME NEW i \in Server, NEW m \in reqs,
               RefuseVote(i, m) \/ RepeatVote(i, m) \/ DenyVote(i, m) \/ BeginVote(i, m)
        PROVE  elections' = elections
    BY <1>1 DEF RefuseVote, RepeatVote, DenyVote, BeginVote, AdoptTerm
  <1>2. ASSUME NEW i \in Server, NEW e \in elections, AppendEntries(i, e)
        PROVE  elections' = elections
    BY <1>2 DEF AppendEntries
  <1>3. ASSUME NEW i \in Server, Main(i) \/ Restart(i), ~\E m \in grants : BecomeLeader(i, m)
        PROVE  elections' = elections
    BY <1>1, <1>2, <1>3 DEF Main, Restart, HeartbeatTimeout, ElectionTimeout, ElectSelf, PersistVoteTerm,
         PersistVoteCand, PersistVoteFail, VoteOfNewerTerm, CountVote, SetPeers, StepDown, CheckLeaderLease
  <1>4. QED
    BY <1>3 DEF Next, vars

(* Every leadership has the votes of a quorum, and votes stay given. *)
LEMMA QuorumStep == IInv /\ [Next]_vars => QuorumElected'
  <1> SUFFICES ASSUME IInv, [Next]_vars PROVE QuorumElected'
    OBVIOUS
  <1>1. grants \subseteq grants'
    BY TallyStep
  <1>2. ASSUME NEW e \in elections
        PROVE  \E Q \in SUBSET Server :
                 Cardinality(Q) >= quorumSize(e[2]) /\ \A v \in Q : Vote(e[1], v, e[2]) \in grants'
    BY <1>1 DEF IInv, QuorumElected
  <1>3. CASE elections' = elections
    BY <1>2, <1>3 DEF QuorumElected
  <1>4. CASE elections' # elections
    <2>1. PICK i \in Server, m \in grants : BecomeLeader(i, m)
      BY <1>4, ElectionsStep DEF IInv
    <2>2. /\ elections' = elections \cup {<<currentTerm[i], i>>} /\ Votes(i, m) \in SUBSET Server
          /\ Cardinality(Votes(i, m)) >= quorumSize(i)
      BY <2>1 DEF BecomeLeader, Votes, IInv, TypeOK
    <2>3. Vote(currentTerm[i], m.voter, i) = m
      BY <2>1, CountedVote DEF BecomeLeader, IInv
    <2>4. \A v \in Votes(i, m) : Vote(currentTerm[i], v, i) \in grants'
      <3> pc[i] = "candidate" /\ job[i] = [term |-> m.term, cand |-> i]
        BY <2>1 DEF BecomeLeader, Countable
      <3>1. pc[i] = "candidate" /\ job[i].cand = i
        OBVIOUS
      <3>2. \A v \in grantedVotes[i] : Vote(currentTerm[i], v, i) \in grants
        BY <3>1 DEF IInv, Tally
      <3>3. QED
        BY <1>1, <2>3, <3>2 DEF Votes
    <2>5. QED
      BY <1>2, <2>2, <2>4 DEF QuorumElected
  <1>5. QED
    BY <1>3, <1>4

(* No step moves the durable term or the durable vote term back. *)
LEMMA ForwardStep == IInv /\ [Next]_vars => Forward
  <1> SUFFICES ASSUME IInv, [Next]_vars, NEW k \in Server
               PROVE  currentTerm'[k] >= currentTerm[k] /\ lastVoteTerm'[k] >= lastVoteTerm[k]
    BY DEF Forward
  <1> TypeOK /\ VoteInProgress /\ VoteTermBound
    BY DEF IInv, VoteInv
  <1> USE DEF durable, net
  <1> DEFINE Fwd == currentTerm'[k] >= currentTerm[k] /\ lastVoteTerm'[k] >= lastVoteTerm[k]
  <1>1. CASE UNCHANGED durable
    BY <1>1 DEF TypeOK
  <1>2. ASSUME NEW i \in Server, HeartbeatTimeout(i) \/ ElectionTimeout(i) PROVE Fwd
    BY <1>2 DEF HeartbeatTimeout, ElectionTimeout, ElectSelf, TypeOK
  <1>3. ASSUME NEW i \in Server, PersistVoteTerm(i) PROVE Fwd
    BY <1>3 DEF PersistVoteTerm, VoteInProgress, VoteTermBound, TypeOK
  <1>4. ASSUME NEW i \in Server, PersistVoteCand(i) PROVE Fwd
    BY <1>4 DEF PersistVoteCand, TypeOK
  <1>5. ASSUME NEW i \in Server, NEW m \in reqs,
               RefuseVote(i, m) \/ RepeatVote(i, m) \/ DenyVote(i, m) \/ BeginVote(i, m)
        PROVE  Fwd
    <2>1. CASE RefuseVote(i, m)
      BY <1>1, <2>1 DEF RefuseVote
    <2>2. CASE AdoptTerm(i, m)
      <3>1. currentTerm' = [currentTerm EXCEPT ![i] = m.term] /\ m.term >= currentTerm[i] /\ UNCHANGED lastVoteTerm
        BY <2>2 DEF AdoptTerm
      <3>2. m.term \in Nat /\ currentTerm \in [Server -> Nat] /\ lastVoteTerm \in [Server -> Nat]
        BY DEF TypeOK
      <3>3. QED
        BY <3>1, <3>2
    <2>3. QED
      BY <1>5, <2>1, <2>2 DEF RepeatVote, DenyVote, BeginVote
  <1>6. ASSUME NEW i \in Server, NEW t \in VoteTerms(i), VoteOfNewerTerm(i, t) PROVE Fwd
    <2>1. t \in Nat
      BY DEF VoteTerms, TypeOK
    <2>2. currentTerm' = [currentTerm EXCEPT ![i] = t] /\ t > currentTerm[i] /\ UNCHANGED lastVoteTerm
      BY <1>6 DEF VoteOfNewerTerm
    <2>3. currentTerm \in [Server -> Nat] /\ lastVoteTerm \in [Server -> Nat]
      BY DEF TypeOK
    <2>4. QED
      BY <2>1, <2>2, <2>3
  <1>7. ASSUME NEW i \in Server, NEW e \in elections, AppendEntries(i, e) PROVE Fwd
    <2>1. e \in Nat \X Server
      BY DEF TypeOK
    <2>2. CASE UNCHANGED currentTerm
      BY <1>7, <2>2 DEF AppendEntries, TypeOK
    <2>3. CASE e[1] >= currentTerm[i] /\ currentTerm' = [currentTerm EXCEPT ![i] = e[1]]
      BY <1>7, <2>1, <2>3 DEF AppendEntries, TypeOK
    <2>4. QED
      BY <1>7, <2>2, <2>3 DEF AppendEntries
  <1>8. QED
    BY <1>1, <1>2, <1>3, <1>4, <1>5, <1>6, <1>7
       DEF Next, Main, vars, Restart, PersistVoteFail, CountVote, BecomeLeader, SetPeers, StepDown, CheckLeaderLease

(* A server's known leader is cleared or set together with its term; the   *)
(* one step that moves the term alone, a new election of a candidate,      *)
(* meets no known leader.                                                  *)
LEMMA LeaderStep ==
    TypeOK /\ CandidateLeader /\ KnownLeader /\ [Next]_vars => (CandidateLeader /\ KnownLeader)'
  <1> SUFFICES ASSUME TypeOK, CandidateLeader, KnownLeader, [Next]_vars
               PROVE  (CandidateLeader /\ KnownLeader)'
    OBVIOUS
  <1> USE DEF durable, net
  <1> DEFINE Sound(j) == /\ state[j] = "Candidate" => leader[j] = Nil
                         /\ pc[j] = "candidate" => state[j] = "Candidate"
                         /\ leader[j] # Nil => <<currentTerm[j], leader[j]>> \in elections
  <1>1. SUFFICES ASSUME NEW j \in Server, Sound(j) PROVE Sound(j)'
    BY DEF CandidateLeader, KnownLeader
  <1>2. ASSUME leader'[j] = Nil, pc'[j] # "candidate" PROVE Sound(j)'
    BY <1>2
  <1>3. ASSUME elections \subseteq elections', leader'[j] = leader[j], state'[j] = state[j],
               currentTerm'[j] = currentTerm[j], pc'[j] = "candidate" => state[j] = "Candidate"
        PROVE  Sound(j)'
    BY <1>1, <1>3
  <1>4. CASE UNCHANGED vars
    BY <1>1, <1>4 DEF vars
  <1>5. ASSUME NEW i \in Server, ToFollower(i), \A k \in Server \ {i} : currentTerm'[k] = currentTerm[k],
               UNCHANGED elections
        PROVE  Sound(j)'
    BY <1>1, <1>2, <1>3, <1>5 DEF ToFollower, setState, Idle, TypeOK
  <1>6. ASSUME NEW i \in Server,
               Restart(i) \/ SetPeers(i) \/ StepDown(i) \/ CheckLeaderLease(i)
        PROVE  Sound(j)'
    BY <1>5, <1>6 DEF Restart, SetPeers, StepDown, CheckLeaderLease
  <1>7. ASSUME NEW i \in Server, HeartbeatTimeout(i) PROVE Sound(j)'
    BY <1>1, <1>2, <1>3, <1>7 DEF HeartbeatTimeout, setState, ElectSelf, TypeOK
  <1>8. ASSUME NEW i \in Server, ElectionTimeout(i) PROVE Sound(j)'
    BY <1>1, <1>2, <1>3, <1>8 DEF ElectionTimeout, ElectSelf, TypeOK
  <1>9. ASSUME NEW i \in Server, PersistVoteTerm(i) PROVE Sound(j)'
    BY <1>1, <1>3, <1>9 DEF PersistVoteTerm, TypeOK
  <1>10. ASSUME NEW i \in Server, PersistVoteCand(i) \/ PersistVoteFail(i) PROVE Sound(j)'
    BY <1>1, <1>3, <1>10 DEF PersistVoteCand, PersistVoteFail, Resume, Idle, TypeOK
  <1>11. ASSUME NEW i \in Server, Loop(i), pc'[j] = "candidate"
         PROVE  pc[j] = "candidate" /\ (j = i => state'[i] # "Follower")
    BY <1>11 DEF Loop, Idle, TypeOK
  <1>12. ASSUME NEW i \in Server, NEW m \in reqs, RefuseVote(i, m) PROVE Sound(j)'
    BY <1>1, <1>3, <1>11, <1>12 DEF RefuseVote
  <1>13. ASSUME NEW i \in Server, NEW m \in reqs, AdoptTerm(i, m),
                pc'[j] = "candidate" => pc[j] = "candidate" /\ (j = i => state'[i] # "Follower")
         PROVE  Sound(j)'
    <2>1. CASE i = j /\ m.term > currentTerm[i]
      BY <1>2, <1>13, <2>1 DEF AdoptTerm, setState, TypeOK
    <2>2. CASE ~(i = j /\ m.term > currentTerm[i])
      <3>1. /\ leader'[j] = leader[j] /\ state'[j] = state[j]
            /\ currentTerm'[j] = currentTerm[j] /\ UNCHANGED elections
        BY <1>13, <2>2 DEF AdoptTerm, setState, TypeOK
      <3>2. QED
        BY <1>1, <1>3, <1>13, <3>1
    <2>3. QED
      BY <2>1, <2>2
  <1>14. ASSUME NEW i \in Server, NEW m \in reqs, RepeatVote(i, m) \/ DenyVote(i, m) PROVE Sound(j)'
    BY <1>11, <1>13, <1>14 DEF RepeatVote, DenyVote
  <1>15. ASSUME NEW i \in Server, NEW m \in reqs, BeginVote(i, m) PROVE Sound(j)'
    <2>1. pc'[j] = "candidate" => j # i /\ pc[j] = "candidate"
      BY <1>15 DEF BeginVote, TypeOK
    <2>2. QED
      BY <1>13, <1>15, <2>1 DEF BeginVote
  <1>16. ASSUME NEW i \in Server, NEW t \in VoteTerms(i), VoteOfNewerTerm(i, t) PROVE Sound(j)'
    BY <1>5, <1>16 DEF VoteOfNewerTerm, TypeOK
  <1>17. ASSUME NEW i \in Server, NEW m \in grants, CountVote(i, m) PROVE Sound(j)'
    BY <1>1, <1>3, <1>17 DEF CountVote, Idle, TypeOK
  <1>18. ASSUME NEW i \in Server, NEW m \in grants, BecomeLeader(i, m) PROVE Sound(j)'
    BY <1>1, <1>18 DEF BecomeLeader, TypeOK
  <1>19. ASSUME NEW i \in Server, NEW e \in elections, AppendEntries(i, e) PROVE Sound(j)'
    <2>1. e \in Nat \X Server /\ UNCHANGED elections /\ Loop(i)
      BY <1>19 DEF AppendEntries, TypeOK
    <2>2. CASE UNCHANGED <<currentTerm, state, leader>>
      BY <1>1, <1>3, <1>11, <2>1, <2>2
    <2>3. CASE /\ state' = [state EXCEPT ![i] = "Follower"]
               /\ currentTerm' = [currentTerm EXCEPT ![i] = e[1]]
               /\ leader' = [leader EXCEPT ![i] = e[2]]
      <3>1. CASE j # i
        BY <1>1, <1>3, <1>11, <2>1, <2>3, <3>1 DEF TypeOK
      <3>2. CASE j = i
        <4>1. /\ pc'[j] # "candidate" /\ state'[j] = "Follower"
              /\ <<currentTerm'[j], leader'[j]>> = e
          BY <1>11, <2>1, <2>3, <3>2 DEF TypeOK
        <4>2. QED
          BY <2>1, <4>1
      <3>3. QED
        BY <3>1, <3>2
    <2>4. QED
      BY <1>19, <2>2, <2>3 DEF AppendEntries
  <1>20. QED
    BY <1>4, <1>6, <1>7, <1>8, <1>9, <1>10, <1>12, <1>14, <1>15, <1>16, <1>17, <1>18, <1>19 DEF Next, Main

-----------------------------------------------------------------------------
(* The first start of every server, NewRaft on an empty stable store. *)
LEMMA InitInv == Init => IInv /\ CandidateLeader /\ KnownLeader
  <1> SUFFICES ASSUME Init PROVE IInv /\ CandidateLeader /\ KnownLeader
    OBVIOUS
  <1>1. TypeOK
    BY DEF Init, TypeOK, NoJob, Locations, Selecting
  <1>2. VoteInv /\ Tally /\ QuorumElected
    BY DEF Init, VoteInv, VoteTermBound, VoteOnDisk, VoteInProgress, VoteOnce, GrantedBy, Tally, QuorumElected
  <1>3. CandidateLeader /\ KnownLeader
    BY DEF Init, CandidateLeader, KnownLeader
  <1>4. QED
    BY <1>1, <1>2, <1>3 DEF IInv

(* The inductive invariant holds in every behaviour: what the stable store *)
(* says of a server's votes, also between the two writes of persistVote,   *)
(* and a quorum of granted votes behind every leadership.                  *)
THEOREM Inductive == Spec => []IInv
  <1>1. IInv /\ [Next]_vars => IInv'
    BY TypeStep, VoteStep, TallyStep, QuorumStep DEF IInv, VoteInv
  <1>2. QED
    BY <1>1, InitInv, PTL DEF Spec

(* Every variable keeps its type, for any cluster and any bounds. *)
THEOREM TypeCorrect == Spec => []TypeOK
  <1>1. IInv => TypeOK
    BY DEF IInv
  <1>2. QED
    BY <1>1, Inductive, PTL

(* No server votes for two candidates in a term, whatever restarts fall    *)
(* between the two writes of persistVote.                                  *)
THEOREM VotesOnce == Spec => []VoteOnce
  <1>1. IInv => VoteOnce
    BY DEF IInv, VoteInv
  <1>2. QED
    BY <1>1, Inductive, PTL

(* At most one server ever leads in a term: the quorums behind two         *)
(* leaderships of a term share a voter, who voted once.                    *)
THEOREM OneLeaderPerTerm == Spec => []ElectionSafety
  <1>1. IInv => ElectionSafety
    <2> SUFFICES ASSUME IInv, NEW e \in elections, NEW f \in elections, e[1] = f[1]
                 PROVE  e[2] = f[2]
      BY DEF ElectionSafety
    <2>1. e[2] \in Server /\ f[2] \in Server
      BY DEF IInv, TypeOK
    <2>2. PICK Q \in SUBSET Server : /\ Cardinality(Q) >= quorumSize(e[2])
                                     /\ \A v \in Q : Vote(e[1], v, e[2]) \in grants
      BY DEF IInv, QuorumElected
    <2>3. PICK R \in SUBSET Server : /\ Cardinality(R) >= quorumSize(f[2])
                                     /\ \A v \in R : Vote(f[1], v, f[2]) \in grants
      BY DEF IInv, QuorumElected
    <2>4. PICK v \in Q : v \in R
      BY <2>1, <2>2, <2>3, QuorumsIntersect
    <2>5. Vote(e[1], v, e[2]) \in grants /\ Vote(e[1], v, f[2]) \in grants
      BY <2>2, <2>3, <2>4
    <2>6. QED
      BY <2>5 DEF IInv, VoteInv, VoteOnce, Vote
  <1>2. QED
    BY <1>1, Inductive, PTL

(* The leader a server knows of, and redirects its clients to, was elected *)
(* in the term the server is in.                                           *)
THEOREM KnownLeaderElected == Spec => []KnownLeader
  <1>1. Init => CandidateLeader /\ KnownLeader
    BY InitInv
  <1>2. QED
    BY <1>1, LeaderStep, TypeCorrect, PTL DEF Spec

(* What is on the stable store only moves forward: neither a server's term *)
(* nor the term of its last vote is ever set back.                         *)
THEOREM StableStoreForward == Spec => DurableForward
  <1>1. IInv /\ [Next]_vars => [Forward]_vars
    BY ForwardStep
  <1>2. QED
    BY <1>1, Inductive, PTL DEF Spec, DurableForward
=============================================================================
