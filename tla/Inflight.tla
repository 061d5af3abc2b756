------------------------------ MODULE Inflight ------------------------------
(***************************************************************************)
(* The commit tracker of one leadership, raft/inflight.go.  dispatchLogs   *)
(* starts entries, the replication goroutines acknowledge ranges of them,  *)
(* leaderLoop takes what is committed, and stepping down cancels the rest. *)
(* Every method runs under one mutex; op is the method that holds it and   *)
(* the loop of that method is taken one index at a time.                   *)
(***************************************************************************)
EXTENDS Integers, Sequences

CONSTANTS Base,       \* last index of the log when the leadership began
          MaxIndex,   \* bound: no entry is started beyond this index
          MaxAcks,    \* bound: acknowledgements of an index
          Needed      \* the quorums newMajorityQuorum may ask for

ASSUME IndexAssumption == Base \in Nat /\ MaxIndex \in Nat /\ Base <= MaxIndex /\ MaxAcks \in Nat
ASSUME NeededAssumption == Needed \subseteq Nat \ {0}

VARIABLES
    operations,     \* indexes of the operations map
    count,          \* majorityQuorum.count of every index ever started
    votesNeeded,    \* majorityQuorum.votesNeeded
    minCommit, maxCommit,
    committed,      \* the committed list, as indexes
    commitCh,       \* "empty", "full" (its buffer holds one) or "closed"
    op,             \* the method holding the mutex: "none", "start" or "range"
    next, to,       \* where its loop is, and ends
    at,             \* the index being notified, or 0
    last,           \* last index the leader has stored
    processed,      \* indexes leaderLoop has taken, in order
    cancelled,      \* indexes answered with ErrLeadershipLost
    taking          \* leaderLoop has received from commitCh, not yet the list

mutex == <<op, next, to, at>>
vars == <<operations, count, votesNeeded, minCommit, maxCommit, committed, commitCh, mutex, last,
          processed, cancelled, taking>>

Index == Base + 1 .. MaxIndex
Free == op = "none"

Init ==
    /\ operations = {} /\ committed = <<>> /\ processed = <<>> /\ cancelled = {}
    /\ count = [i \in Index |-> 0]
    /\ votesNeeded = [i \in Index |-> 0]
    /\ minCommit = 0 /\ maxCommit = 0
    /\ commitCh = "empty"
    /\ op = "none" /\ next = 0 /\ to = 0 /\ at = 0
    /\ last = Base
    /\ taking = FALSE

-----------------------------------------------------------------------------
IsCommitted(i) == count[i] >= votesNeeded[i]

(* dispatchLogs has stored the entries up to index hi, with the quorum of  *)
(* the peer set of the moment, and calls StartAll.                         *)
StartAll(hi, needed) ==
    /\ Free /\ ~taking /\ commitCh # "closed"
    /\ hi > last
    /\ op' = "start" /\ next' = last + 1 /\ to' = hi /\ UNCHANGED at
    /\ votesNeeded' = [i \in Index |-> IF last < i /\ i <= hi THEN needed ELSE votesNeeded[i]]
    /\ last' = hi
    /\ UNCHANGED <<operations, count, minCommit, maxCommit, committed, commitCh, processed, cancelled, taking>>

(* CommitRange, also called after Cancel by a goroutine not stopped yet.   *)
(* The entries acknowledged are in the leader's log; those up to Base were *)
(* never started here.                                                     *)
CommitRange(lo, hi) ==
    LET first == IF minCommit > lo THEN minCommit ELSE lo
    IN  /\ Free /\ first <= hi /\ hi <= last
        /\ \A i \in Index : lo <= i /\ i <= hi => count[i] < MaxAcks
        /\ op' = "range" /\ next' = first /\ to' = hi /\ UNCHANGED at
        /\ UNCHANGED <<operations, count, votesNeeded, minCommit, maxCommit, committed, commitCh, last,
                       processed, cancelled, taking>>

(* The loop goes to its next index, or the method returns. *)
Advance ==
    /\ IF next < to THEN next' = next + 1 /\ UNCHANGED <<op, to>>
                    ELSE op' = "none" /\ next' = 0 /\ to' = 0
    /\ at' = 0

(* Mutant of Counted: an entry need not be the lowest one in flight. *)
CountedAnyOrder(min) ==
    IF count'[next] >= votesNeeded[next]
    THEN at' = next /\ UNCHANGED <<op, next, to>>
    ELSE Advance

(* Mutant of Counted: one acknowledgement less is enough. *)
CountedEarly(min) ==
    IF count'[next] + 1 >= votesNeeded[next] /\ next = min
    THEN at' = next /\ UNCHANGED <<op, next, to>>
    ELSE Advance

(* commit, once it has counted: an entry that has its quorum is notified   *)
(* only if it is the lowest one in flight.                                 *)
Counted(min) ==
    IF count'[next] >= votesNeeded[next] /\ next = min
    THEN at' = next /\ UNCHANGED <<op, next, to>>
    ELSE Advance

(* Mutant of Start: maxCommit is set by the first entry only. *)
StartFirst ==
    /\ op = "start" /\ at = 0
    /\ operations' = operations \cup {next}
    /\ maxCommit' = IF minCommit = 0 THEN next ELSE maxCommit
    /\ minCommit' = IF minCommit = 0 THEN next ELSE minCommit
    /\ count' = [count EXCEPT ![next] = @ + 1]
    /\ Counted(minCommit')
    /\ UNCHANGED <<votesNeeded, committed, commitCh, last, processed, cancelled, taking>>

(* start: track the entry, which is on the leader's own disk. *)
Start ==
    /\ op = "start" /\ at = 0
    /\ operations' = operations \cup {next}
    /\ maxCommit' = IF next > maxCommit THEN next ELSE maxCommit
    /\ minCommit' = IF minCommit = 0 THEN next ELSE minCommit
    /\ count' = [count EXCEPT ![next] = @ + 1]
    /\ Counted(minCommit')
    /\ UNCHANGED <<votesNeeded, committed, commitCh, last, processed, cancelled, taking>>

(* commit of an index that is tracked. *)
Commit ==
    /\ op = "range" /\ at = 0 /\ next \in operations
    /\ count' = [count EXCEPT ![next] = @ + 1]
    /\ Counted(minCommit)
    /\ UNCHANGED <<operations, votesNeeded, minCommit, maxCommit, committed, commitCh, last,
                   processed, cancelled, taking>>

(* commit ignores an index that is not tracked. *)
CommitUntracked ==
    /\ op = "range" /\ at = 0 /\ next \notin operations
    /\ Advance
    /\ UNCHANGED <<operations, count, votesNeeded, minCommit, maxCommit, committed, commitCh, last,
                   processed, cancelled, taking>>

(* Mutant of Notify: the end of the interval is not noticed. *)
NotifyNoReset ==
    /\ at # 0
    /\ committed' = Append(committed, at)
    /\ operations' = operations \ {at}
    /\ minCommit' = minCommit + 1
    /\ Advance /\ commitCh' = "full"
    /\ UNCHANGED <<count, votesNeeded, maxCommit, last, processed, cancelled, taking>>

(* Mutant of Notify: the entry after it is not looked at. *)
NotifyOne ==
    /\ at # 0
    /\ committed' = Append(committed, at)
    /\ operations' = operations \ {at}
    /\ IF at = maxCommit
       THEN minCommit' = 0 /\ maxCommit' = 0
       ELSE minCommit' = minCommit + 1 /\ UNCHANGED maxCommit
    /\ Advance /\ commitCh' = "full"
    /\ UNCHANGED <<count, votesNeeded, last, processed, cancelled, taking>>

(* Mutant of Notify: leaderLoop is woken only when nothing is left. *)
NotifyLast ==
    /\ at # 0
    /\ committed' = Append(committed, at)
    /\ operations' = operations \ {at}
    /\ IF at = maxCommit
       THEN minCommit' = 0 /\ maxCommit' = 0
       ELSE minCommit' = minCommit + 1 /\ UNCHANGED maxCommit
    /\ IF minCommit' # 0 /\ IsCommitted(minCommit')
       THEN at' = minCommit' /\ UNCHANGED <<op, next, to, commitCh>>
       ELSE Advance /\ commitCh' = IF minCommit' = 0 THEN "full" ELSE commitCh
    /\ UNCHANGED <<count, votesNeeded, last, processed, cancelled, taking>>

(* The label NOTIFY: the entry is committed; go on with the one after it   *)
(* if that had its quorum before its turn.                                 *)
Notify ==
    /\ at # 0
    /\ committed' = Append(committed, at)
    /\ operations' = operations \ {at}
    /\ IF at = maxCommit
       THEN minCommit' = 0 /\ maxCommit' = 0
       ELSE minCommit' = minCommit + 1 /\ UNCHANGED maxCommit
    /\ IF minCommit' # 0 /\ IsCommitted(minCommit')
       THEN at' = minCommit' /\ UNCHANGED <<op, next, to, commitCh>>
       ELSE Advance /\ commitCh' = "full"
    /\ UNCHANGED <<count, votesNeeded, last, processed, cancelled, taking>>

(* leaderLoop receives from commitCh; acknowledgements may come in before  *)
(* it has the mutex.                                                       *)
Receive ==
    /\ ~taking /\ commitCh = "full"
    /\ taking' = TRUE
    /\ commitCh' = "empty"
    /\ UNCHANGED <<operations, count, votesNeeded, minCommit, maxCommit, committed, mutex, last,
                   processed, cancelled>>

(* leaderLoop takes the list, empty if an earlier turn has taken it all. *)
Committed ==
    /\ Free /\ taking
    /\ processed' = processed \o committed
    /\ committed' = <<>>
    /\ taking' = FALSE
    /\ UNCHANGED <<operations, count, votesNeeded, minCommit, maxCommit, commitCh, mutex, last, cancelled>>

(* Mutant of Cancel: the operations stay in the map. *)
CancelKeep ==
    /\ Free /\ ~taking /\ commitCh # "closed"
    /\ cancelled' = operations \cup {committed[k] : k \in DOMAIN committed}
    /\ committed' = <<>>
    /\ commitCh' = "closed"
    /\ UNCHANGED <<operations, count, votesNeeded, minCommit, maxCommit, mutex, last, processed, taking>>

(* Mutant of Cancel: entries committed and not yet taken get no answer. *)
CancelInflight ==
    /\ Free /\ ~taking /\ commitCh # "closed"
    /\ cancelled' = operations
    /\ operations' = {}
    /\ committed' = <<>>
    /\ commitCh' = "closed"
    /\ minCommit' = 0 /\ maxCommit' = 0
    /\ UNCHANGED <<count, votesNeeded, mutex, last, processed, taking>>

(* runLeader's cleanup. *)
Cancel ==
    /\ Free /\ ~taking /\ commitCh # "closed"
    /\ cancelled' = operations \cup {committed[k] : k \in DOMAIN committed}
    /\ operations' = {}
    /\ committed' = <<>>
    /\ commitCh' = "closed"
    /\ minCommit' = 0 /\ maxCommit' = 0
    /\ UNCHANGED <<count, votesNeeded, mutex, last, processed, taking>>

Next ==
    \/ \E hi \in Index, needed \in Needed : StartAll(hi, needed)
    \/ \E lo, hi \in 1 .. MaxIndex : CommitRange(lo, hi)
    \/ Start \/ Commit \/ CommitUntracked \/ Notify
    \/ Receive \/ Committed \/ Cancel

Spec == Init /\ [][Next]_vars

-----------------------------------------------------------------------------
Waiting == {committed[k] : k \in DOMAIN committed}
Taken == {processed[k] : k \in DOMAIN processed}

(* Every variable has its type. *)
TypeOK ==
    /\ operations \subseteq Index
    /\ count \in [Index -> Nat]
    /\ votesNeeded \in [Index -> Nat]
    /\ minCommit \in 0 .. MaxIndex /\ maxCommit \in 0 .. MaxIndex
    /\ committed \in Seq(Index) /\ processed \in Seq(Index)
    /\ commitCh \in {"empty", "full", "closed"}
    /\ op \in {"none", "start", "range"}
    /\ next \in 0 .. MaxIndex /\ to \in 0 .. MaxIndex /\ at \in 0 .. MaxIndex
    /\ last \in Base .. MaxIndex
    /\ cancelled \subseteq Index
    /\ taking \in BOOLEAN

(* The operations map holds exactly the indexes from minCommit to          *)
(* maxCommit, so the lookup after NOTIFY never yields a nil operation.     *)
Contiguous ==
    /\ operations = IF minCommit = 0 THEN {} ELSE minCommit .. maxCommit
    /\ minCommit <= maxCommit /\ (minCommit = 0 => maxCommit = 0)

(* Committed: leaderLoop gets the entries in the order of their indexes,   *)
(* none missing and none twice, also when a later entry has its quorum     *)
(* first ("otherwise logs will be applied out of order").                  *)
InOrder ==
    LET s == processed \o committed
    IN  \A k \in DOMAIN s : s[k] = Base + k

(* No entry is handed to leaderLoop without its quorum. *)
QuorumCounted ==
    \A i \in Waiting \cup Taken : count[i] >= votesNeeded[i] /\ votesNeeded[i] > 0

(* commit: an entry that has its quorum and is the lowest one in flight is *)
(* never left waiting once the mutex is free.                              *)
Prompt ==
    Free /\ minCommit # 0 => ~IsCommitted(minCommit)

(* asyncNotifyCh: leaderLoop has a notification waiting, or received and   *)
(* not yet acted on, whenever there is something to take, although a full  *)
(* channel drops notifications.                                            *)
NotifyPending ==
    Free /\ committed # <<>> => commitCh = "full" \/ taking

(* Cancel: after commitCh is closed no late acknowledgement finds an       *)
(* operation to notify, which would send on a closed channel.              *)
ClosedQuiet ==
    commitCh = "closed" => operations = {} /\ op # "start" /\ at = 0 /\ ~taking

(* Every entry started is in one place: in flight, waiting for leaderLoop, *)
(* taken by it, or cancelled; so its future is answered exactly once.      *)
AnsweredOnce ==
    /\ Free => Base + 1 .. last = operations \cup Waiting \cup Taken \cup cancelled
    /\ operations \cap (Waiting \cup Taken \cup cancelled) = {}
    /\ Waiting \cap (Taken \cup cancelled) = {} /\ Taken \cap cancelled = {}
=============================================================================
