--------------------------- MODULE InflightProofs ---------------------------
(***************************************************************************)
(* Proofs about Inflight for any first index, any number of entries and    *)
(* any quorums.  The inductive invariant places every index: those before  *)
(* minCommit have been committed in order, those from minCommit to         *)
(* maxCommit are tracked, and the loop that holds the mutex is at the      *)
(* first index not started yet or somewhere among those started.           *)
(***************************************************************************)
EXTENDS Inflight, SequenceTheorems, TLAPS

Done == Len(processed) + Len(committed)

(* The committed entries so far are the first ones, in order. *)
Ordered ==
    /\ \A k \in 1 .. Len(processed) : processed[k] = Base + k
    /\ \A k \in 1 .. Len(committed) : committed[k] = Base + Len(processed) + k

(* The method that holds the mutex is inside its loop. *)
InCall ==
    /\ op = "none" => at = 0
    /\ op # "none" => next <= to /\ 1 <= next /\ to <= last
    /\ op = "start" => to = last /\ Base < next
    /\ at # 0 => at = minCommit /\ IsCommitted(at)

(* Last index started. *)
Started == IF op = "start" THEN IF at = 0 THEN next - 1 ELSE next ELSE last

(* Where minCommit and maxCommit stand. *)
Placed ==
    commitCh # "closed" =>
        /\ minCommit # 0 => minCommit = Base + Done + 1 /\ maxCommit = Started
        /\ minCommit = 0 => Started = Base + Done

(* Nothing is left waiting while no index is being notified. *)
Settled ==
    /\ at = 0 /\ minCommit # 0 => ~IsCommitted(minCommit)
    /\ at = 0 /\ committed # <<>> => commitCh = "full" \/ taking

Closed == commitCh = "closed" => minCommit = 0 /\ committed = <<>> /\ op # "start" /\ at = 0 /\ ~taking

IInv == TypeOK /\ Contiguous /\ Ordered /\ InCall /\ Placed /\ Settled /\ Closed

-----------------------------------------------------------------------------
(* The state newInflight leaves satisfies the invariant. *)
LEMMA InitInv == Init => IInv
  <1> SUFFICES ASSUME Init PROVE IInv
    OBVIOUS
  <1> USE IndexAssumption DEF Init
  <1>0. taking \in BOOLEAN
    BY Zenon
  <1>1. TypeOK
    BY <1>0 DEF TypeOK, Index
  <1>2. Contiguous /\ Ordered /\ InCall /\ Placed /\ Settled /\ Closed
    BY DEF Contiguous, Ordered, InCall, Placed, Settled, Closed, Done, Started
  <1>3. QED
    BY <1>1, <1>2 DEF IInv

(* The entries are numbered from the last index on. *)
LEMMA StartAllStep == ASSUME IInv, NEW hi \in Index, NEW needed \in Needed, StartAll(hi, needed) PROVE IInv'
  <1> USE IndexAssumption, NeededAssumption DEF IInv
  <1>1. TypeOK'
    BY DEF StartAll, TypeOK, Index
  <1>2. Contiguous' /\ Ordered' /\ Closed'
    BY DEF StartAll, Contiguous, Ordered, Closed, InCall, Free
  <1>3. InCall'
    BY DEF StartAll, InCall, TypeOK, Index, Free
  <1>4. Placed'
    BY DEF StartAll, Placed, InCall, Done, Started, TypeOK, Index, Free
  <1>5. Settled'
    <2>1. minCommit # 0 => minCommit \in Index /\ minCommit <= last
      BY DEF Placed, Started, StartAll, Contiguous, Done, Free, TypeOK, Index
    <2>2. minCommit # 0 => votesNeeded'[minCommit] = votesNeeded[minCommit]
      BY <2>1 DEF StartAll, TypeOK, Index
    <2>3. QED
      BY <2>2 DEF StartAll, Settled, IsCommitted
  <1>6. QED
    BY <1>1, <1>2, <1>3, <1>4, <1>5

(* Entering CommitRange changes only where its loop is. *)
LEMMA CommitRangeStep ==
    ASSUME IInv, NEW lo \in 1 .. MaxIndex, NEW hi \in 1 .. MaxIndex, CommitRange(lo, hi)
    PROVE  IInv'
  <1> USE IndexAssumption DEF IInv
  <1>1. TypeOK'
    BY DEF CommitRange, TypeOK, Index
  <1>2. Contiguous' /\ Ordered' /\ Closed'
    BY DEF CommitRange, Contiguous, Ordered, Closed, InCall, Free
  <1>3. InCall'
    BY DEF CommitRange, InCall, TypeOK, Index, Free
  <1>4. Placed' /\ Settled'
    BY DEF CommitRange, Placed, Settled, IsCommitted, Done, Started, TypeOK, Index, Free
  <1>5. QED
    BY <1>1, <1>2, <1>3, <1>4

(* Intervals of indexes grow and shrink at their ends. *)
LEMMA Intervals ==
    ASSUME NEW m \in Nat, NEW n \in Nat, m <= n
    PROVE  /\ (m .. n) \cup {n + 1} = m .. n + 1
           /\ (m .. n) \ {m} = m + 1 .. n
           /\ n .. n = {n}
  OBVIOUS

(* start extends the interval in flight by the index after it. *)
LEMMA StartStep == ASSUME IInv, Start PROVE IInv'
  <1> USE IndexAssumption DEF IInv
  <1>0. /\ next \in Nat /\ to \in Nat /\ last \in Nat /\ minCommit \in Nat /\ maxCommit \in Nat /\ at \in Nat
        /\ Base \in Nat /\ Len(processed) \in Nat /\ Len(committed) \in Nat /\ Done \in Nat
    BY DEF TypeOK, Done
  <1>1. /\ next \in Index /\ next <= last /\ to = last /\ 1 <= next /\ to <= MaxIndex
        /\ minCommit # 0 => maxCommit = next - 1 /\ minCommit <= maxCommit /\ minCommit = Base + Done + 1
        /\ minCommit = 0 => next = Base + Done + 1 /\ maxCommit = 0
        /\ commitCh # "closed" /\ maxCommit' = next
    BY <1>0 DEF Start, InCall, Closed, Placed, Contiguous, Started, TypeOK, Index
  <1>2. Contiguous'
    <2>1. CASE minCommit = 0
      BY <1>0, <1>1, <2>1, Intervals DEF Start, Contiguous
    <2>2. CASE minCommit # 0
      <3>1. operations' = (minCommit .. next - 1) \cup {next}
        BY <1>1, <2>2 DEF Start, Contiguous
      <3>2. operations' = minCommit .. next
        BY <1>0, <1>1, <2>2, <3>1, Intervals
      <3>3. QED
        BY <1>0, <1>1, <2>2, <3>2 DEF Start, Contiguous
    <2>3. QED
      BY <2>1, <2>2
  <1>3. Ordered' /\ Done' = Done
    BY DEF Start, Ordered, Done
  <1>4. /\ count' = [count EXCEPT ![next] = count[next] + 1] /\ operations' = operations \cup {next}
        /\ minCommit' = (IF minCommit = 0 THEN next ELSE minCommit)
        /\ UNCHANGED <<votesNeeded, committed, commitCh, last, processed, cancelled, taking>>
    BY DEF Start
  <1>5. ASSUME op' \in {"none", "start", "range"}, next' \in 0 .. MaxIndex, to' \in 0 .. MaxIndex,
               at' \in 0 .. MaxIndex
        PROVE  TypeOK'
    <2>1. count' \in [Index -> Nat] /\ operations' \subseteq Index
      BY <1>1, <1>4 DEF TypeOK
    <2>2. minCommit' \in 0 .. MaxIndex /\ maxCommit' \in 0 .. MaxIndex
      BY <1>0, <1>1, <1>4 DEF TypeOK
    <2>3. QED
      BY <1>4, <1>5, <2>1, <2>2 DEF TypeOK
  <1>6. CASE count'[next] >= votesNeeded[next] /\ next = minCommit'
    <2>1. at' = next /\ UNCHANGED <<op, next, to>>
      BY <1>6 DEF Start, Counted
    <2>2. TypeOK'
      BY <1>0, <1>1, <1>5, <2>1 DEF TypeOK
    <2>3. InCall' /\ Closed'
      BY <1>0, <1>1, <1>4, <1>6, <2>1 DEF Start, InCall, Closed, IsCommitted
    <2>4. Placed' /\ Settled'
      BY <1>0, <1>1, <1>3, <1>4, <1>6, <2>1 DEF Start, Placed, Settled, Started
    <2>5. QED
      BY <1>2, <1>3, <2>2, <2>3, <2>4
  <1>7. CASE ~(count'[next] >= votesNeeded[next] /\ next = minCommit')
    <2>1. Advance /\ op = "start"
      BY <1>7 DEF Start, Counted
    <2>2. TypeOK'
      BY <1>0, <1>1, <1>5, <2>1 DEF Advance
    <2>3. InCall' /\ Closed'
      BY <1>0, <1>1, <1>4, <2>1 DEF Advance, InCall, Closed
    <2>4. Placed'
      BY <1>0, <1>1, <1>3, <1>4, <2>1 DEF Advance, Placed, Started
    <2>5. Settled'
      <3>1. ASSUME minCommit' # 0 PROVE ~(count'[minCommit'] >= votesNeeded[minCommit'])
        BY <1>0, <1>1, <1>4, <1>7 DEF Start, Settled, IsCommitted, TypeOK
      <3>2. QED
        BY <1>4, <2>1, <3>1 DEF Start, Settled, IsCommitted
    <2>6. QED
      BY <1>2, <1>3, <2>2, <2>3, <2>4, <2>5
  <1>8. QED
    BY <1>6, <1>7

(* commit counts an index that is tracked. *)
LEMMA CommitStep == ASSUME IInv, Commit PROVE IInv'
  <1> USE IndexAssumption DEF IInv
  <1>0. /\ next \in Nat /\ to \in Nat /\ last \in Nat /\ minCommit \in Nat /\ maxCommit \in Nat /\ at \in Nat
        /\ Base \in Nat /\ Len(processed) \in Nat /\ Len(committed) \in Nat /\ Done \in Nat
    BY DEF TypeOK, Done
  <1>1. /\ next \in Index /\ next <= to /\ to <= last /\ to <= MaxIndex /\ 1 <= next /\ op = "range" /\ at = 0
        /\ minCommit # 0 /\ commitCh # "closed"
    BY <1>0 DEF Commit, InCall, Contiguous, Closed, TypeOK
  <1>2. /\ count' = [count EXCEPT ![next] = count[next] + 1]
        /\ UNCHANGED <<operations, votesNeeded, minCommit, maxCommit, committed, commitCh, last, processed,
                       cancelled, taking>>
    BY DEF Commit
  <1>3. Contiguous' /\ Ordered' /\ Done' = Done
    BY <1>2 DEF Contiguous, Ordered, Done
  <1>4. ASSUME op' \in {"none", "start", "range"}, next' \in 0 .. MaxIndex, to' \in 0 .. MaxIndex,
               at' \in 0 .. MaxIndex
        PROVE  TypeOK'
    <2>1. count' \in [Index -> Nat]
      BY <1>1, <1>2 DEF TypeOK
    <2>2. QED
      BY <1>2, <1>4, <2>1 DEF TypeOK
  <1>5. CASE count'[next] >= votesNeeded[next] /\ next = minCommit
    <2>1. at' = next /\ UNCHANGED <<op, next, to>>
      BY <1>5 DEF Commit, Counted
    <2>2. TypeOK'
      BY <1>0, <1>1, <1>4, <2>1 DEF TypeOK
    <2>3. InCall' /\ Closed'
      BY <1>0, <1>1, <1>2, <1>5, <2>1 DEF InCall, Closed, IsCommitted
    <2>4. Placed' /\ Settled'
      BY <1>0, <1>1, <1>2, <1>3, <2>1 DEF Placed, Settled, Started
    <2>5. QED
      BY <1>3, <2>2, <2>3, <2>4
  <1>6. CASE ~(count'[next] >= votesNeeded[next] /\ next = minCommit)
    <2>1. Advance
      BY <1>6 DEF Commit, Counted
    <2>2. TypeOK'
      BY <1>0, <1>1, <1>4, <2>1 DEF Advance
    <2>3. InCall' /\ Closed'
      BY <1>0, <1>1, <1>2, <2>1 DEF Advance, InCall, Closed
    <2>4. Placed'
      BY <1>0, <1>1, <1>2, <1>3, <2>1 DEF Advance, Placed, Started
    <2>5. Settled'
      <3>1. ~(count'[minCommit] >= votesNeeded[minCommit])
        BY <1>0, <1>1, <1>2, <1>6 DEF Settled, IsCommitted, TypeOK
      <3>2. QED
        BY <1>1, <1>2, <2>1, <3>1 DEF Settled, IsCommitted
    <2>6. QED
      BY <1>3, <2>2, <2>3, <2>4, <2>5
  <1>7. QED
    BY <1>5, <1>6

(* commit leaves everything alone for an index that is not tracked. *)
LEMMA CommitUntrackedStep == ASSUME IInv, CommitUntracked PROVE IInv'
  <1> USE IndexAssumption DEF IInv
  <1>0. /\ next \in Nat /\ to \in Nat /\ last \in Nat /\ minCommit \in Nat /\ maxCommit \in Nat /\ at \in Nat
        /\ Base \in Nat /\ Len(processed) \in Nat /\ Len(committed) \in Nat /\ Done \in Nat
    BY DEF TypeOK, Done
  <1>1. /\ next <= to /\ to <= last /\ to <= MaxIndex /\ 1 <= next /\ op = "range" /\ at = 0
        /\ Advance
        /\ UNCHANGED <<operations, count, votesNeeded, minCommit, maxCommit, committed, commitCh, last,
                       processed, cancelled, taking>>
    BY <1>0 DEF CommitUntracked, InCall, TypeOK
  <1>2. Contiguous' /\ Ordered' /\ Done' = Done
    BY <1>1 DEF Contiguous, Ordered, Done
  <1>3. TypeOK'
    <2>1. op' \in {"none", "start", "range"} /\ next' \in 0 .. MaxIndex /\ to' \in 0 .. MaxIndex
          /\ at' \in 0 .. MaxIndex
      BY <1>0, <1>1 DEF Advance
    <2>2. QED
      BY <1>1, <2>1 DEF TypeOK
  <1>4. InCall' /\ Closed' /\ Settled'
    BY <1>0, <1>1 DEF Advance, InCall, Closed, Settled, IsCommitted
  <1>5. Placed'
    BY <1>0, <1>1, <1>2 DEF Advance, Placed, Started
  <1>6. QED
    BY <1>2, <1>3, <1>4, <1>5

(* The entry at minCommit joins the committed ones: the next index is the  *)
(* one after it, or nothing is left in flight.                             *)
LEMMA NotifyStep == ASSUME IInv, Notify PROVE IInv'
  <1> USE IndexAssumption DEF IInv
  <1>0. /\ next \in Nat /\ to \in Nat /\ last \in Nat /\ minCommit \in Nat /\ maxCommit \in Nat /\ at \in Nat
        /\ Base \in Nat /\ Len(processed) \in Nat /\ Len(committed) \in Nat /\ Done \in Nat
    BY DEF TypeOK, Done
  <1>1. /\ at = minCommit /\ minCommit # 0 /\ commitCh # "closed" /\ op # "none" /\ at \in Index
        /\ minCommit = Base + Done + 1 /\ maxCommit = Started /\ minCommit <= maxCommit
        /\ next <= to /\ 1 <= next /\ to <= last /\ last <= MaxIndex
        /\ operations = minCommit .. maxCommit
    BY <1>0 DEF Notify, InCall, Closed, Placed, Contiguous, TypeOK, Index
  <1>2. /\ committed' = Append(committed, at) /\ operations' = operations \ {at}
        /\ UNCHANGED <<count, votesNeeded, last, processed, cancelled, taking>>
    BY DEF Notify
  <1>3. /\ Len(committed') = Len(committed) + 1 /\ committed' \in Seq(Index) /\ committed' # <<>>
        /\ \A k \in 1 .. Len(committed') :
              committed'[k] = IF k = Len(committed) + 1 THEN at ELSE committed[k]
    BY <1>0, <1>1, <1>2, AppendProperties DEF TypeOK
  <1>4. Done' = Done + 1
    BY <1>0, <1>2, <1>3 DEF Done
  <1>5. Ordered'
    <2>1. \A k \in 1 .. Len(processed') : processed'[k] = Base + k
      BY <1>2 DEF Ordered
    <2>2. at = Base + Len(processed) + (Len(committed) + 1)
      BY <1>0, <1>1 DEF Done
    <2>3. ASSUME NEW k \in 1 .. Len(committed') PROVE committed'[k] = Base + Len(processed) + k
      <3>1. CASE k = Len(committed) + 1
        BY <1>3, <2>2, <3>1
      <3>2. CASE k # Len(committed) + 1
        <4>1. k \in 1 .. Len(committed)
          BY <1>0, <1>3, <3>2
        <4>2. QED
          BY <1>3, <3>2, <4>1 DEF Ordered
      <3>3. QED
        BY <3>1, <3>2
    <2>4. QED
      BY <1>2, <2>1, <2>3 DEF Ordered
  <1>6. /\ minCommit' = IF minCommit = maxCommit THEN 0 ELSE minCommit + 1
        /\ maxCommit' = IF minCommit = maxCommit THEN 0 ELSE maxCommit
    BY <1>1 DEF Notify
  <1>7. Contiguous'
    <2>1. CASE minCommit = maxCommit
      BY <1>0, <1>1, <1>2, <1>6, <2>1, Intervals DEF Contiguous
    <2>2. CASE minCommit # maxCommit
      <3>1. operations' = minCommit + 1 .. maxCommit
        BY <1>0, <1>1, <1>2, Intervals
      <3>2. QED
        BY <1>0, <1>1, <1>6, <2>2, <3>1 DEF Contiguous
    <2>3. QED
      BY <2>1, <2>2
  <1>8. ASSUME op' \in {"none", "start", "range"}, next' \in 0 .. MaxIndex, to' \in 0 .. MaxIndex,
               at' \in 0 .. MaxIndex, commitCh' \in {"empty", "full", "closed"}
        PROVE  TypeOK'
    <2>1. minCommit' \in 0 .. MaxIndex /\ maxCommit' \in 0 .. MaxIndex
      BY <1>0, <1>1, <1>6 DEF TypeOK
    <2>2. operations' \subseteq Index
      BY <1>2 DEF TypeOK
    <2>3. QED
      BY <1>2, <1>3, <1>8, <2>1, <2>2 DEF TypeOK
  <1>9. CASE minCommit' # 0 /\ IsCommitted(minCommit')
    <2>1. at' = minCommit' /\ UNCHANGED <<op, next, to, commitCh>>
      BY <1>9 DEF Notify
    <2>2. TypeOK'
      <3>1. minCommit' \in 0 .. MaxIndex /\ next \in 0 .. MaxIndex /\ to \in 0 .. MaxIndex
            /\ op \in {"none", "start", "range"} /\ commitCh \in {"empty", "full", "closed"}
        BY <1>0, <1>1, <1>6 DEF TypeOK
      <3>2. QED
        BY <1>8, <2>1, <3>1
    <2>3. InCall' /\ Closed' /\ Settled'
      BY <1>0, <1>1, <1>2, <1>9, <2>1 DEF InCall, Closed, Settled, IsCommitted
    <2>4. Placed'
      BY <1>0, <1>1, <1>2, <1>4, <1>6, <1>9, <2>1 DEF Placed, Started
    <2>5. QED
      BY <1>5, <1>7, <2>2, <2>3, <2>4
  <1>10. CASE ~(minCommit' # 0 /\ IsCommitted(minCommit'))
    <2>1. Advance /\ commitCh' = "full"
      BY <1>10 DEF Notify
    <2>2. TypeOK'
      <3>1. op \in {"none", "start", "range"}
        BY DEF TypeOK
      <3>2. QED
        BY <1>0, <1>1, <1>8, <2>1, <3>1 DEF Advance
    <2>3. InCall' /\ Closed'
      BY <1>0, <1>1, <1>2, <2>1 DEF Advance, InCall, Closed
    <2>4. Settled'
      BY <1>2, <1>10, <2>1 DEF Settled, IsCommitted
    <2>5. Placed'
      BY <1>0, <1>1, <1>2, <1>4, <1>6, <2>1 DEF Advance, Placed, InCall, Started
    <2>6. QED
      BY <1>5, <1>7, <2>2, <2>3, <2>4, <2>5
  <1>11. QED
    BY <1>9, <1>10

(* leaderLoop takes the notification. *)
LEMMA ReceiveStep == ASSUME IInv, Receive PROVE IInv'
  <1> USE IndexAssumption DEF IInv, mutex, Receive
  <1>1. TypeOK'
    BY DEF TypeOK
  <1>2. Contiguous' /\ Ordered' /\ Closed'
    BY DEF Contiguous, Ordered, Closed
  <1>3. InCall' /\ Settled'
    BY DEF InCall, Settled, IsCommitted
  <1>4. Placed'
    BY DEF Placed, Started, Done
  <1>5. QED
    BY <1>1, <1>2, <1>3, <1>4

(* leaderLoop takes the list, which is in the order of the indexes. *)
LEMMA CommittedStep == ASSUME IInv, Committed PROVE IInv'
  <1> USE IndexAssumption DEF IInv, mutex
  <1>0. /\ next \in Nat /\ to \in Nat /\ last \in Nat /\ minCommit \in Nat /\ maxCommit \in Nat /\ at \in Nat
        /\ Base \in Nat /\ Len(processed) \in Nat /\ Len(committed) \in Nat /\ Done \in Nat
    BY DEF TypeOK, Done
  <1>1. /\ processed' = processed \o committed /\ committed' = <<>> /\ taking /\ taking' = FALSE
        /\ UNCHANGED <<operations, count, votesNeeded, minCommit, maxCommit, op, next, to, at, last, commitCh,
                       cancelled>>
    BY DEF Committed
  <1>2. /\ processed' \in Seq(Index) /\ committed' \in Seq(Index)
        /\ Len(processed') = Len(processed) + Len(committed) /\ Len(committed') = 0
        /\ \A k \in 1 .. Len(processed') :
              processed'[k] = IF k <= Len(processed) THEN processed[k] ELSE committed[k - Len(processed)]
    BY <1>1, ConcatProperties, EmptySeq DEF TypeOK
  <1>3. Done' = Done
    BY <1>0, <1>2 DEF Done
  <1>4. Ordered'
    BY <1>0, <1>1, <1>2 DEF Ordered
  <1>5. TypeOK'
    BY <1>1, <1>2 DEF TypeOK
  <1>6. Contiguous' /\ InCall' /\ Settled' /\ Closed'
    BY <1>1 DEF Contiguous, InCall, Settled, Closed, IsCommitted
  <1>7. Placed'
    BY <1>1, <1>3 DEF Placed, Started
  <1>8. QED
    BY <1>4, <1>5, <1>6, <1>7

(* Cancel leaves nothing in flight. *)
LEMMA CancelStep == ASSUME IInv, Cancel PROVE IInv'
  <1> USE IndexAssumption DEF IInv, mutex
  <1>1. /\ committed' = <<>> /\ operations' = {} /\ commitCh' = "closed" /\ minCommit' = 0 /\ maxCommit' = 0
        /\ op = "none" /\ at = 0 /\ ~taking
        /\ UNCHANGED <<count, votesNeeded, op, next, to, at, last, processed, taking>>
    BY DEF Cancel, Free, InCall
  <1>2. cancelled' \subseteq Index
    BY ElementOfSeq DEF Cancel, TypeOK
  <1>3. TypeOK'
    BY <1>1, <1>2, EmptySeq DEF TypeOK
  <1>4. Contiguous' /\ Ordered' /\ InCall' /\ Placed' /\ Settled' /\ Closed'
    BY <1>1, EmptySeq DEF Contiguous, Ordered, InCall, Placed, Settled, Closed
  <1>5. QED
    BY <1>3, <1>4

-----------------------------------------------------------------------------
(* The inductive invariant holds in every behaviour of the tracker. *)
THEOREM Inductive == Spec => []IInv
  <1>1. IInv /\ [Next]_vars => IInv'
    <2> SUFFICES ASSUME IInv, [Next]_vars PROVE IInv'
      OBVIOUS
    <2>1. CASE UNCHANGED vars
      BY <2>1 DEF vars, mutex, IInv, TypeOK, Contiguous, Ordered, InCall, Placed, Settled, Closed, Done,
         Started, IsCommitted
    <2>2. CASE Next
      BY <2>2, StartAllStep, CommitRangeStep, StartStep, CommitStep, CommitUntrackedStep, NotifyStep,
         ReceiveStep, CommittedStep, CancelStep DEF Next
    <2>3. QED
      BY <2>1, <2>2
  <1>2. QED
    BY <1>1, InitInv, PTL DEF Spec

(* The tracker's variables keep their types: no index leaves the range of  *)
(* the entries the leader has stored.                                      *)
THEOREM TypeCorrect == Spec => []TypeOK
  <1>1. IInv => TypeOK
    BY DEF IInv
  <1>2. QED
    BY <1>1, Inductive, PTL

(* The operations map is the interval from minCommit to maxCommit for any  *)
(* number of entries and any quorums: NOTIFY never looks up a missing one. *)
THEOREM AlwaysContiguous == Spec => []Contiguous
  <1>1. IInv => Contiguous
    BY DEF IInv
  <1>2. QED
    BY <1>1, Inductive, PTL

(* leaderLoop gets every entry once, in the order of the indexes. *)
THEOREM AlwaysInOrder == Spec => []InOrder
  <1>1. IInv => InOrder
    <2> SUFFICES ASSUME IInv PROVE InOrder
      OBVIOUS
    <2> USE IndexAssumption
    <2>1. /\ processed \in Seq(Index) /\ committed \in Seq(Index) /\ Len(processed) \in Nat /\ Len(committed) \in Nat
      BY DEF IInv, TypeOK
    <2>2. /\ Len(processed \o committed) = Len(processed) + Len(committed)
          /\ DOMAIN (processed \o committed) = 1 .. Len(processed) + Len(committed)
          /\ \A k \in 1 .. Len(processed) + Len(committed) : (processed \o committed)[k] =
               IF k <= Len(processed) THEN processed[k] ELSE committed[k - Len(processed)]
      BY <2>1, ConcatProperties, LenProperties
    <2>3. ASSUME NEW k \in 1 .. Len(processed) + Len(committed) PROVE (processed \o committed)[k] = Base + k
      BY <2>1, <2>2 DEF IInv, Ordered
    <2>4. QED
      BY <2>2, <2>3 DEF InOrder
  <1>2. QED
    BY <1>1, Inductive, PTL

(* No entry that has its quorum is left behind in the tracker. *)
THEOREM AlwaysPrompt == Spec => []Prompt
  <1>1. IInv => Prompt
    BY DEF IInv, Settled, InCall, Prompt, Free
  <1>2. QED
    BY <1>1, Inductive, PTL

(* No committed entry waits without a notification. *)
THEOREM AlwaysNotified == Spec => []NotifyPending
  <1>1. IInv => NotifyPending
    BY DEF IInv, Settled, InCall, NotifyPending, Free
  <1>2. QED
    BY <1>1, Inductive, PTL

(* After Cancel nothing is sent on the closed channel. *)
THEOREM AlwaysClosedQuiet == Spec => []ClosedQuiet
  <1>1. IInv => ClosedQuiet
    BY DEF IInv, Contiguous, Closed, ClosedQuiet
  <1>2. QED
    BY <1>1, Inductive, PTL
=============================================================================
