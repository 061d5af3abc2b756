---------------------------- MODULE FastIDProofs ----------------------------
(***************************************************************************)
(* Proofs about FastID, for every number of nodes and goroutines and all   *)
(* bit widths.  A successful swap replaces the id that was loaded before   *)
(* the clock was read, so the clock reading is not behind that id's        *)
(* timestamp; the new id is then larger than the last one, which bounds    *)
(* all ids of the node.                                                    *)
(***************************************************************************)
EXTENDS FastID, TLAPS

(* Division with remainder. *)
LEMMA Division ==
    ASSUME NEW a \in Nat, NEW n \in Nat \ {0}
    PROVE  /\ a \div n \in Nat /\ a % n \in Nat
           /\ (a % n) < n
           /\ a = n * (a \div n) + (a % n)
  OBVIOUS

(* The quotient and the remainder of a sum that has their shape. *)
LEMMA DivUnique ==
    ASSUME NEW n \in Nat \ {0}, NEW a \in Nat, NEW r \in Nat, r < n
    PROVE  (a * n + r) \div n = a /\ (a * n + r) % n = r
  OBVIOUS

(* A product grows with its factor. *)
LEMMA Product ==
    ASSUME NEW n \in Nat \ {0}, NEW a \in Nat, NEW b \in Nat, a < b
    PROVE  a * n + n <= b * n
  OBVIOUS

(* A product of naturals is one. *)
LEMMA ProductNat ==
    ASSUME NEW a \in Nat, NEW b \in Nat
    PROVE  a * b \in Nat
  OBVIOUS

(* machineID fits in its bits. *)
LEMMA MachineID ==
    ASSUME NEW g \in Gen
    PROVE  machineID(g) \in Nat /\ machineID(g) < MachineSize
  BY SizeAssumption, IdAssumption, Division DEF machineID

(* What GetTime and GetSequence read is what was put together. *)
LEMMA Parts ==
    ASSUME NEW id \in Nat
    PROVE  /\ GetTime(id) \in Nat /\ GetSequence(id) \in Nat /\ GetSequence(id) < SeqSize
           /\ id \div MachineSize = GetTime(id) * SeqSize + GetSequence(id)
           /\ id < (id \div MachineSize) * MachineSize + MachineSize
  <1> DEFINE q == id \div MachineSize
  <1>1. /\ q \in Nat /\ id % MachineSize \in Nat /\ (id % MachineSize) < MachineSize
        /\ id = MachineSize * q + (id % MachineSize)
    BY SizeAssumption, Division
  <1>2. /\ q \div SeqSize \in Nat /\ q % SeqSize \in Nat /\ (q % SeqSize) < SeqSize
        /\ q = SeqSize * (q \div SeqSize) + (q % SeqSize)
    BY <1>1, SizeAssumption, Division
  <1>3. SeqSize * (q \div SeqSize) = (q \div SeqSize) * SeqSize /\ MachineSize * q = q * MachineSize
    BY <1>1, <1>2, SizeAssumption
  <1>4. id < q * MachineSize + MachineSize
    <2> DEFINE p == q * MachineSize
               r == id % MachineSize
    <2>1. p \in Nat /\ r \in Nat /\ r < MachineSize /\ id = p + r
      BY <1>1, <1>3, SizeAssumption, ProductNat
    <2> HIDE DEF p, r
    <2>2. id < p + MachineSize
      BY <2>1, SizeAssumption
    <2> QED
      BY <2>2 DEF p
  <1> QED
    BY <1>1, <1>2, <1>3, <1>4 DEF GetTime, GetSequence

(* NextID: an id built from a clock reading that is not behind the last    *)
(* id's timestamp.                                                         *)
LEMMA NewIDFacts ==
    ASSUME NEW g \in Gen, NEW id \in Nat, NEW at \in 0 .. TimeSize - 1,
           GetTime(id) <= at, ~Exhausted(id, at)
    PROVE  /\ NewID(g, id, at) \in 0 .. TimeSize * SeqSize * MachineSize - 1
           /\ NewID(g, id, at) > id
           /\ NewID(g, id, at) % MachineSize = machineID(g)
           /\ GetTime(NewID(g, id, at)) = at
  <1> DEFINE s == NextSeq(id, at)
             q == at * SeqSize + s
             m == machineID(g)
  <1>1. m \in Nat /\ m < MachineSize
    BY MachineID
  <1>2. /\ GetTime(id) \in Nat /\ GetSequence(id) \in Nat /\ GetSequence(id) < SeqSize
        /\ id \div MachineSize = GetTime(id) * SeqSize + GetSequence(id)
        /\ id < (id \div MachineSize) * MachineSize + MachineSize
    BY Parts
  <1>3. s \in Nat /\ s < SeqSize
    BY <1>2, SizeAssumption DEF NextSeq, Exhausted
  <1>4. at \in Nat /\ at * SeqSize \in Nat /\ q \in Nat
    BY <1>3, SizeAssumption, ProductNat
  <1>5. id \div MachineSize < q
    <2>1. CASE at > GetTime(id)
      <3>1. GetTime(id) * SeqSize + SeqSize <= at * SeqSize
        BY <2>1, <1>2, <1>4, SizeAssumption, Product
      <3>2. GetTime(id) * SeqSize \in Nat
        BY <1>2, SizeAssumption, ProductNat
      <3> QED
        BY <3>1, <3>2, <1>2, <1>3, <1>4, SizeAssumption
    <2>2. CASE ~(at > GetTime(id))
      <3>1. at = GetTime(id)
        BY <2>2, <1>2, <1>4
      <3>2. s = GetSequence(id) + 1
        BY <2>2 DEF NextSeq
      <3> QED
        BY <3>1, <3>2, <1>2, <1>4
    <2> QED
      BY <2>1, <2>2
  <1>6. q * MachineSize \in Nat /\ NewID(g, id, at) = q * MachineSize + m
    BY <1>4, SizeAssumption, ProductNat DEF NewID
  <1>7. NewID(g, id, at) > id
    <2>1. id \div MachineSize \in Nat
      BY SizeAssumption, Division
    <2>2. (id \div MachineSize) * MachineSize + MachineSize <= q * MachineSize
      BY <2>1, <1>4, <1>5, SizeAssumption, Product
    <2>3. (id \div MachineSize) * MachineSize \in Nat
      BY <2>1, SizeAssumption, ProductNat
    <2> QED
      BY <2>2, <2>3, <1>1, <1>2, <1>6, SizeAssumption
  <1>8. NewID(g, id, at) % MachineSize = m /\ NewID(g, id, at) \div MachineSize = q
    <2> HIDE DEF q, m
    <2>1. (q * MachineSize + m) \div MachineSize = q /\ (q * MachineSize + m) % MachineSize = m
      BY <1>1, <1>4, SizeAssumption, DivUnique
    <2> QED
      BY <2>1, <1>6
  <1>9. GetTime(NewID(g, id, at)) = at
    <2>1. q \div SeqSize = at
      BY <1>3, <1>4, SizeAssumption, DivUnique
    <2> QED
      BY <2>1, <1>8 DEF GetTime
  <1>10. NewID(g, id, at) <= TimeSize * SeqSize * MachineSize - 1
    <2>1. at * SeqSize + SeqSize <= TimeSize * SeqSize
      BY <1>4, SizeAssumption, Product
    <2>2. TimeSize * SeqSize \in Nat
      BY SizeAssumption, ProductNat
    <2>3. q < TimeSize * SeqSize
      BY <2>1, <2>2, <1>3, <1>4, SizeAssumption
    <2>4. q * MachineSize + MachineSize <= TimeSize * SeqSize * MachineSize
      BY <2>2, <2>3, <1>4, SizeAssumption, Product
    <2>5. TimeSize * SeqSize * MachineSize \in Nat
      BY <2>2, SizeAssumption, ProductNat
    <2> QED
      BY <2>4, <2>5, <1>1, <1>6, SizeAssumption
  <1> QED
    BY <1>1, <1>6, <1>7, <1>8, <1>9, <1>10

-----------------------------------------------------------------------------
(* What a call has read: an id not above the last one, and a clock that is *)
(* not behind that id's timestamp.                                         *)
Reads ==
    \A g \in Gen, t \in Thread :
        /\ pc[g][t] = "loaded" => GetTime(local[g][t]) <= clock[g]
        /\ pc[g][t] = "timed" => GetTime(local[g][t]) <= now[g][t] /\ now[g][t] <= clock[g]

(* Every id is one of the node it names, up to that node's last one. *)
Bounded ==
    \A id \in issued : \E g \in Gen : id % MachineSize = machineID(g) /\ id <= lastID[g]

IInv == TypeOK /\ NotAhead /\ Reads /\ Bounded /\ Unique

(* The state NewFastIDWithConfig leaves satisfies the invariant. *)
LEMMA InitInv == Init => IInv
  <1> SUFFICES ASSUME Init PROVE IInv
    OBVIOUS
  <1>1. TimeSize * SeqSize * MachineSize \in Nat \ {0}
    BY SizeAssumption
  <1>2. GetTime(0) = 0
    <2>1. (0 * MachineSize + 0) \div MachineSize = 0 /\ (0 * SeqSize + 0) \div SeqSize = 0
      BY SizeAssumption, DivUnique
    <2> QED
      BY <2>1, SizeAssumption DEF GetTime
  <1>3. TypeOK
    <2> DEFINE Ids == 0 .. TimeSize * SeqSize * MachineSize - 1
               Times == 0 .. TimeSize - 1
    <2>1. repeated \in BOOLEAN
      BY Zenon DEF Init
    <2>2. 0 \in Ids /\ 0 \in Times /\ 0 \in Nat
      BY <1>1, SizeAssumption
    <2> HIDE DEF Ids, Times
    <2>3. clock \in [Gen -> Times] /\ lastID \in [Gen -> Ids]
      BY <2>2 DEF Init
    <2>4. /\ pc \in [Gen -> [Thread -> {"idle", "loaded", "timed"}]]
          /\ local \in [Gen -> [Thread -> Nat]] /\ now \in [Gen -> [Thread -> Times]]
      BY <2>2 DEF Init
    <2>5. issued \subseteq Nat
      BY DEF Init
    <2> QED
      BY <2>1, <2>3, <2>4, <2>5 DEF TypeOK, Ids, Times
  <1>4. NotAhead
    <2> SUFFICES ASSUME NEW g \in Gen PROVE GetTime(lastID[g]) <= clock[g]
      BY DEF NotAhead
    <2>1. lastID[g] = 0 /\ clock[g] = 0
      BY DEF Init
    <2>2. GetTime(lastID[g]) = 0
      BY <2>1, <1>2, Zenon
    <2> QED
      BY <2>1, <2>2
  <1>5. Reads
    BY DEF Init, Reads
  <1> QED
    BY <1>3, <1>4, <1>5 DEF Init, IInv, Bounded, Unique

(* A step that leaves a call's locals alone: time only goes on. *)
LEMMA TickStep ==
    ASSUME IInv, NEW g \in Gen, Tick(g)
    PROVE  IInv'
  <1> USE DEF IInv
  <1>1. /\ clock[g] \in Nat /\ clock[g] + 1 \in 0 .. TimeSize - 1
        /\ clock' = [clock EXCEPT ![g] = clock[g] + 1]
        /\ UNCHANGED <<lastID, pc, local, now, issued, repeated>>
    BY SizeAssumption DEF TypeOK, Tick
  <1>2. TypeOK'
    <2> DEFINE Times == 0 .. TimeSize - 1
    <2> HIDE DEF Times
    <2>1. clock' \in [Gen -> Times]
      <3>1. clock \in [Gen -> Times] /\ clock[g] + 1 \in Times
        BY <1>1 DEF TypeOK, Times
      <3> QED
        BY <3>1, <1>1
    <2> QED
      BY <2>1, <1>1 DEF TypeOK, Times
  <1>3. \A h \in Gen : clock[h] \in Nat /\ clock'[h] \in Nat /\ clock[h] <= clock'[h]
    BY <1>1 DEF TypeOK
  <1>4. NotAhead'
    <2> SUFFICES ASSUME NEW h \in Gen PROVE GetTime(lastID[h]) <= clock'[h]
      BY <1>1 DEF NotAhead
    <2>1. GetTime(lastID[h]) <= clock[h] /\ GetTime(lastID[h]) \in Nat
      BY Parts DEF NotAhead, TypeOK
    <2> QED
      BY <2>1, <1>3
  <1>5. Reads'
    <2> SUFFICES ASSUME NEW h \in Gen, NEW t \in Thread
                 PROVE  /\ pc[h][t] = "loaded" => GetTime(local[h][t]) <= clock'[h]
                        /\ pc[h][t] = "timed" => GetTime(local[h][t]) <= now[h][t] /\ now[h][t] <= clock'[h]
      BY <1>1 DEF Reads
    <2>1. GetTime(local[h][t]) \in Nat /\ now[h][t] \in Nat
      BY Parts DEF TypeOK
    <2> QED
      BY <2>1, <1>3 DEF Reads
  <1>6. Bounded' /\ Unique'
    BY <1>1 DEF Bounded, Unique
  <1> QED
    BY <1>2, <1>4, <1>5, <1>6

(* The typing of the variables a turn of the loop changes. *)
LEMMA TurnStep ==
    ASSUME IInv, NEW g \in Gen, NEW t \in Thread,
           Load(g, t) \/ ReadClock(g, t) \/ Sleep(g, t) \/ SwapFails(g, t)
    PROVE  IInv'
  <1> USE DEF IInv
  <1>1. UNCHANGED <<clock, lastID, issued, repeated>>
    BY DEF Load, ReadClock, Sleep, SwapFails
  <1>2. /\ pc' \in [Gen -> [Thread -> {"idle", "loaded", "timed"}]]
        /\ local' \in [Gen -> [Thread -> Nat]]
    <2>1. lastID[g] \in Nat
      <3>1. TimeSize * SeqSize * MachineSize \in Nat
        BY SizeAssumption, ProductNat
      <3> QED
        BY <3>1 DEF TypeOK
    <2>2. /\ pc \in [Gen -> [Thread -> {"idle", "loaded", "timed"}]]
          /\ local \in [Gen -> [Thread -> Nat]]
      BY DEF TypeOK
    <2>3. CASE Load(g, t)
      <3>1. pc' = [pc EXCEPT ![g][t] = "loaded"] /\ local' = [local EXCEPT ![g][t] = lastID[g]]
        BY <2>3 DEF Load
      <3> QED
        BY <3>1, <2>1, <2>2
    <2>4. CASE ReadClock(g, t)
      <3>1. pc' = [pc EXCEPT ![g][t] = "timed"] /\ local' = local
        BY <2>4 DEF ReadClock
      <3> QED
        BY <3>1, <2>2
    <2>5. CASE Sleep(g, t) \/ SwapFails(g, t)
      <3>1. pc' = [pc EXCEPT ![g][t] = "idle"] /\ local' = [local EXCEPT ![g][t] = 0]
        BY <2>5 DEF Sleep, SwapFails, Done
      <3> QED
        BY <3>1, <2>2
    <2> QED
      BY <2>3, <2>4, <2>5
  <1>3. now' \in [Gen -> [Thread -> 0 .. TimeSize - 1]]
    <2> DEFINE Times == 0 .. TimeSize - 1
    <2>1. 0 \in Times /\ clock[g] \in Times /\ now \in [Gen -> [Thread -> Times]]
      BY SizeAssumption DEF TypeOK
    <2> HIDE DEF Times
    <2>2. now' \in [Gen -> [Thread -> Times]]
      BY <2>1 DEF Load, ReadClock, Sleep, SwapFails, Done
    <2> QED
      BY <2>2 DEF Times
  <1>4. TypeOK'
    BY <1>1, <1>2, <1>3 DEF TypeOK
  <1>5. NotAhead' /\ Bounded' /\ Unique'
    BY <1>1 DEF NotAhead, Bounded, Unique
  <1>6. Reads'
    <2> SUFFICES ASSUME NEW h \in Gen, NEW u \in Thread
                 PROVE  /\ pc'[h][u] = "loaded" => GetTime(local'[h][u]) <= clock[h]
                        /\ pc'[h][u] = "timed" => GetTime(local'[h][u]) <= now'[h][u] /\ now'[h][u] <= clock[h]
      BY <1>1 DEF Reads
    <2>1. CASE Load(g, t)
      <3>1. CASE h = g /\ u = t
        <4>1. pc'[h][u] = "loaded" /\ local'[h][u] = lastID[h]
          BY <2>1, <3>1 DEF TypeOK, Load
        <4> QED
          BY <4>1 DEF NotAhead
      <3>2. CASE ~(h = g /\ u = t)
        <4>1. pc'[h][u] = pc[h][u] /\ local'[h][u] = local[h][u] /\ now'[h][u] = now[h][u]
          BY <2>1, <3>2 DEF TypeOK, Load
        <4> QED
          BY <4>1 DEF Reads
      <3> QED
        BY <3>1, <3>2
    <2>2. CASE ReadClock(g, t)
      <3>1. CASE h = g /\ u = t
        <4>1. /\ pc'[h][u] = "timed" /\ local'[h][u] = local[h][u] /\ now'[h][u] = clock[h]
              /\ pc[h][u] = "loaded" /\ clock[h] \in Nat
          BY <2>2, <3>1 DEF TypeOK, ReadClock
        <4> QED
          BY <4>1 DEF Reads
      <3>2. CASE ~(h = g /\ u = t)
        <4>1. pc'[h][u] = pc[h][u] /\ local'[h][u] = local[h][u] /\ now'[h][u] = now[h][u]
          BY <2>2, <3>2 DEF TypeOK, ReadClock
        <4> QED
          BY <4>1 DEF Reads
      <3> QED
        BY <3>1, <3>2
    <2>3. CASE Sleep(g, t) \/ SwapFails(g, t)
      <3>1. CASE h = g /\ u = t
        <4>1. pc'[h][u] = "idle"
          BY <2>3, <3>1 DEF TypeOK, Sleep, SwapFails, Done
        <4> QED
          BY <4>1
      <3>2. CASE ~(h = g /\ u = t)
        <4>1. pc'[h][u] = pc[h][u] /\ local'[h][u] = local[h][u] /\ now'[h][u] = now[h][u]
          BY <2>3, <3>2 DEF TypeOK, Sleep, SwapFails, Done
        <4> QED
          BY <4>1 DEF Reads
      <3> QED
        BY <3>1, <3>2
    <2> QED
      BY <2>1, <2>2, <2>3
  <1> QED
    BY <1>4, <1>5, <1>6

(* A successful swap. *)
LEMMA SwapStep ==
    ASSUME IInv, NEW g \in Gen, NEW t \in Thread, Swap(g, t)
    PROVE  IInv' /\ lastID'[g] > lastID[g]
  <1> USE DEF IInv
  <1> DEFINE id == NewID(g, local[g][t], now[g][t])
             Ids == 0 .. TimeSize * SeqSize * MachineSize - 1
  <1>1. /\ pc[g][t] = "timed" /\ ~Exhausted(local[g][t], now[g][t]) /\ lastID[g] = local[g][t]
        /\ lastID' = [lastID EXCEPT ![g] = id]
        /\ issued' = issued \cup {id}
        /\ repeated' = (repeated \/ id \in issued)
        /\ UNCHANGED clock
    BY DEF Swap
  <1>2. local[g][t] \in Nat /\ now[g][t] \in 0 .. TimeSize - 1 /\ clock[g] \in Nat
    BY DEF TypeOK
  <1>3. GetTime(local[g][t]) <= now[g][t] /\ now[g][t] <= clock[g]
    BY <1>1 DEF Reads
  <1>4. /\ id \in Ids /\ id > local[g][t] /\ id % MachineSize = machineID(g)
        /\ GetTime(id) = now[g][t]
    BY <1>1, <1>2, <1>3, NewIDFacts
  <1>5. TimeSize * SeqSize * MachineSize \in Nat
    BY SizeAssumption, ProductNat
  <1>6. id \in Nat /\ lastID[g] \in Nat
    BY <1>1, <1>2, <1>4, <1>5
  <1> HIDE DEF id, Ids
  <1>7. lastID'[g] = id /\ \A h \in Gen : h # g => lastID'[h] = lastID[h]
    BY <1>1 DEF TypeOK
  <1>8. \A h \in Gen : lastID[h] \in Nat
    BY <1>5 DEF TypeOK
  <1>9. \A h \in Gen : lastID'[h] \in Nat /\ lastID[h] <= lastID'[h]
    BY <1>1, <1>4, <1>6, <1>7, <1>8
  <1>10. TypeOK'
    <2>1. lastID' \in [Gen -> Ids]
      <3>1. lastID \in [Gen -> Ids]
        BY DEF TypeOK, Ids
      <3> QED
        BY <3>1, <1>1, <1>4
    <2>2. /\ pc' \in [Gen -> [Thread -> {"idle", "loaded", "timed"}]]
          /\ local' \in [Gen -> [Thread -> Nat]]
      BY DEF TypeOK, Swap, Done
    <2>3. now' \in [Gen -> [Thread -> 0 .. TimeSize - 1]]
      <3> DEFINE Times == 0 .. TimeSize - 1
      <3>1. 0 \in Times /\ now \in [Gen -> [Thread -> Times]]
        BY SizeAssumption DEF TypeOK
      <3> HIDE DEF Times
      <3>2. now' \in [Gen -> [Thread -> Times]]
        BY <3>1 DEF Swap, Done
      <3> QED
        BY <3>2 DEF Times
    <2>4. repeated' \in BOOLEAN
      BY <1>1, Zenon
    <2>5. issued' \subseteq Nat
      BY <1>1, <1>6 DEF TypeOK
    <2> QED
      BY <2>1, <2>2, <2>3, <2>4, <2>5, <1>1 DEF TypeOK, Ids
  <1>11. NotAhead'
    <2> SUFFICES ASSUME NEW h \in Gen PROVE GetTime(lastID'[h]) <= clock[h]
      BY <1>1 DEF NotAhead
    <2>1. CASE h = g
      <3>1. GetTime(lastID'[h]) = now[g][t]
        BY <2>1, <1>4, <1>7, Zenon
      <3> QED
        BY <2>1, <3>1, <1>3
    <2>2. CASE h # g
      <3>1. GetTime(lastID'[h]) = GetTime(lastID[h])
        BY <2>2, <1>7, Zenon
      <3> QED
        BY <3>1 DEF NotAhead
    <2> QED
      BY <2>1, <2>2
  <1>12. Reads'
    <2> SUFFICES ASSUME NEW h \in Gen, NEW u \in Thread
                 PROVE  /\ pc'[h][u] = "loaded" => GetTime(local'[h][u]) <= clock[h]
                        /\ pc'[h][u] = "timed" => GetTime(local'[h][u]) <= now'[h][u] /\ now'[h][u] <= clock[h]
      BY <1>1 DEF Reads
    <2>1. CASE h = g /\ u = t
      <3>1. pc'[h][u] = "idle"
        BY <2>1 DEF TypeOK, Swap, Done
      <3> QED
        BY <3>1
    <2>2. CASE ~(h = g /\ u = t)
      <3>1. pc'[h][u] = pc[h][u] /\ local'[h][u] = local[h][u] /\ now'[h][u] = now[h][u]
        BY <2>2 DEF TypeOK, Swap, Done
      <3> QED
        BY <3>1 DEF Reads
    <2> QED
      BY <2>1, <2>2
  <1>13. Bounded'
    <2> SUFFICES ASSUME NEW x \in issued'
                 PROVE  \E h \in Gen : x % MachineSize = machineID(h) /\ x <= lastID'[h]
      BY DEF Bounded
    <2>1. CASE x = id
      BY <2>1, <1>4, <1>6, <1>7
    <2>2. CASE x \in issued
      <3>1. PICK h \in Gen : x % MachineSize = machineID(h) /\ x <= lastID[h]
        BY <2>2 DEF Bounded
      <3>2. x \in Nat
        BY <2>2 DEF TypeOK
      <3>3. x <= lastID'[h]
        BY <3>1, <3>2, <1>8, <1>9
      <3> QED
        BY <3>1, <3>3
    <2> QED
      BY <2>1, <2>2, <1>1
  <1>14. Unique'
    <2>1. ASSUME id \in issued PROVE FALSE
      <3>1. PICK h \in Gen : id % MachineSize = machineID(h) /\ id <= lastID[h]
        BY <2>1 DEF Bounded
      <3>2. h = g
        BY <3>1, <1>4, IdAssumption DEF machineID
      <3> QED
        BY <3>1, <3>2, <1>1, <1>4, <1>6
    <2> QED
      BY <2>1, <1>1, Zenon DEF Unique
  <1>15. lastID'[g] > lastID[g]
    BY <1>1, <1>4, <1>6, <1>7
  <1> QED
    BY <1>10, <1>11, <1>12, <1>13, <1>14, <1>15

(* Every step of NextID and of the clock keeps the invariant. *)
LEMMA NextInv == IInv /\ [Next]_vars => IInv'
  <1> SUFFICES ASSUME IInv, [Next]_vars PROVE IInv'
    OBVIOUS
  <1>1. CASE UNCHANGED vars
    BY <1>1 DEF vars, IInv, TypeOK, NotAhead, Reads, Bounded, Unique
  <1>2. CASE Next
    BY <1>2, TickStep, TurnStep, SwapStep DEF Next, Call
  <1> QED
    BY <1>1, <1>2

(* The inductive invariant holds in every behaviour of NextID. *)
THEOREM Inductive == Spec => []IInv
  <1> QED
    BY InitInv, NextInv, PTL DEF Spec

(* NextID and NewFastIDWithConfig: every variable keeps its type, and no   *)
(* id needs more bits than the fields have.                                *)
THEOREM TypeCorrect == Spec => []TypeOK
  <1>1. IInv => TypeOK
    BY DEF IInv
  <1> QED
    BY <1>1, Inductive, PTL

(* NextID: no two calls return the same id, for any number of nodes and    *)
(* goroutines and any widths of the fields, while no clock goes back.      *)
THEOREM AlwaysUnique == Spec => []Unique
  <1>1. IInv => Unique
    BY DEF IInv
  <1> QED
    BY <1>1, Inductive, PTL

(* NextID: no id carries a timestamp its node's clock has not reached. *)
THEOREM NeverAhead == Spec => []NotAhead
  <1>1. IInv => NotAhead
    BY DEF IInv
  <1> QED
    BY <1>1, Inductive, PTL

(* NextID: the ids of a node only grow. *)
THEOREM AlwaysIncreasing == Spec => Increasing
  <1>1. IInv /\ [Next]_vars => [Larger]_vars
    <2> SUFFICES ASSUME IInv, Next PROVE Larger
      OBVIOUS
    <2> SUFFICES ASSUME NEW h \in Gen PROVE lastID'[h] >= lastID[h]
      BY DEF Larger
    <2>1. TimeSize * SeqSize * MachineSize \in Nat
      BY SizeAssumption, ProductNat
    <2>2. lastID[h] \in Nat
      BY <2>1 DEF IInv, TypeOK
    <2>3. IInv'
      BY NextInv
    <2>4. lastID'[h] \in Nat
      BY <2>1, <2>3 DEF IInv, TypeOK
    <2>5. CASE UNCHANGED lastID
      BY <2>2, <2>5
    <2>6. ASSUME NEW g \in Gen, NEW t \in Thread, Swap(g, t)
          PROVE  lastID'[h] >= lastID[h]
      <3>1. CASE h = g
        BY <3>1, <2>2, <2>4, <2>6, SwapStep
      <3>2. CASE h # g
        <4>1. lastID'[h] = lastID[h]
          BY <3>2, <2>6 DEF Swap, IInv, TypeOK
        <4> QED
          BY <4>1, <2>2
      <3> QED
        BY <3>1, <3>2
    <2> QED
      BY <2>5, <2>6 DEF Next, Call, Tick, Load, ReadClock, Sleep, SwapFails
  <1> QED
    BY <1>1, Inductive, PTL DEF Spec, Increasing
=============================================================================
