------------------------------- MODULE FastID -------------------------------
(***************************************************************************)
(* NextID of package fastid.  A generator is one process's FastID, shared  *)
(* by goroutines without a lock: each loads the last id, reads the clock,  *)
(* and tries to replace the last id it loaded.  An id is a timestamp, a    *)
(* sequence number and a machine id, in bits from the left; the sizes are  *)
(* two to the power of their widths, which add up to less than 64, so no   *)
(* shift overflows.                                                        *)
(*                                                                         *)
(* A timestamp is the clock's reading in units of 2^20 ns since timeStart. *)
(* Here the wall clock never goes back and its reading fits in timeBits;   *)
(* module FastIDClock lets it go back.                                     *)
(***************************************************************************)
EXTENDS Integers

CONSTANTS Gen,          \* the generators, one per node
          Thread,       \* goroutines that call NextID on a generator
          Id,           \* the node ids the generators are configured with
          TimeSize, SeqSize, MachineSize

ASSUME SizeAssumption ==
    TimeSize \in Nat \ {0} /\ SeqSize \in Nat \ {0} /\ MachineSize \in Nat \ {0}

(* Nodes are told apart by the low bits of their ids. *)
ASSUME IdAssumption ==
    /\ Id \in [Gen -> Nat]
    /\ \A g, h \in Gen : Id[g] % MachineSize = Id[h] % MachineSize => g = h

VARIABLES
    clock,      \* the timestamp a generator reads now
    lastID,     \* FastID.lastID
    pc,         \* "idle", "loaded" (lastID read) or "timed" (clock read) of a call
    local,      \* localLastID of a call
    now,        \* now of a call
    issued,     \* the ids returned by all generators
    repeated    \* whether an id was returned that had been returned before

vars == <<clock, lastID, pc, local, now, issued, repeated>>

(* Mutant of machineID: the node id is not masked. *)
machineIDAll(g) == Id[g]

machineID(g) == Id[g] % MachineSize

GetSequence(id) == (id \div MachineSize) % SeqSize

GetTime(id) == (id \div MachineSize) \div SeqSize

Init ==
    /\ clock = [g \in Gen |-> 0] /\ lastID = [g \in Gen |-> 0]
    /\ pc = [g \in Gen |-> [t \in Thread |-> "idle"]]
    /\ local = [g \in Gen |-> [t \in Thread |-> 0]]
    /\ now = [g \in Gen |-> [t \in Thread |-> 0]]
    /\ issued = {} /\ repeated = FALSE

-----------------------------------------------------------------------------
(* NextID, the start of a turn of its loop. *)
Load(g, t) ==
    /\ pc[g][t] = "idle"
    /\ pc' = [pc EXCEPT ![g][t] = "loaded"]
    /\ local' = [local EXCEPT ![g][t] = lastID[g]]
    /\ UNCHANGED <<clock, lastID, now, issued, repeated>>

(* getCurrentTimestamp *)
ReadClock(g, t) ==
    /\ pc[g][t] = "loaded"
    /\ pc' = [pc EXCEPT ![g][t] = "timed"]
    /\ now' = [now EXCEPT ![g][t] = clock[g]]
    /\ UNCHANGED <<clock, lastID, local, issued, repeated>>

(* Mutant of Exhausted: the sequence number is not limited. *)
ExhaustedNever(id, at) == FALSE

(* The sequence numbers of the last id's timestamp are used up. *)
Exhausted(id, at) == at <= GetTime(id) /\ GetSequence(id) >= SeqSize - 1

(* Mutant of NextSeq: the sequence starts again within a timestamp. *)
NextSeqZero(id, at) == IF at >= GetTime(id) THEN 0 ELSE GetSequence(id) + 1

NextSeq(id, at) == IF at > GetTime(id) THEN 0 ELSE GetSequence(id) + 1

NewID(g, id, at) == (at * SeqSize + NextSeq(id, at)) * MachineSize + machineID(g)

(* A turn of the loop ends: the locals are gone. *)
Done(g, t) ==
    /\ pc' = [pc EXCEPT ![g][t] = "idle"]
    /\ local' = [local EXCEPT ![g][t] = 0] /\ now' = [now EXCEPT ![g][t] = 0]

(* The call sleeps, and tries again. *)
Sleep(g, t) ==
    /\ pc[g][t] = "timed" /\ Exhausted(local[g][t], now[g][t])
    /\ Done(g, t)
    /\ UNCHANGED <<clock, lastID, issued, repeated>>

(* Mutant of Swap: the new id is stored whatever lastID is by now. *)
SwapAlways(g, t) ==
    LET id == NewID(g, local[g][t], now[g][t])
    IN  /\ pc[g][t] = "timed" /\ ~Exhausted(local[g][t], now[g][t])
        /\ lastID' = [lastID EXCEPT ![g] = id]
        /\ issued' = issued \cup {id}
        /\ repeated' = (repeated \/ id \in issued)
        /\ Done(g, t)
        /\ UNCHANGED clock

(* CompareAndSwapInt64 succeeds: the call returns the id. *)
Swap(g, t) ==
    LET id == NewID(g, local[g][t], now[g][t])
    IN  /\ pc[g][t] = "timed" /\ ~Exhausted(local[g][t], now[g][t])
        /\ lastID[g] = local[g][t]
        /\ lastID' = [lastID EXCEPT ![g] = id]
        /\ issued' = issued \cup {id}
        /\ repeated' = (repeated \/ id \in issued)
        /\ Done(g, t)
        /\ UNCHANGED clock

(* CompareAndSwapInt64 fails: another call was faster. *)
SwapFails(g, t) ==
    /\ pc[g][t] = "timed" /\ ~Exhausted(local[g][t], now[g][t])
    /\ lastID[g] # local[g][t]
    /\ Done(g, t)
    /\ UNCHANGED <<clock, lastID, issued, repeated>>

(* Time passes. *)
Tick(g) ==
    /\ clock[g] + 1 < TimeSize
    /\ clock' = [clock EXCEPT ![g] = @ + 1]
    /\ UNCHANGED <<lastID, pc, local, now, issued, repeated>>

Call(g, t) == Load(g, t) \/ ReadClock(g, t) \/ Sleep(g, t) \/ Swap(g, t) \/ SwapFails(g, t)

Next == \E g \in Gen : Tick(g) \/ \E t \in Thread : Call(g, t)

Spec == Init /\ [][Next]_vars

-----------------------------------------------------------------------------
(* Every variable has its type; an id fits in its bits. *)
TypeOK ==
    /\ clock \in [Gen -> 0 .. TimeSize - 1]
    /\ lastID \in [Gen -> 0 .. TimeSize * SeqSize * MachineSize - 1]
    /\ pc \in [Gen -> [Thread -> {"idle", "loaded", "timed"}]]
    /\ local \in [Gen -> [Thread -> Nat]]
    /\ now \in [Gen -> [Thread -> 0 .. TimeSize - 1]]
    /\ issued \subseteq Nat
    /\ repeated \in BOOLEAN

(* "unique ID generator": no call of NextID, on any node and by any        *)
(* goroutine, returns an id that another call has returned.                *)
Unique == ~repeated

(* The timestamp in an id is never ahead of the clock: a call whose        *)
(* sequence numbers are used up sleeps and borrows none from the future.   *)
NotAhead == \A g \in Gen : GetTime(lastID[g]) <= clock[g]

Larger == \A g \in Gen : lastID'[g] >= lastID[g]

(* "k-ordered": an id returned by a generator is larger than all that it   *)
(* returned before, also when calls overlap.                               *)
Increasing == [][Larger]_vars
=============================================================================
