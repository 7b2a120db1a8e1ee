-------------------------- MODULE LocalTimeSource --------------------------
(***************************************************************************)
(* The local hybrid logical clock, LocalTimeSource in                      *)
(* src/pkg/txn/transaction.go (lines 519-588).  A mutex serializes         *)
(* GetTime and the background refresh, so each is one atomic step.  The    *)
(* wall clock (time.Now().UnixMilli()) is the variable now, which only     *)
(* moves forward and is bounded by MaxMillis.                              *)
(***************************************************************************)
EXTENDS Naturals

CONSTANTS
    LogicalTimeBits,   \* logicalTimeBits, 6 in NewLocalTimeSource
    MaxMillis          \* how far the wall clock may advance in a run

ASSUME LogicalTimeBits \in Nat /\ MaxMillis \in Nat

VARIABLES
    now,            \* wall-clock milliseconds
    physicalTime,   \* ts.physicalTime
    logicalTime,    \* ts.logicalTime
    last,           \* the timestamp the latest GetTime returned (0: none)
    tickedAt        \* wall-clock millisecond of the latest refresh by the ticker

vars == <<now, physicalTime, logicalTime, last, tickedAt>>

(* maxLogicalTime = (1 << logicalTimeBits) - 1 *)
MaxLogicalTime == 2 ^ LogicalTimeBits - 1

(* The packing multiplier int64(math.Pow10(logicalTimeBits)).              *)
Scale == 10 ^ LogicalTimeBits

(* NewLocalTimeSource: physicalTime = now, logicalTime = 0.                *)
Init ==
    /\ now = 0
    /\ physicalTime = now
    /\ logicalTime = 0
    /\ last = 0
    /\ tickedAt = now

(* One iteration of updatePhysicalTime after a ticker tick.  The ticker    *)
(* period is one millisecond; the model lets it fire at most once in each *)
(* wall-clock millisecond (a late, buffered tick is left out).            *)
Tick ==
    /\ tickedAt < now
    /\ physicalTime' = now
    /\ logicalTime' = 0
    /\ tickedAt' = now
    /\ UNCHANGED <<now, last>>

(* Mutant: the refresh threshold written maxLogicalTime+10.                *)
GetTimeLateRefresh ==
    LET refresh == logicalTime >= MaxLogicalTime + 10
        p == IF refresh THEN now ELSE physicalTime
        l == (IF refresh THEN 0 ELSE logicalTime) + 1
    IN /\ physicalTime' = p
       /\ logicalTime' = l
       /\ last' = p * Scale + l
       /\ UNCHANGED <<now, tickedAt>>

(* GetTime: near the top of the logical range, refresh the physical part   *)
(* from the wall clock and reset the counter; then increment the counter   *)
(* and pack both into one timestamp.                                       *)
GetTime ==
    LET refresh == logicalTime >= MaxLogicalTime - 10
        p == IF refresh THEN now ELSE physicalTime
        l == (IF refresh THEN 0 ELSE logicalTime) + 1
    IN /\ physicalTime' = p
       /\ logicalTime' = l
       /\ last' = p * Scale + l
       /\ UNCHANGED <<now, tickedAt>>

AdvanceWallClock ==
    /\ now < MaxMillis
    /\ now' = now + 1
    /\ UNCHANGED <<physicalTime, logicalTime, last, tickedAt>>

Next == Tick \/ GetTime \/ AdvanceWallClock

Spec == Init /\ [][Next]_vars

-----------------------------------------------------------------------------
(* The type of the clock state; the counter keeps to its logicalTimeBits   *)
(* bits however many GetTime calls fall into one millisecond.              *)
TypeOK ==
    /\ now \in 0..MaxMillis
    /\ physicalTime \in 0..MaxMillis
    /\ logicalTime \in 0..MaxLogicalTime
    /\ last \in Nat
    /\ tickedAt \in 0..MaxMillis

(* Spec P7 / section 4.1: every GetTime returns a timestamp strictly       *)
(* greater than the one returned before it on the same clock.              *)
Monotonic == [][GetTime => last' > last]_vars

=============================================================================
