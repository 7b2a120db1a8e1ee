---------------------------- MODULE RemoteClient ----------------------------
(***************************************************************************)
(* The round-robin server selection of the remote client                  *)
(* (Client.GetServerAddr in src/pkg/txn/transaction.go).  Every remote     *)
(* Read/Prepare/Commit/Abort of any goroutine picks its server with one    *)
(* GetServerAddr call, so the callers below are concurrent goroutines of   *)
(* one process sharing one Client.  The call is split into the steps it    *)
(* takes under c.mutex so that the interleavings the mutex rules out are   *)
(* visible to the model.                                                   *)
(***************************************************************************)
EXTENDS Naturals

CONSTANTS
    NumServers, \* len(c.ServerAddrList)
    Caller,     \* goroutines calling GetServerAddr
    NoCaller,   \* the mutex is free
    MaxCalls    \* bound on the number of GetServerAddr calls

ASSUME NumServers \in Nat /\ MaxCalls \in Nat

VARIABLES
    curIndex, \* c.curIndex
    holder,   \* the goroutine holding c.mutex, or NoCaller
    pc,       \* where each caller is in GetServerAddr
    calls,    \* GetServerAddr calls begun (bounded by MaxCalls)
    served    \* served[i]: addresses returned of ServerAddrList[i]

vars == <<curIndex, holder, pc, calls, served>>

Index == 0..(NumServers - 1)

(* NewClient: curIndex is the zero value.                                  *)
Init ==
    /\ curIndex = 0
    /\ holder = NoCaller
    /\ pc = [g \in Caller |-> "idle"]
    /\ calls = 0
    /\ served = [i \in Index |-> 0]

(* Mutant: GetServerAddr without c.mutex.                                *)
LockNoMutex(g) ==
    /\ pc[g] = "idle" /\ calls < MaxCalls
    /\ pc' = [pc EXCEPT ![g] = "locked"]
    /\ calls' = calls + 1
    /\ UNCHANGED <<curIndex, holder, served>>

(* c.mutex.Lock() *)
Lock(g) ==
    /\ pc[g] = "idle" /\ holder = NoCaller /\ calls < MaxCalls
    /\ holder' = g
    /\ pc' = [pc EXCEPT ![g] = "locked"]
    /\ calls' = calls + 1
    /\ UNCHANGED <<curIndex, served>>

(* Mutant: the wrap-around test off by one.                               *)
WrapIndexLate(g) ==
    /\ pc[g] = "locked"
    /\ curIndex' = IF curIndex > NumServers THEN 0 ELSE curIndex
    /\ pc' = [pc EXCEPT ![g] = "checked"]
    /\ UNCHANGED <<holder, calls, served>>

(* if c.curIndex >= len(c.ServerAddrList) { c.curIndex = 0 } *)
WrapIndex(g) ==
    /\ pc[g] = "locked"
    /\ curIndex' = IF curIndex >= NumServers THEN 0 ELSE curIndex
    /\ pc' = [pc EXCEPT ![g] = "checked"]
    /\ UNCHANGED <<holder, calls, served>>

(* addr := c.ServerAddrList[c.curIndex]; out of range it panics, which   *)
(* NoIndexPanic rules out before the step is taken.                       *)
ReadAddr(g) ==
    /\ pc[g] = "checked" /\ curIndex \in Index
    /\ served' = [served EXCEPT ![curIndex] = @ + 1]
    /\ pc' = [pc EXCEPT ![g] = "read"]
    /\ UNCHANGED <<curIndex, holder, calls>>

(* c.curIndex++ *)
Increment(g) ==
    /\ pc[g] = "read"
    /\ curIndex' = curIndex + 1
    /\ pc' = [pc EXCEPT ![g] = "incremented"]
    /\ UNCHANGED <<holder, calls, served>>

(* defer c.mutex.Unlock(); return addr *)
Unlock(g) ==
    /\ pc[g] = "incremented"
    /\ holder' = NoCaller
    /\ pc' = [pc EXCEPT ![g] = "idle"]
    /\ UNCHANGED <<curIndex, calls, served>>

(* All calls are done.                                                    *)
Terminated ==
    /\ calls = MaxCalls /\ \A g \in Caller : pc[g] = "idle"
    /\ UNCHANGED vars

Next ==
    \/ \E g \in Caller :
          Lock(g) \/ WrapIndex(g) \/ ReadAddr(g) \/ Increment(g) \/ Unlock(g)
    \/ Terminated

Spec == Init /\ [][Next]_vars

-----------------------------------------------------------------------------
(* No GetServerAddr call indexes ServerAddrList out of range, whatever the *)
(* goroutines interleave: the wrap-around check and the read it guards    *)
(* happen under one hold of c.mutex.                                       *)
NoIndexPanic == \A g \in Caller : pc[g] = "checked" => curIndex \in Index

(* Round robin: whatever the interleaving of concurrent callers, the       *)
(* addresses handed out so far are spread evenly, the earlier entries of  *)
(* ServerAddrList ahead by at most one.  A call that skips or repeats an  *)
(* entry (two callers reading the same curIndex) breaks it.                *)
RoundRobin ==
    \A i, j \in Index :
        i < j => served[j] <= served[i] /\ served[i] <= served[j] + 1
=============================================================================
