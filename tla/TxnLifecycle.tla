---------------------------- MODULE TxnLifecycle ----------------------------
(***************************************************************************)
(* One Transaction object of src/pkg/txn/transaction.go seen through its   *)
(* API: the constructors, AddDatastore(s), SetGlobalDatastore, Start,      *)
(* Read/Write/Delete, Commit and Abort, in any order a client may call     *)
(* them, together with the `go t.Abort()` goroutines a failed Commit       *)
(* spawns.                                                                 *)
(* What the calls do to records and TSRs is the business of Transaction;   *)
(* here a datastore is a name and the commit protocol is its outcome.      *)
(*                                                                         *)
(* The transaction takes its start and commit times from a LocalTimeSource *)
(* (the TimeSourcer NewTransactionWithRemote is given) that the other      *)
(* transactions of the process call as well.                               *)
(*                                                                         *)
(* The StateMachine is not under src/; its edges follow spec.md 4.4:       *)
(* EMPTY->STARTED, STARTED->COMMITTED, STARTED->ABORTED, COMMITTED->ABORTED *)
(* and SetState fails on any other.                                        *)
(***************************************************************************)
EXTENDS Naturals, FiniteSets

CONSTANTS
    DsName,           \* names of the datastores a client may add
    LogicalTimeBits,  \* of the LocalTimeSource
    MaxMillis         \* how far the wall clock may advance in a run

VARIABLES
    tstate,        \* StateMachine state
    dss,           \* the names in t.dataStoreMap
    global,        \* t.tsrMaintainer is set
    txnId,         \* t.TxnId has been generated
    startTime,     \* t.TxnStartTime has been taken from the time source
    dsStarted,     \* datastores whose ds.Start() ran in this transaction
    readOnly,      \* t.isReadOnly
    abortPending,  \* a spawned `go t.Abort()` has not run yet
    panicked,      \* a nil-pointer dereference has ended the process
    blankUse,      \* history: a datastore or TSR call carried the TxnId or
                   \* TxnStartTime before Start had set it
    now, physicalTime, logicalTime, last, tickedAt  \* the LocalTimeSource

clockVars == <<now, physicalTime, logicalTime, last, tickedAt>>
txnVars == <<tstate, dss, global, txnId, startTime, dsStarted, readOnly,
             abortPending, panicked, blankUse>>
vars == <<txnVars, clockVars>>

LTS == INSTANCE LocalTimeSource

(* The edges SetState accepts.                                             *)
CanSetState(from, to) ==
    <<from, to>> \in {<<"EMPTY", "STARTED">>, <<"STARTED", "COMMITTED">>,
                      <<"STARTED", "ABORTED">>, <<"COMMITTED", "ABORTED">>}

(* NewTransaction / NewTransactionWithRemote: an empty dataStoreMap, no    *)
(* tsrMaintainer, isReadOnly true, a new StateMachine.                     *)
Init ==
    /\ tstate = "EMPTY"
    /\ dss = {}
    /\ global = FALSE
    /\ txnId = FALSE
    /\ startTime = FALSE
    /\ dsStarted = {}
    /\ readOnly = TRUE
    /\ abortPending = FALSE
    /\ panicked = FALSE
    /\ blankUse = FALSE
    /\ LTS!Init

-----------------------------------------------------------------------------
(* AddDatastore: a name already in the map is "duplicated datastore name"; *)
(* there is no state check, so it may come after Start.                    *)
AddDatastore(n) ==
    /\ ~panicked /\ n \notin dss
    /\ dss' = dss \cup {n}
    /\ UNCHANGED <<tstate, global, txnId, startTime, dsStarted, readOnly,
                   abortPending, panicked, blankUse, clockVars>>

(* AddDatastores(a, b): AddDatastore in turn, returning at the first       *)
(* error; the names added before it stay added.                            *)
AddDatastores(a, b) ==
    LET first == IF a \in dss THEN {} ELSE {a}
        second == IF a \notin dss /\ b \notin dss \cup {a} THEN {b} ELSE {}
    IN /\ ~panicked /\ first # {}
       /\ dss' = dss \cup first \cup second
       /\ UNCHANGED <<tstate, global, txnId, startTime, dsStarted, readOnly,
                      abortPending, panicked, blankUse, clockVars>>

(* SetGlobalDatastore: the TSRMaintainer assertion; no state check.        *)
SetGlobalDatastore ==
    /\ ~panicked /\ ~global
    /\ global' = TRUE
    /\ UNCHANGED <<tstate, dss, txnId, startTime, dsStarted, readOnly,
                   abortPending, panicked, blankUse, clockVars>>

(* Start: SetState(STARTED) first; then "global datastore not set", "no    *)
(* datastores added", GenerateId, getTime("start"), and ds.Start() on the  *)
(* datastores in map order, returning at the first that fails.             *)
Start ==
    /\ ~panicked /\ CanSetState(tstate, "STARTED")
    /\ tstate' = "STARTED"
    /\ \/ /\ ~global
          /\ UNCHANGED <<txnId, startTime, dsStarted, clockVars>>
       \/ /\ global /\ dss = {}
          /\ UNCHANGED <<txnId, startTime, dsStarted, clockVars>>
       \/ /\ global /\ dss # {}
          /\ txnId' = TRUE
          /\ LTS!GetTime /\ startTime' = TRUE
          /\ \E started \in SUBSET dss : dsStarted' = started
    /\ UNCHANGED <<dss, global, readOnly, abortPending, panicked, blankUse>>

(* Read: CheckState(STARTED); ds.Read of a datastore in the map reads the   *)
(* snapshot at t.TxnStartTime; any other name is "datastore not found".   *)
Read(n) ==
    /\ ~panicked /\ tstate = "STARTED" /\ n \in dss
    /\ blankUse' = (blankUse \/ ~startTime)
    /\ UNCHANGED <<tstate, dss, global, txnId, startTime, dsStarted, readOnly,
                   abortPending, panicked, clockVars>>

(* Write and Delete: CheckState(STARTED); isReadOnly is cleared before the *)
(* datastore is looked up, so also when it is "datastore not found".       *)
Write(n) ==
    /\ ~panicked /\ tstate = "STARTED"
    /\ readOnly' = FALSE
    /\ UNCHANGED <<tstate, dss, global, txnId, startTime, dsStarted,
                   abortPending, panicked, blankUse, clockVars>>

Delete(n) == Write(n)

(* Commit: SetState(COMMITTED); a read-only transaction returns; else      *)
(* getTime("commit"), Prepare on every datastore (its records carry        *)
(* t.TxnId; a failure spawns `go t.Abort()`), then CreateTSR(t.TxnId) on   *)
(* t.tsrMaintainer, which a nil one turns into a panic; a TSR found there  *)
(* spawns `go t.Abort()` as well.                                          *)
Commit ==
    /\ ~panicked /\ CanSetState(tstate, "COMMITTED")
    /\ tstate' = "COMMITTED"
    /\ \/ /\ readOnly
          /\ UNCHANGED <<abortPending, panicked, blankUse, clockVars>>
       \/ /\ ~readOnly
          /\ LTS!GetTime
          /\ blankUse' = (blankUse \/ ~txnId)
          /\ \/ /\ dss # {}
                /\ abortPending' = TRUE
                /\ UNCHANGED panicked
             \/ /\ ~global
                /\ panicked' = TRUE
                /\ UNCHANGED abortPending
             \/ /\ global
                /\ abortPending' \in BOOLEAN
                /\ UNCHANGED panicked
    /\ UNCHANGED <<dss, global, txnId, startTime, dsStarted, readOnly>>

(* Abort after GetState: SetState(ABORTED), then WriteTSR(t.TxnId,         *)
(* ABORTED) on t.tsrMaintainer, a nil-pointer panic when none is set;      *)
(* ds.Abort on every datastore has no effect on this state.                *)
AbortBody ==
    /\ CanSetState(tstate, "ABORTED")
    /\ tstate' = "ABORTED"
    /\ panicked' = ~global
    /\ blankUse' = (blankUse \/ ~txnId)

(* Transaction.Abort called by the client.                                 *)
Abort ==
    /\ ~panicked
    /\ AbortBody
    /\ UNCHANGED <<dss, global, txnId, startTime, dsStarted, readOnly,
                   abortPending, clockVars>>

(* A goroutine a failed Commit spawned runs Abort; SetState fails when     *)
(* another Abort came first, and it returns.                               *)
SpawnedAbort ==
    /\ ~panicked /\ abortPending
    /\ abortPending' = FALSE
    /\ \/ AbortBody
       \/ /\ ~CanSetState(tstate, "ABORTED")
          /\ UNCHANGED <<tstate, panicked, blankUse>>
    /\ UNCHANGED <<dss, global, txnId, startTime, dsStarted, readOnly, clockVars>>

(* The other transactions of the process, and the ticker, on the shared    *)
(* time source.                                                            *)
Clock ==
    /\ ~panicked
    /\ LTS!Next
    /\ UNCHANGED txnVars

Next ==
    \/ \E n \in DsName : AddDatastore(n) \/ Read(n) \/ Write(n) \/ Delete(n)
    \/ \E a, b \in DsName : AddDatastores(a, b)
    \/ SetGlobalDatastore \/ Start \/ Commit \/ Abort
    \/ SpawnedAbort \/ Clock
    \/ panicked /\ UNCHANGED vars

Spec == Init /\ [][Next]_vars

-----------------------------------------------------------------------------
TypeOK ==
    /\ tstate \in {"EMPTY", "STARTED", "COMMITTED", "ABORTED"}
    /\ dss \subseteq DsName /\ dsStarted \subseteq dss
    /\ {global, txnId, startTime, readOnly, abortPending, panicked, blankUse}
           \subseteq BOOLEAN
    /\ LTS!TypeOK

(* Spec 4.4: Start checks for the global datastore and a participant,     *)
(* then allocates the TxnId and fetches TxnStartTime, and every later call *)
(* works under them: no Read snapshot, prepared record, TSR write or      *)
(* CreateTSR carries a TxnId or TxnStartTime Start has not set.          *)
(* A Start that returns a configuration error leaves the transaction in a  *)
(* state that accepts none of them.                                        *)
NoBlankIdentity == ~blankUse
====
