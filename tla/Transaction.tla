---------------------------- MODULE Transaction ----------------------------
(***************************************************************************)
(* The transaction coordinator of src/pkg/txn/transaction.go together with *)
(* the datastore participants it drives, the TSR (Transaction Status       *)
(* Record) kept in the global datastore, and the readers that resolve a    *)
(* PREPARED record of another transaction by roll-forward or rollback.     *)
(*                                                                         *)
(* Each transaction t runs one logical worker: Start, Read/Write, Commit   *)
(* or Abort.  Inside Commit the prepare and commit fan-outs run one        *)
(* goroutine per datastore (or a loop in map order), so every datastore    *)
(* call is an atomic step taken in any order.  Every backend call is one   *)
(* step; the backend record store is rec, the TSR store is tsr.           *)
(*                                                                         *)
(* The participant code (Prepare, Commit, Abort, the read-time recovery)   *)
(* is not under src/; those actions follow spec.md sections 4.3 and 4.5.   *)
(***************************************************************************)
EXTENDS Connector, FiniteSets

CONSTANTS
    NotRead,              \* the read cache holds nothing for the key
    NoResolve,            \* the transaction is not resolving a record
    CommitMayFail,        \* a datastore Commit call may fail (backend error)
    CreateTSRMayTimeOut,  \* CreateTSR may take effect and still return an error
    AbortMayFail,         \* Abort's WriteTSR and ds.Abort calls may fail
    ClientAbortAfterCommit, \* the client may call Abort after Commit returned nil
    AsyncLevel            \* config.Config.AsyncLevel: where Commit returns

ASSUME /\ {CommitMayFail, CreateTSRMayTimeOut, AbortMayFail,
           ClientAbortAfterCommit} \subseteq BOOLEAN
       /\ AsyncLevel \in {0, 1, 2}

VARIABLES
    tstate,    \* StateMachine state of each Transaction
    phase,     \* where each Transaction is inside Commit / Abort
    rd,        \* readCache: rd[t][k] is the Item t read for k, or NotRead
    ws,        \* writeCache keys of t (the value written is t itself)
    wdel,      \* the keys of ws whose writeCache item has IsDeleted set
    todo,      \* datastores the current fan-out has still to call
    prepared,  \* keys whose Prepare ConditionalUpdate succeeded
    failed,    \* the `success` flag of Commit, negated
    rs,        \* an in-flight resolution of a foreign PREPARED head
    abortTodo, \* datastores a client-called Abort has still to call
    rec,       \* the records stored in the backends
    tsr,       \* the TSR store of the global datastore
    expired,   \* transactions whose PREPARED records are past TLease
    synced,    \* history: transactions whose CreateTSR(COMMITTED) took effect
    fate,      \* history: what became of each write of each transaction
    callFailed \* history: transactions one of whose ds.Commit or ds.Abort
               \* calls returned an error

coordVars == <<tstate, phase, rd, ws, wdel, todo, prepared, failed, rs, abortTodo>>
vars == <<coordVars, rec, tsr, expired, synced, fate, callFailed>>

TxnState == {"EMPTY", "STARTED", "COMMITTED", "ABORTED"}
Phase == {"idle", "preparing", "sync", "committing", "done",
          "abortPending", "aborting", "aborted", "crashed"}
TSRState == {"NONE", "COMMITTED", "ABORTED"}
Fate == {"none", "committed", "rolledback"}
Resolution == [key : Key, item : Record,
               dec : {"undecided", "forward", "back"}]

(* The Item t's Prepare takes as the previous version of k: the one it     *)
(* read, or the empty item (doCreate) for a key it never read.             *)
Expected(t, k) == IF rd[t][k] = NotRead THEN Absent ELSE rd[t][k]

(* The Version of the record t's Prepare stored at k.                      *)
PreparedVer(t, k) == Expected(t, k).ver + 1

PreparedBy(k, t) ==
    rec[k] # NoRecord /\ rec[k].st = "PREPARED" /\ rec[k].txn = t

Init ==
    /\ tstate = [t \in Txn |-> "EMPTY"]
    /\ phase = [t \in Txn |-> "idle"]
    /\ rd = [t \in Txn |-> [k \in Key |-> NotRead]]
    /\ ws = [t \in Txn |-> {}]
    /\ wdel = [t \in Txn |-> {}]
    /\ todo = [t \in Txn |-> {}]
    /\ prepared = [t \in Txn |-> {}]
    /\ failed = [t \in Txn |-> FALSE]
    /\ rs = [t \in Txn |-> NoResolve]
    /\ abortTodo = [t \in Txn |-> {}]
    /\ rec \in [Key -> {NoRecord, [ver |-> 1, txn |-> NoTxn, st |-> "COMMITTED",
                                   del |-> FALSE, prev |-> Absent]}]
    /\ tsr = [t \in Txn |-> "NONE"]
    /\ expired = {}
    /\ synced = {}
    /\ fate = [t \in Txn |-> [k \in Key |-> "none"]]
    /\ callFailed = {}

-----------------------------------------------------------------------------
(* Transaction.Start: SetState(STARTED), TxnId, start time, ds.Start().    *)
Start(t) ==
    /\ tstate[t] = "EMPTY"
    /\ tstate' = [tstate EXCEPT ![t] = "STARTED"]
    /\ UNCHANGED <<phase, rd, ws, wdel, todo, prepared, failed, rs, abortTodo, rec,
                   tsr, callFailed, expired, synced, fate>>

(* Transaction.Read of a key neither written nor read before: GetItem.     *)
(* A COMMITTED head (or no record) is the answer and is cached; a         *)
(* PREPARED head of another transaction starts its resolution.             *)
ReadKey(t, k) ==
    /\ tstate[t] = "STARTED" /\ rs[t] = NoResolve
    /\ k \notin ws[t] /\ rd[t][k] = NotRead
    /\ \/ /\ rec[k] = NoRecord
          /\ rd' = [rd EXCEPT ![t][k] = Absent]
          /\ UNCHANGED rs
       \/ /\ rec[k] # NoRecord /\ rec[k].st = "COMMITTED"
          /\ rd' = [rd EXCEPT ![t][k] = ItemOf(rec[k])]
          /\ UNCHANGED rs
       \/ /\ rec[k] # NoRecord /\ rec[k].st = "PREPARED"
          /\ rs' = [rs EXCEPT ![t] = [key |-> k, item |-> rec[k],
                                      dec |-> "undecided"]]
          /\ UNCHANGED rd
    /\ UNCHANGED <<tstate, phase, ws, wdel, todo, prepared, failed, abortTodo, rec,
                   tsr, callFailed, expired, synced, fate>>

(* Resolution, first backend call: the TSR of the owner x.  An absent TSR *)
(* past x's lease is seized by CreateTSR(x, ABORTED); as CreateTSR is an   *)
(* insert-if-absent that reports the existing state, the ReadTSR before it *)
(* and the CreateTSR form one step.  Before the lease: ReadFailed.         *)
ResolveTSR(t) ==
    /\ rs[t] # NoResolve /\ rs[t].dec = "undecided"
    /\ LET x == rs[t].item.txn
           Decide(d) == rs' = [rs EXCEPT ![t].dec = d]
       IN \/ tsr[x] = "COMMITTED" /\ Decide("forward") /\ UNCHANGED tsr
          \/ tsr[x] = "ABORTED" /\ Decide("back") /\ UNCHANGED tsr
          \/ /\ tsr[x] = "NONE" /\ x \in expired
             /\ tsr' = [tsr EXCEPT ![x] = "ABORTED"]
             /\ Decide("back")
          \/ /\ tsr[x] = "NONE" /\ x \notin expired
             /\ rs' = [rs EXCEPT ![t] = NoResolve]
             /\ UNCHANGED tsr
    /\ UNCHANGED <<tstate, phase, rd, ws, wdel, todo, prepared, failed, abortTodo,
                   rec, callFailed, expired, synced, fate>>

(* Resolution, second backend call: ConditionalUpdate keyed on the        *)
(* Version of the PREPARED head that was read; the result is the read.    *)
ApplyResolution(t, dec, outcome) ==
    LET k == rs[t].key
        it == rs[t].item
        new == IF dec = "forward" THEN RolledForward(it) ELSE RolledBack(it)
    IN /\ rs[t] # NoResolve /\ rs[t].dec = dec
       /\ CUAccepts(rec[k], it.ver, FALSE)
       /\ rec' = [rec EXCEPT ![k] = new]
       /\ rd' = [rd EXCEPT ![t][k] = ItemOf(new)]
       /\ fate' = [fate EXCEPT ![it.txn][k] = outcome]
       /\ rs' = [rs EXCEPT ![t] = NoResolve]
       /\ UNCHANGED <<tstate, phase, ws, wdel, todo, prepared, failed, abortTodo,
                      tsr, callFailed, expired, synced>>

RollForward(t) == ApplyResolution(t, "forward", "committed")

RollBack(t) == ApplyResolution(t, "back", "rolledback")

(* The head changed since it was read: VersionMismatch, the walk restarts. *)
ResolveMismatch(t) ==
    /\ rs[t] # NoResolve /\ rs[t].dec # "undecided"
    /\ ~CUAccepts(rec[rs[t].key], rs[t].item.ver, FALSE)
    /\ rs' = [rs EXCEPT ![t] = NoResolve]
    /\ UNCHANGED <<tstate, phase, rd, ws, wdel, todo, prepared, failed, abortTodo,
                   rec, tsr, callFailed, expired, synced, fate>>

(* Transaction.Write: only the writeCache changes.                         *)
Write(t, k) ==
    /\ tstate[t] = "STARTED" /\ rs[t] = NoResolve
    /\ k \notin ws[t]
    /\ ws' = [ws EXCEPT ![t] = @ \cup {k}]
    /\ UNCHANGED <<tstate, phase, rd, wdel, todo, prepared, failed, rs, abortTodo,
                   rec, tsr, callFailed, expired, synced, fate>>

(* Transaction.Delete: a writeCache item with IsDeleted set.              *)
Delete(t, k) ==
    /\ tstate[t] = "STARTED" /\ rs[t] = NoResolve
    /\ k \notin ws[t]
    /\ ws' = [ws EXCEPT ![t] = @ \cup {k}]
    /\ wdel' = [wdel EXCEPT ![t] = @ \cup {k}]
    /\ UNCHANGED <<tstate, phase, rd, todo, prepared, failed, rs, abortTodo, rec,
                   tsr, callFailed, expired, synced, fate>>

-----------------------------------------------------------------------------
(* Transaction.Commit: SetState(COMMITTED); a read-only transaction       *)
(* returns at once.                                                        *)
CommitReadOnly(t) ==
    /\ tstate[t] = "STARTED" /\ rs[t] = NoResolve /\ ws[t] = {}
    /\ tstate' = [tstate EXCEPT ![t] = "COMMITTED"]
    /\ phase' = [phase EXCEPT ![t] = "done"]
    /\ UNCHANGED <<rd, ws, wdel, todo, prepared, failed, rs, abortTodo, rec, tsr,
                   callFailed, expired, synced, fate>>

(* Otherwise the commit time is taken and Prepare is called on every       *)
(* datastore.                                                              *)
CommitBegin(t) ==
    /\ tstate[t] = "STARTED" /\ rs[t] = NoResolve /\ ws[t] # {}
    /\ tstate' = [tstate EXCEPT ![t] = "COMMITTED"]
    /\ phase' = [phase EXCEPT ![t] = "preparing"]
    /\ todo' = [todo EXCEPT ![t] = ws[t]]
    /\ UNCHANGED <<rd, ws, wdel, prepared, failed, rs, abortTodo, rec, tsr,
                   callFailed, expired, synced, fate>>

(* Mutant: Prepare keyed on the version now stored instead of the one    *)
(* read (a blind write over whatever committed since the read).           *)
PrepareDsLatestVersion(t, k) ==
    LET e == Expected(t, k)
        cur == IF rec[k] = NoRecord THEN 0 ELSE rec[k].ver
    IN
    /\ phase[t] = "preparing" /\ k \in todo[t]
    /\ todo' = [todo EXCEPT ![t] = @ \ {k}]
    /\ \/ /\ CUAccepts(rec[k], cur, cur = 0)
          /\ rec' = [rec EXCEPT ![k] =
                        CUStore([ver |-> cur, txn |-> t, st |-> "PREPARED",
                                 del |-> k \in wdel[t], prev |-> e])]
          /\ prepared' = [prepared EXCEPT ![t] = @ \cup {k}]
          /\ UNCHANGED failed
       \/ /\ ~CUAccepts(rec[k], cur, cur = 0)
          /\ failed' = [failed EXCEPT ![t] = TRUE]
          /\ UNCHANGED <<rec, prepared>>
    /\ UNCHANGED <<tstate, phase, rd, ws, wdel, rs, abortTodo, tsr, callFailed,
                   expired, synced, fate>>

(* Mutant: Prepare stores the stored record itself as Prev.               *)
PrepareDsPrevRecord(t, k) ==
    LET e == Expected(t, k) IN
    /\ phase[t] = "preparing" /\ k \in todo[t]
    /\ todo' = [todo EXCEPT ![t] = @ \ {k}]
    /\ \/ /\ CUAccepts(rec[k], e.ver, e.ver = 0)
          /\ rec' = [rec EXCEPT ![k] =
                        CUStore([ver |-> e.ver, txn |-> t, st |-> "PREPARED",
                                 del |-> k \in wdel[t],
                                 prev |-> IF rec[k] = NoRecord THEN e ELSE rec[k]])]
          /\ prepared' = [prepared EXCEPT ![t] = @ \cup {k}]
          /\ UNCHANGED failed
       \/ /\ ~CUAccepts(rec[k], e.ver, e.ver = 0)
          /\ failed' = [failed EXCEPT ![t] = TRUE]
          /\ UNCHANGED <<rec, prepared>>
    /\ UNCHANGED <<tstate, phase, rd, ws, wdel, rs, abortTodo, tsr, callFailed,
                   expired, synced, fate>>

(* ds.Prepare: ConditionalUpdate of the new PREPARED head over the         *)
(* version read, doCreate when the key was not there.                      *)
PrepareDs(t, k) ==
    LET e == Expected(t, k) IN
    /\ phase[t] = "preparing" /\ k \in todo[t]
    /\ todo' = [todo EXCEPT ![t] = @ \ {k}]
    /\ \/ /\ CUAccepts(rec[k], e.ver, e.ver = 0)
          /\ rec' = [rec EXCEPT ![k] =
                        CUStore([ver |-> e.ver, txn |-> t, st |-> "PREPARED",
                                 del |-> k \in wdel[t], prev |-> e])]
          /\ prepared' = [prepared EXCEPT ![t] = @ \cup {k}]
          /\ UNCHANGED failed
       \/ /\ ~CUAccepts(rec[k], e.ver, e.ver = 0)
          /\ failed' = [failed EXCEPT ![t] = TRUE]
          /\ UNCHANGED <<rec, prepared>>
    /\ UNCHANGED <<tstate, phase, rd, ws, wdel, rs, abortTodo, tsr, callFailed,
                   expired, synced, fate>>

(* After the join: a failed prepare spawns `go t.Abort()` and returns.     *)
PrepareFailed(t) ==
    /\ phase[t] = "preparing" /\ todo[t] = {} /\ failed[t]
    /\ phase' = [phase EXCEPT ![t] = "abortPending"]
    /\ UNCHANGED <<tstate, rd, ws, wdel, todo, prepared, failed, rs, abortTodo, rec,
                   tsr, callFailed, expired, synced, fate>>

PrepareSucceeded(t) ==
    /\ phase[t] = "preparing" /\ todo[t] = {} /\ ~failed[t]
    /\ phase' = [phase EXCEPT ![t] = "sync"]
    /\ UNCHANGED <<tstate, rd, ws, wdel, todo, prepared, failed, rs, abortTodo, rec,
                   tsr, callFailed, expired, synced, fate>>

(* Mutant: the commented-out sync point, WriteTSR(COMMITTED), which        *)
(* overwrites a TSR a reader seized.                                       *)
CreateTSRWrite(t) ==
    /\ phase[t] = "sync"
    /\ tsr' = [tsr EXCEPT ![t] = "COMMITTED"]
    /\ synced' = synced \cup {t}
    /\ phase' = [phase EXCEPT ![t] = "committing"]
    /\ todo' = [todo EXCEPT ![t] = prepared[t]]
    /\ UNCHANGED <<tstate, rd, ws, wdel, prepared, failed, rs, abortTodo, rec,
                   callFailed, expired, fate>>

(* The sync point: CreateTSR(TxnId, COMMITTED), an insert-if-absent.       *)
CreateTSR(t) ==
    /\ phase[t] = "sync" /\ tsr[t] = "NONE"
    /\ tsr' = [tsr EXCEPT ![t] = "COMMITTED"]
    /\ synced' = synced \cup {t}
    /\ phase' = [phase EXCEPT ![t] = "committing"]
    /\ todo' = [todo EXCEPT ![t] = prepared[t]]
    /\ UNCHANGED <<tstate, rd, ws, wdel, prepared, failed, rs, abortTodo, rec,
                   callFailed, expired, fate>>

(* Mutant: the CreateTSR error is ignored and the commit goes on.          *)
CreateTSRExistsIgnored(t) ==
    /\ phase[t] = "sync" /\ tsr[t] # "NONE"
    /\ synced' = synced \cup {t}
    /\ phase' = [phase EXCEPT ![t] = "committing"]
    /\ todo' = [todo EXCEPT ![t] = prepared[t]]
    /\ UNCHANGED <<tstate, rd, ws, wdel, prepared, failed, rs, abortTodo, rec, tsr,
                   callFailed, expired, fate>>

(* A TSR exists already: a reader seized it; `go t.Abort()`.               *)
CreateTSRExists(t) ==
    /\ phase[t] = "sync" /\ tsr[t] # "NONE"
    /\ phase' = [phase EXCEPT ![t] = "abortPending"]
    /\ UNCHANGED <<tstate, rd, ws, wdel, todo, prepared, failed, rs, abortTodo, rec,
                   tsr, callFailed, expired, synced, fate>>

(* The insert took effect but the call failed on its deadline: the error  *)
(* path `go t.Abort()` is taken all the same.                              *)
CreateTSRTimeout(t) ==
    /\ CreateTSRMayTimeOut
    /\ phase[t] = "sync" /\ tsr[t] = "NONE"
    /\ tsr' = [tsr EXCEPT ![t] = "COMMITTED"]
    /\ synced' = synced \cup {t}
    /\ phase' = [phase EXCEPT ![t] = "abortPending"]
    /\ UNCHANGED <<tstate, rd, ws, wdel, todo, prepared, failed, rs, abortTodo, rec,
                   callFailed, expired, fate>>

(* Mutant: the commit is keyed on the version that was read rather than   *)
(* on the version Prepare stored (an off-by-one).                          *)
CommitDsReadVersion(t, k) ==
    /\ phase[t] = "committing" /\ k \in todo[t]
    /\ todo' = [todo EXCEPT ![t] = @ \ {k}]
    /\ \/ /\ CUAccepts(rec[k], Expected(t, k).ver, FALSE)
          /\ rec' = [rec EXCEPT ![k] = RolledForward(rec[k])]
          /\ fate' = [fate EXCEPT ![t][k] = "committed"]
       \/ /\ ~CUAccepts(rec[k], Expected(t, k).ver, FALSE)
          /\ UNCHANGED <<rec, fate>>
    /\ UNCHANGED <<tstate, phase, rd, ws, wdel, prepared, failed, rs, abortTodo,
                   tsr, callFailed, expired, synced>>

(* ds.Commit: ConditionalUpdate PREPARED -> COMMITTED on the prepared     *)
(* version; a mismatch means a reader rolled it forward and is absorbed.   *)
CommitDs(t, k) ==
    /\ phase[t] = "committing" /\ k \in todo[t]
    /\ todo' = [todo EXCEPT ![t] = @ \ {k}]
    /\ \/ /\ CUAccepts(rec[k], PreparedVer(t, k), FALSE)
          /\ rec' = [rec EXCEPT ![k] = RolledForward(rec[k])]
          /\ fate' = [fate EXCEPT ![t][k] = "committed"]
       \/ /\ ~CUAccepts(rec[k], PreparedVer(t, k), FALSE)
          /\ UNCHANGED <<rec, fate>>
    /\ UNCHANGED <<tstate, phase, rd, ws, wdel, prepared, failed, rs, abortTodo,
                   tsr, callFailed, expired, synced>>

(* The result of ds.Commit() is discarded: a backend error leaves the      *)
(* record PREPARED and the fan-out goes on; nothing retries it.            *)
CommitDsError(t, k) ==
    /\ CommitMayFail
    /\ phase[t] = "committing" /\ k \in todo[t]
    /\ todo' = [todo EXCEPT ![t] = @ \ {k}]
    /\ callFailed' = callFailed \cup {t}
    /\ UNCHANGED <<tstate, phase, rd, ws, wdel, prepared, failed, rs, abortTodo,
                   rec, tsr, expired, synced, fate>>

(* Mutant: DeleteTSR without waiting for the commit fan-out.               *)
DeleteTSRNoJoin(t) ==
    /\ phase[t] = "committing"
    /\ tsr' = [tsr EXCEPT ![t] = "NONE"]
    /\ phase' = [phase EXCEPT ![t] = "done"]
    /\ UNCHANGED <<tstate, rd, ws, wdel, todo, prepared, failed, rs, abortTodo, rec,
                   callFailed, expired, synced, fate>>

(* After wg.Wait(): DeleteTSR (synchronously or in a goroutine, by         *)
(* AsyncLevel; in every level it follows the join).                        *)
DeleteTSR(t) ==
    /\ phase[t] = "committing" /\ todo[t] = {}
    /\ tsr' = [tsr EXCEPT ![t] = "NONE"]
    /\ phase' = [phase EXCEPT ![t] = "done"]
    /\ UNCHANGED <<tstate, rd, ws, wdel, todo, prepared, failed, rs, abortTodo, rec,
                   callFailed, expired, synced, fate>>

-----------------------------------------------------------------------------
(* WriteTSR(t.TxnId, ABORTED), an unconditional write whose error Abort   *)
(* does not check: when the call fails on its deadline the TSR stays as it *)
(* was and the ds.Abort loop runs all the same.                            *)
WriteTSRAborted(t) ==
    \/ tsr' = [tsr EXCEPT ![t] = "ABORTED"]
    \/ AbortMayFail /\ UNCHANGED tsr

(* The spawned Transaction.Abort: SetState(ABORTED) from COMMITTED, so     *)
(* hasCommitted is true; then WriteTSR(ABORTED).                          *)
AbortBegin(t) ==
    /\ phase[t] = "abortPending"
    /\ tstate' = [tstate EXCEPT ![t] = "ABORTED"]
    /\ WriteTSRAborted(t)
    /\ phase' = [phase EXCEPT ![t] = "aborting"]
    /\ todo' = [todo EXCEPT ![t] = prepared[t]]
    /\ UNCHANGED <<rd, ws, wdel, prepared, failed, rs, abortTodo, rec, callFailed,
                   expired, synced, fate>>

(* ds.Abort(hasCommitted): roll back a record still holding t's PREPARED  *)
(* version; anything else was resolved already and is left alone.          *)
(* A failed call is logged and the loop goes on, and nothing retries it.  *)
DsAbort(t, k) ==
    \/ /\ CUAccepts(rec[k], PreparedVer(t, k), FALSE)
       /\ rec' = [rec EXCEPT ![k] = RolledBack(rec[k])]
       /\ fate' = [fate EXCEPT ![t][k] = "rolledback"]
       /\ UNCHANGED callFailed
    \/ /\ ~CUAccepts(rec[k], PreparedVer(t, k), FALSE)
       /\ UNCHANGED <<rec, fate, callFailed>>
    \/ /\ AbortMayFail
       /\ callFailed' = callFailed \cup {t}
       /\ UNCHANGED <<rec, fate>>

(* The loop of Abort over t.dataStoreMap.                                  *)
AbortDs(t, k) ==
    /\ phase[t] = "aborting" /\ k \in todo[t]
    /\ todo' = [todo EXCEPT ![t] = @ \ {k}]
    /\ DsAbort(t, k)
    /\ UNCHANGED <<tstate, phase, rd, ws, wdel, prepared, failed, rs, abortTodo,
                   tsr, expired, synced>>

AbortDone(t) ==
    /\ phase[t] = "aborting" /\ todo[t] = {}
    /\ phase' = [phase EXCEPT ![t] = "aborted"]
    /\ UNCHANGED <<tstate, rd, ws, wdel, todo, prepared, failed, rs, abortTodo, rec,
                   tsr, callFailed, expired, synced, fate>>

(* Transaction.Abort called by the client in STARTED: nothing is          *)
(* prepared, so only the ABORTED TSR is written.                           *)
ClientAbort(t) ==
    /\ tstate[t] = "STARTED" /\ rs[t] = NoResolve
    /\ tstate' = [tstate EXCEPT ![t] = "ABORTED"]
    /\ WriteTSRAborted(t)
    /\ phase' = [phase EXCEPT ![t] = "aborted"]
    /\ UNCHANGED <<rd, ws, wdel, todo, prepared, failed, rs, abortTodo, rec,
                   callFailed, expired, synced, fate>>

(* Commit has returned nil to the client: at AsyncLevel 2 right after the *)
(* sync point, with the commit fan-out and DeleteTSR left to a goroutine;  *)
(* at level 1 after the fan-out, with DeleteTSR left to a goroutine; at    *)
(* level 0 after DeleteTSR.  A read-only Commit returns at once.           *)
CommitReturned(t) ==
    /\ tstate[t] = "COMMITTED"
    /\ \/ phase[t] = "done"
       \/ AsyncLevel = 1 /\ phase[t] = "committing" /\ todo[t] = {}
       \/ AsyncLevel = 2 /\ phase[t] = "committing"

(* Transaction.Abort called by the client after its Commit returned: the   *)
(* state machine lets COMMITTED go to ABORTED, so lastState is COMMITTED,  *)
(* hasCommitted is true, WriteTSR(ABORTED) replaces whatever TSR is there  *)
(* and ds.Abort(true) is called on every datastore.                        *)
ClientAbortCommitted(t) ==
    /\ ClientAbortAfterCommit /\ CommitReturned(t)
    /\ tstate' = [tstate EXCEPT ![t] = "ABORTED"]
    /\ WriteTSRAborted(t)
    /\ abortTodo' = [abortTodo EXCEPT ![t] = prepared[t]]
    /\ UNCHANGED <<phase, rd, ws, wdel, todo, prepared, failed, rs, rec, callFailed,
                   expired, synced, fate>>

(* The loop of that Abort, in the client's goroutine, concurrent with a    *)
(* commit fan-out still running at AsyncLevel 2.                           *)
ClientAbortDs(t, k) ==
    /\ k \in abortTodo[t] /\ phase[t] # "crashed"
    /\ abortTodo' = [abortTodo EXCEPT ![t] = @ \ {k}]
    /\ DsAbort(t, k)
    /\ UNCHANGED <<tstate, phase, rd, ws, wdel, todo, prepared, failed, rs, tsr,
                   expired, synced>>

-----------------------------------------------------------------------------
(* The coordinator process dies (killed, or log.Fatal on a transport       *)
(* error) while Commit or Abort is under way.                              *)
Crash(t) ==
    /\ phase[t] \in {"preparing", "sync", "committing", "abortPending",
                     "aborting"}
    /\ phase' = [phase EXCEPT ![t] = "crashed"]
    /\ UNCHANGED <<tstate, rd, ws, wdel, todo, prepared, failed, rs, abortTodo, rec,
                   tsr, callFailed, expired, synced, fate>>

(* Wall-clock time passes the TLease of x's PREPARED records.              *)
LeaseExpire(x) ==
    /\ x \notin expired
    /\ \E k \in Key : PreparedBy(k, x)
    /\ expired' = expired \cup {x}
    /\ UNCHANGED <<coordVars, rec, tsr, synced, fate, callFailed>>

(* Every transaction has finished, aborted or crashed: the system stops.   *)
Terminated ==
    /\ \A t \in Txn : phase[t] \in {"done", "aborted", "crashed"}
    /\ \A t \in Txn : abortTodo[t] = {}
    /\ UNCHANGED vars

(* The steps of t's coordinator goroutines, which the Go runtime runs.     *)
Coordinator(t) ==
    \/ PrepareFailed(t) \/ PrepareSucceeded(t)
    \/ CreateTSR(t) \/ CreateTSRExists(t) \/ CreateTSRTimeout(t)
    \/ DeleteTSR(t) \/ AbortBegin(t) \/ AbortDone(t)
    \/ \E k \in Key : PrepareDs(t, k) \/ CommitDs(t, k) \/ CommitDsError(t, k)
                      \/ AbortDs(t, k)

Client(t) ==
    \/ Start(t) \/ CommitReadOnly(t) \/ CommitBegin(t) \/ ClientAbort(t)
    \/ ClientAbortCommitted(t)
    \/ ResolveTSR(t) \/ RollForward(t) \/ RollBack(t) \/ ResolveMismatch(t)
    \/ \E k \in Key : ReadKey(t, k) \/ Write(t, k) \/ Delete(t, k)
                      \/ ClientAbortDs(t, k)

Next ==
    \/ \E t \in Txn : Coordinator(t) \/ Client(t) \/ Crash(t) \/ LeaseExpire(t)
    \/ Terminated

Spec == Init /\ [][Next]_vars

FairSpec == Spec /\ \A t \in Txn : WF_vars(Coordinator(t))

-----------------------------------------------------------------------------
TypeOK ==
    /\ tstate \in [Txn -> TxnState]
    /\ phase \in [Txn -> Phase]
    /\ rd \in [Txn -> [Key -> Item \cup {NotRead}]]
    /\ ws \in [Txn -> SUBSET Key]
    /\ wdel \in [Txn -> SUBSET Key]
    /\ todo \in [Txn -> SUBSET Key]
    /\ prepared \in [Txn -> SUBSET Key]
    /\ failed \in [Txn -> BOOLEAN]
    /\ rs \in [Txn -> Resolution \cup {NoResolve}]
    /\ abortTodo \in [Txn -> SUBSET Key]
    /\ rec \in [Key -> Record \cup {NoRecord}]
    /\ tsr \in [Txn -> TSRState]
    /\ expired \subseteq Txn
    /\ synced \subseteq Txn
    /\ callFailed \subseteq Txn
    /\ fate \in [Txn -> [Key -> Fate]]

(* Atomicity across datastores (spec P2/P3): no transaction ends up with   *)
(* one write made COMMITTED (by its own Commit or a reader's roll-forward) *)
(* and another rolled back (by its Abort or a reader's rollback).          *)
Atomicity ==
    \A t \in Txn : ~(/\ \E k \in Key : fate[t][k] = "committed"
                     /\ \E k \in Key : fate[t][k] = "rolledback")

(* The successful CreateTSR is the commit point: once a transaction's      *)
(* COMMITTED TSR has been stored, none of its writes is ever rolled back,  *)
(* whatever readers, lease expiry and crashes do afterwards.               *)
SyncPointIsDurable ==
    \A t \in synced : \A k \in Key : fate[t][k] # "rolledback"

(* DeleteTSR after the commit fan-out: the TSR of a transaction that       *)
(* passed the sync point is gone only once none of its records is still    *)
(* PREPARED, since a PREPARED record without TSR may be rolled back.       *)
TSRDeletedOnlyWhenResolved ==
    \A t \in synced : tsr[t] = "NONE" => \A k \in Key : ~PreparedBy(k, t)

(* Readers resolve by the TSR: while a transaction's TSR says COMMITTED,  *)
(* none of its writes has been rolled back, by a reader or by its own      *)
(* Abort, which writes the ABORTED TSR before its ds.Abort loop.           *)
CommittedTSRProtects ==
    \A t \in Txn : tsr[t] = "COMMITTED" => \A k \in Key : fate[t][k] # "rolledback"

(* A decided TSR never flips: COMMITTED never becomes ABORTED (Abort's     *)
(* unconditional WriteTSR) and ABORTED never becomes COMMITTED (a          *)
(* coordinator overriding a reader's seized TSR); it may only be deleted.  *)
TSRDecisionFinal ==
    [][\A t \in Txn : tsr[t] # "NONE" => tsr'[t] \in {tsr[t], "NONE"}]_tsr

(* Spec P2/P3: once Commit has passed the sync point, or has failed and    *)
(* spawned Abort, the coordinator goroutines resolve every PREPARED record *)
(* of the transaction.  Nothing is retried (the fan-out's "TODO: Retry     *)
(* helper", Abort's logged ds.Abort error), so a record is left behind     *)
(* only when the process died or one of those calls failed.                *)
NoPreparedLeftBehind ==
    \A t \in Txn :
        phase[t] \in {"committing", "abortPending"}
            ~> \/ phase[t] = "crashed"
               \/ t \in callFailed
               \/ \A k \in Key : ~PreparedBy(k, t)

-----------------------------------------------------------------------------
(* Refinement mapping onto AtomicCommit.  A transaction is decided to     *)
(* commit once its CreateTSR(COMMITTED) took effect, to abort once its TSR *)
(* says ABORTED; the committed value of a key is the head record's when    *)
(* COMMITTED and its Prev item's while PREPARED; what t read of k is the   *)
(* Item its Prepare expects.                                               *)
DecisionOf ==
    [t \in Txn |-> IF t \in synced THEN "commit"
                   ELSE IF tsr[t] = "ABORTED" THEN "abort" ELSE "undecided"]

ValueOf ==
    [k \in Key |->
        IF rec[k] = NoRecord THEN [txn |-> NoTxn, del |-> TRUE]
        ELSE IF rec[k].st = "COMMITTED" THEN [txn |-> rec[k].txn, del |-> rec[k].del]
        ELSE [txn |-> rec[k].prev.txn, del |-> rec[k].prev.del]]

ReadFromOf ==
    [t \in Txn |-> [k \in Key |->
        [txn |-> Expected(t, k).txn, del |-> Expected(t, k).del]]]

AC == INSTANCE AtomicCommit
        WITH decision <- DecisionOf, value <- ValueOf, readFrom <- ReadFromOf

(* The coordinator, participants and readers together implement the       *)
(* atomic commit of spec section 1: every step either leaves the decision, *)
(* the fates, the committed values and the reads alone or is one abstract *)
(* step; in particular a Prepare/Commit never replaces a value other than  *)
(* the one its transaction read, and a write is applied only in the        *)
(* direction of the TSR decision.                                          *)
ImplementsAtomicCommit == AC!Spec
=============================================================================
