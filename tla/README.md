# TLA+ models of the vanilla-icecream transaction layer

These modules model the client-side transaction protocol of this repository.
The protocol is a two-phase commit over per-key compare-and-swap
(ConditionalUpdate on a record Version). A Transaction State Record (TSR) is
created insert-if-absent as the commit point. Readers resolve the PREPARED
records of other transactions by rolling them forward or back. The modules
also cover the API lifecycle of a Transaction object (configuration, Start
and its failure paths, the state machine), the hybrid logical clock, the
remote client's round-robin server selection, and the remote facade,
meaning the HTTP calls of both clients and the server handlers. An abstract `AtomicCommit` specification
states what the protocol promises, and `Transaction` is checked to
implement it. Every action is translated from `src/`, or from `spec.md`
where the code lives outside `src/`. PROJECT.json maps each definition to the
lines it models.

## The system and its parts

| Part | Code | Module | Status |
|---|---|---|---|
| Transaction coordinator: constructors, AddDatastore(s), SetGlobalDatastore, Start, Read, Write, Delete, Commit, Abort | `src/pkg/txn/transaction.go` 81-426 | `Transaction` (protocol), `TxnLifecycle` (API and state machine) | partly: OnePhaseCommit and the Remote* entry points are not |
| TSR maintainer: WriteTSR, CreateTSR, DeleteTSR, GetTSRState | `transaction.go` 428-450 | `Transaction` (variable `tsr`) | modelled |
| Datastore participant: Prepare, Commit, Abort, read-time recovery | interface `src/datastore.go` 4-25; the rest follows spec §4.3/§4.5 | `Transaction` | partly |
| Connector: ConditionalUpdate, ConditionalCommit, record format | tests in `src/pkg/datastore/redis/redis_connection_test.go` | `Connector` | modelled |
| LocalTimeSource, the hybrid logical clock | `transaction.go` 529-588 | `LocalTimeSource`, composed into `TxnLifecycle` | modelled |
| Remote client server selection (GetServerAddr) | `transaction.go` 606-634 | `RemoteClient`, composed into `RemoteFacade` | modelled |
| Remote client calls (fasthttp `Client`) and the older net/http client | `transaction.go` 636-849, `src/pkg/network/client.go` 19-218 | `RemoteFacade`; in `Transaction` the process death is `Crash` | modelled |
| Server router and read/prepare/commit/abort handlers | `src/datastore.go` 106-275 | `RemoteFacade` | partly: the operations behind them are outside `src/` |
| What the protocol promises: atomic commit, first committer wins | spec §1, P2/P3 | `AtomicCommit`, implemented by `Transaction` | abstract specification |
| Benchmark driver, YCSB Redis binding, benconfig, workload parameters, time-oracle script | `src/benchmarks/...`, `src/unnamed/part_000` | none | not modelled: no protocol state |
| Global time oracle | `getTime` 456-463, server outside `src/` | none | not modelled: HTTP |

How the parts interact:

1. A client drives a `Transaction`.
2. Each participant datastore keeps a read cache and a write cache for the
   transaction.
3. Commit prepares every datastore. Each prepare is a ConditionalUpdate of a
   PREPARED record over the version read, or a create when the key was absent.
4. Commit then creates the TSR with COMMITTED. This is the sync point.
5. Commit then commits every datastore, with a ConditionalUpdate from
   PREPARED to COMMITTED, and finally deletes the TSR.
6. Readers meet a PREPARED record of another transaction and look up that
   transaction's TSR:
   - COMMITTED: they roll the record forward.
   - ABORTED: they roll it back.
   - Absent and past the lease: they seize it with `CreateTSR(ABORTED)` and
     roll back.
   - Otherwise: the read fails.

## Modules

`MCTransaction`, `MCTxnLifecycle` and `MCRemoteFacade` add the model values
and symmetry sets that the configurations use.

### `Connector`: records and the conditional update

- **Records.** A record has five fields:
  - `ver`: the Version;
  - `txn`: the value, abstracted to the transaction that wrote it;
  - `st`: COMMITTED or PREPARED;
  - `del`: IsDeleted;
  - `prev`: a one-level Prev item.
- **`CUAccepts`.** This is the doCreate matrix of
  `TestRedisConnectionConditionalUpdateDoCreate`:
  - with doCreate, the update succeeds only when no record exists;
  - otherwise, it succeeds only on an equal Version.
- **Storing.** `CUStore` stores the item with Version+1. `RolledForward` is
  `ConditionalCommit`.
- **`RolledBack`.** This rewrites the Prev item as a COMMITTED record. An
  empty Prev becomes a tombstone, because a conditional update never removes
  a key.

### `Transaction`: the coordinator, participants, TSR and readers

- **Per-transaction variables:**
  - `tstate`: the StateMachine;
  - `phase`: where Commit or Abort is;
  - `rd`: the read cache;
  - `ws`/`wdel`: the write cache, and which of its items are deletes;
  - `todo`: the datastores the current fan-out has not called yet;
  - `prepared`;
  - `failed`: Commit's `success` flag, negated;
  - `rs`: an in-flight resolution of a foreign PREPARED record.
- **Shared stores:**
  - `rec`: one record per key;
  - `tsr`: the TSR store;
  - `expired`: the transactions whose leases have passed.
- **History variables** for the properties:
  - `synced`: the transactions whose CreateTSR(COMMITTED) took effect;
  - `fate`: whether each write was committed or rolled back;
  - `callFailed`: the transactions one of whose ds.Commit or ds.Abort calls
    failed.

Every backend call is one step. The fan-outs run one goroutine per datastore,
or a loop in map order, so `PrepareDs`, `CommitDs` and `AbortDs` fire per key
in any order. The code's functions map to actions as follows:

- `Commit` is split into:
  - `CommitReadOnly`;
  - `CommitBegin`;
  - `PrepareDs`;
  - `PrepareFailed` / `PrepareSucceeded`, taken after the join;
  - `CreateTSR` / `CreateTSRExists` / `CreateTSRTimeout`;
  - `CommitDs` / `CommitDsError`, where the error is discarded;
  - `DeleteTSR`, taken after the join at every AsyncLevel.
- The constant `AsyncLevel` decides where Commit returns to the client.
  `CommitReturned` holds then:
  - at level 2, right after the sync point, with the fan-out and DeleteTSR
    left to a goroutine;
  - at level 1, after the fan-out;
  - at level 0, after DeleteTSR;
  - for a read-only transaction, at once.
- `Abort` is split into:
  - `AbortBegin`: SetState, then the unconditional `WriteTSR(ABORTED)`;
  - `AbortDs`;
  - `AbortDone`;
  - `ClientAbort`, an Abort called by the client in STARTED;
  - `ClientAbortCommitted` and `ClientAbortDs`, an Abort called by the
    client after its Commit returned. The state machine lets COMMITTED go
    to ABORTED, so it writes ABORTED over the TSR and runs its own
    `ds.Abort` loop (`abortTodo`), concurrent with a fan-out still running.
  - `WriteTSRAborted` is the `WriteTSR(ABORTED)` of every Abort: its error
    is not checked, so with `AbortMayFail` it may leave the TSR as it was.
  - `DsAbort` is what `ds.Abort(hasCommitted)` does to a key in both loops:
    it rolls back a record still PREPARED by the transaction, or, with
    `AbortMayFail`, fails; the error is only logged.
- Read-time recovery is `ResolveTSR`, then `RollForward` / `RollBack` or
  `ResolveMismatch`.
- `Crash` is the coordinator process dying. The remote calls end the process
  with `log.Fatal` on a transport error.
- `LeaseExpire` is time passing a PREPARED record's TLease.

### `AtomicCommit`: what the protocol promises, and the refinement

`AtomicCommit` has no records, versions, TSR or readers. It has four
variables:

- a decision per transaction: undecided, commit or abort;
- the fate of each write;
- the committed value of each key: its writer, and whether it is a delete;
- the value each transaction read of each key.

Its steps:

- **Decide:** each transaction is decided once.
- **Read:** an undecided transaction reads the committed value.
- **Apply:** a write is applied in the direction of the decision only. A
  commit must find the key still holding the value its transaction read,
  which is first committer wins and rules out lost updates. A resolving
  reader may take the resulting value as its read in the same step.

`Transaction` defines the refinement mapping and states
`ImplementsAtomicCommit == AC!Spec`, where
`AC == INSTANCE AtomicCommit WITH ...` maps:

- **decision:** commit once CreateTSR(COMMITTED) took effect (`synced`),
  abort once the TSR says ABORTED;
- **value:** the head record's item when COMMITTED, its Prev item while
  PREPARED, and an absent key as a delete;
- **readFrom:** the item the transaction's Prepare expects (`Expected`).

### `RemoteFacade`: remote calls and the server handlers

`impl` is the client the process was built with, chosen by `Init` from the
constant `Impls`: the fasthttp `Client` of `pkg/txn` or the net/http
`Client` of `pkg/network`. Each caller is a goroutine of one client
process.

- **Calls.** A call is a send step (`Read`, `Prepare`, `Commit`, `Abort`,
  or their `Legacy*` forms) and a receive step (`Receive` /
  `LegacyReceive`).
- **Server.** It is a separate process and handles the requests in
  `inflight`:
  - `ReadHandler`, `PrepareHandler`, `CommitHandler` and `AbortHandler`
    answer 400 when the body does not decode;
  - otherwise they run the operation, whose effect is abstracted to an
    ok/err outcome in `applied`, and answer 200 with Status OK/Error;
  - the read handler may send an empty body, because its json.Marshal
    error is dropped.
- **Broken connection.** `ConnectionFails` models it. The request may
  never reach the server, may still be executed, or may be executed with
  its answer lost.
- **`log.Fatal`.** It ends the process (`alive`) and every caller in it.
  The fasthttp `Prepare` does the same on a marshal error.
- **Legacy `Prepare`.** It rejects a non-Redis item before sending.
- **Server selection.** The fasthttp client asks `GetServerAddr` for the
  server of every call. `RC == INSTANCE RemoteClient` composes it, so its
  steps under `c.mutex` interleave with the calls of the other goroutines
  (`AwaitAddr`, `AddrLock`, `AddrStep`, `AddrUnlock`). The net/http client
  has one fixed server address.
- **Fairness.** `FairSpec` adds weak fairness on the server handlers and
  the caller steps and strong fairness on `AddrLock` (see Fairness), under
  which `CallsComplete` says every started call returns or the process
  ends.

### `TxnLifecycle`: the API of one Transaction object

A client may call the methods of a Transaction in any order. The actions
are:

- `AddDatastore` and `AddDatastores`. A duplicate name is refused, and
  `AddDatastores` keeps the names added before the duplicate.
- `SetGlobalDatastore`.
- `Start` with each of its exits. SetState(STARTED) comes first, then:
  - "global datastore not set";
  - "no datastores added";
  - GenerateId and getTime;
  - `ds.Start()` in map order, stopping at the first that fails.
- `Read`, which checks STARTED and reads at the snapshot TxnStartTime.
- `Write` and `Delete`. Both check STARTED and clear `isReadOnly`, even
  when the datastore is not found.
- `Commit`. This is its state step and its outcome: read-only return,
  Prepare failure, CreateTSR on `tsrMaintainer`, or a TSR already there.
  The protocol steps themselves are in `Transaction`.
- `Abort`, and `SpawnedAbort`, the `go t.Abort()` a failed Commit leaves
  running. Both are `AbortBody`: SetState(ABORTED), then WriteTSR.

The edges the StateMachine accepts (`CanSetState`) come from spec §4.4,
because the StateMachine is not under `src/`. A TSR call on a nil
`tsrMaintainer` sets `panicked`, which ends the process. The time source
is a `LocalTimeSource` (`LTS == INSTANCE LocalTimeSource`), the
`TimeSourcer` given to `NewTransactionWithRemote`. The history variable
`blankUse` records a Read, a Commit that prepares, or an Abort that writes
the TSR, taken while Start has not set TxnId or TxnStartTime; the property
`NoBlankIdentity` says it never happens. The `Clock` action is
the other transactions of the process calling GetTime on it, and its
ticker.

### `LocalTimeSource`: the hybrid logical clock

The variables are `physicalTime`, `logicalTime` and the wall clock `now`.
`GetTime` and the ticker's `Tick` are each one step, because `ts.mu`
serializes them. `last` is the timestamp returned last.

### `RemoteClient`: server selection

`GetServerAddr` is split into the steps it takes while holding `c.mutex`:

1. `Lock`;
2. `WrapIndex`;
3. `ReadAddr`;
4. `Increment`;
5. `Unlock`.

The split shows what the mutex rules out. `served` counts the addresses
returned for each server.

## Runs

| Run | cfg | Expect | What it shows |
|---|---|---|---|
| txn_safety | `MCTransaction.cfg` | pass | `SyncPointIsDurable`: once CreateTSR(COMMITTED) has taken effect, no write of the transaction is ever rolled back, whatever readers, lease expiry and crashes do. `TSRDeletedOnlyWhenResolved`: the TSR is removed only when none of the transaction's records is PREPARED. `TSRDecisionFinal`: a decided TSR never flips. `ImplementsAtomicCommit`: the protocol refines `AtomicCommit`. `TypeOK`. |
| abort_tsr_write_lost | `MCAbortWriteTSR.cfg` | violation | `CommittedTSRProtects` fails when Abort's WriteTSR(ABORTED) fails after an ambiguous CreateTSR (see finding 8). |
| txn_liveness | `MCLiveness.cfg` | pass | With every backend failure mode on and weak fairness of the coordinator goroutines, a transaction in the commit fan-out or with a spawned Abort leaves no PREPARED record behind unless it crashes or one of its own ds.Commit/ds.Abort calls failed, which nothing retries (`NoPreparedLeftBehind`). |
| commit_error_atomicity | `MCCommitError.cfg` | violation | `Atomicity` fails (see finding 1). |
| tsr_timeout_flip | `MCTSRTimeout.cfg` | violation | `TSRDecisionFinal` fails (see finding 2). |
| abort_after_commit | `MCAbortAfterCommit.cfg` | violation | `SyncPointIsDurable` fails at AsyncLevel 2 (see finding 6). |
| txn_lifecycle | `MCTxnLifecycle.cfg` | pass | Any sequence of API calls on one transaction (Read, Write and Delete included), racing the spawned Abort of a failed Commit, fires every API action; the shared LocalTimeSource keeps its counter within `logicalTimeBits` bits (`TypeOK`). |
| failed_start | `MCFailedStart.cfg` | violation | `NoBlankIdentity` fails: after a Start that returned a configuration error, Read, Commit and Abort still run under the blank TxnId and start time (see finding 7). |
| clock_monotonic | `MCClockMonotonic.cfg` | violation | `Monotonic` fails (see finding 3). |
| remote_client_empty | `MCRemoteClientEmpty.cfg` | violation | `NoIndexPanic` fails with an empty server list (see finding 5). |
| remote_facade | `MCRemoteFacade.cfg` | pass | Both client builds. A call that returns reports success exactly when the server applied the operation (`OutcomeAgreement`). The fasthttp client returns a 400 as an error and never ends the process on it (`FasthttpRejectionReturnsError`). Concurrent calls never index past the server list and rotate strictly over it (`GetServerAddrSafe`, RemoteClient's `NoIndexPanic` and `RoundRobin`). Under the fairness of the Go runtime and the mutex, every call that has started returns unless the process has ended (`CallsComplete`). |
| legacy_rejection | `MCLegacyRejection.cfg` | violation | `RejectionReturnsError` fails for the net/http client (see finding 4). |

The refinement fails in the commit-error configuration too: with
`CommitMayFail`, a rollback happens after the commit decision. This was
checked by hand and is not a run, since `commit_error_atomicity` already
records that behaviour.

Every property of a passing run has a mutant in PROJECT.json. A mutant is a
plausible coding error in a mapped definition that makes TLC report the
property violated:

- Commit ignores a CreateTSR error and commits anyway;
- the sync point is the commented-out WriteTSR(COMMITTED);
- DeleteTSR runs before the join;
- the commit is keyed on the read version;
- Prepare stores the whole current record as Prev;
- the clock refresh threshold is off;
- GetServerAddr runs without the mutex;
- the wrap test is off by one;
- Prepare is keyed on the version now stored, not the one read. This is a
  blind write, and only the refinement catches it;
- the fasthttp client returns a transport error to the caller instead of
  log.Fatal;
- the fasthttp client drops its status-code check;
- the net/http client takes an undecodable body as a failed call;
- the fasthttp client resends a request rejected with a 400 instead of
  returning its error, so the call never returns.

## Findings

1. **A failed participant commit is silently lost** (`transaction.go` 354/371
   and 360/379/385).
   - The commit fan-out drops each `ds.Commit()` error, and DeleteTSR still
     runs after the join.
   - A record whose Commit failed stays PREPARED with no TSR. After its lease,
     a reader seizes ABORTED and rolls it back, while the other datastore is
     COMMITTED.
   - TLC's trace has 17 states: t1 writes two keys, one ds.Commit fails,
     DeleteTSR runs, the lease passes, and t2's read seizes an ABORTED TSR
     and rolls that record back. The run sets `ClientAbortAfterCommit` to
     FALSE; with it TRUE, a client Abort after Commit returned rolls the
     same record back in 14 states.
2. **An ambiguous CreateTSR flips COMMITTED to ABORTED** (`transaction.go`
   338, 418).
   - Every CreateTSR error is taken to mean that another transaction aborted
     this one.
   - Abort then writes ABORTED unconditionally. If the insert had taken effect
     (spec §5 allows a timeout after it), readers may already have rolled
     writes forward under COMMITTED, and the rest are now rolled back.
3. **Timestamps repeat** (`transaction.go` 578-583).
   - The refresh re-reads the same wall-clock millisecond and resets the
     counter, so 53 GetTime calls in the first millisecond are followed by a
     repeat of the first timestamp.
   - A ticker firing in the same millisecond as a refresh does the same.
   - Spec §4.1 and P7 require timestamps to strictly increase.
4. **The net/http client dies on a 400** (`pkg/network/client.go` 60-73).
   - It never checks the status code.
   - The handlers answer an undecodable request with a plain-text 400
     (`ctx.Error`), so json.Unmarshal fails and log.Fatal ends the process
     with all its transactions.
   - Spec §6/§7 have such failures surface as non-200 codes and errors. The
     fasthttp client checks the status and returns an error.
5. **An empty server list panics** (`transaction.go` 612-631).
   - NewClient accepts it. The first GetServerAddr indexes
     `ServerAddrList[0]`.
   - Spec §7 says configuration errors are returned as errors.
6. **An Abort after a successful Commit rolls the transaction back**
   (`transaction.go` 345-362, 406-424).
   - Abort's comment says it returns an error if the transaction is
     already committed. The code only calls SetState(ABORTED), which the
     state machine accepts from COMMITTED for the racing-TSR path.
   - At AsyncLevel 2, the benchmark's setting (`benchmarks/cmd/main.go`
     63), Commit returns nil right after CreateTSR. A client Abort after
     that writes ABORTED over the COMMITTED TSR, and `ds.Abort(true)` rolls
     back every record the background `ds.Commit` goroutines have not
     reached yet.
   - TLC's trace takes 9 steps with one write.
   - Spec §4.4 says the transaction is durable-committed after the sync
     point.
   - At AsyncLevel 1 the fan-out is over when Commit returns, but the same
     Abort still flips the TSR from COMMITTED to ABORTED before DeleteTSR
     (`TSRDecisionFinal`, checked by hand). At level 0 it is harmless, and
     `txn_safety` runs at level 0 with the action enabled.
7. **A Start that fails its configuration checks leaves a usable
   transaction with a blank identity** (`transaction.go` 115-130, 177-188,
   406-430).
   - Start sets STARTED before it checks for the global datastore and for
     a participant, and then returns "global datastore not set" or "no
     datastores added". TxnId and TxnStartTime are never set.
   - Every later call is accepted: a Read takes snapshot 0, a Commit
     prepares and writes the TSR under the empty TxnId, and the Abort a
     client calls on the error writes an ABORTED TSR keyed on "". Without
     a global datastore that TSR call is on a nil interface and panics.
   - Start's own comment puts the checks before setting STARTED, and spec
     §7 has configuration errors returned. A retried Start is refused,
     because the state is no longer EMPTY.
   - TLC prints either Start (no global datastore) then Abort, or
     AddDatastore, Start, Read; which one depends on how its two workers
     interleave.
8. **Abort ignores a failed WriteTSR and rolls back under a COMMITTED TSR**
   (`transaction.go` 335-341, 418-424).
   - Abort calls WriteTSR(ABORTED) without checking its error, runs the
     ds.Abort loop and returns nil.
   - After a CreateTSR that stored COMMITTED but returned an error (finding
     2), a WriteTSR that fails on its deadline (spec §5) leaves the COMMITTED
     TSR in place while the write is rolled back; a reader of another record
     would roll that one forward. TLC's trace has 9 states.
   - Abort's doc comment says it returns an error when an operation fails.

## Bounds and why they are enough

- **Transaction runs: 2 transactions × 2 keys.** Each key has its own
  datastore, and each key starts either absent or committed by the loader.
  Two transactions are the least that give a reader resolving another
  transaction's PREPARED record, racing its CreateTSR and its Abort. Two keys
  are the least that give a partially committed transaction.
  - The liveness run uses 1 key, which keeps it under a minute. It still
    covers the contention of two transactions on one record.
  - Symmetry over transactions and keys is used in the safety runs only.
  - The fault flags switch on the backend failure modes: `CommitMayFail`
    (a ds.Commit error), `CreateTSRMayTimeOut` (a CreateTSR that took effect
    and returned an error) and `AbortMayFail` (a failing WriteTSR(ABORTED)
    or ds.Abort). `txn_liveness` turns all of them on.
  - `ClientAbortAfterCommit` lets the client call Abort after its Commit
    returned nil. It is on in the passing runs and in `abort_after_commit`,
    and off where a finding is about what the code does without it.
- **Clock: LogicalTimeBits = 6** (the code's value) and MaxMillis = 2. This
  reaches the refresh threshold (53) within one millisecond and a tick in the
  next one.
- **AsyncLevel.** Level 0 in the passing Transaction runs, where an Abort
  after Commit has returned is enabled and harmless. Level 2, the
  benchmark's, in `abort_after_commit`.
- **TxnLifecycle: one transaction, 2 datastore names**, with symmetry over
  the names. Two names give a duplicate inside `AddDatastores` and a
  `ds.Start` that fails after another one succeeded. The clock has 6
  logical bits and 2 ms, as in the clock runs, so the other transactions'
  GetTime calls reach the refresh threshold.
- **RemoteClient: the empty-list run uses 0 servers and 1 call.** Its
  round-robin properties are checked inside `remote_facade`.
- **RemoteFacade: 2 callers, 4 calls, 2 servers**, without symmetry,
  because the run checks a liveness property. This covers:
  - a call whose connection breaks while another caller's request is in
    flight;
  - requests executed after the process died;
  - every answer kind for every operation;
  - the server index wrapping twice while two goroutines contend for the
    mutex.

  Both client builds are initial states of the one passing run, so every
  send and receive action fires in it.

## Fairness

Only the coordinator's own goroutines are weakly fair: the prepare and commit
fan-outs, the spawned `go t.Abort()`, and DeleteTSR after the join. The Go
runtime runs a runnable goroutine eventually. Client actions, readers, lease
expiry and crashes get no fairness, because the code cannot force a client to
act.

In `RemoteFacade` the server handlers and every step of a caller goroutine
are weakly fair: fasthttp and net/http serve each accepted request on a
goroutine of its own, and a runnable goroutine runs. `AddrLock` is strongly
fair: `c.mutex` is a `sync.Mutex`, whose starvation mode hands the lock to
a waiter that has waited over 1 ms, so a goroutine that keeps asking gets
it. Broken connections and the process ending get no fairness.

## Abstractions and what is not modelled

- Values are the writing transaction.
- Timestamps (TValid, TLease, start and commit times) are left out. A lease
  passing is the `LeaseExpire` event.
- The Prev chain keeps one level, so snapshot reads of older versions and
  MaxRecordLen truncation are not modelled.
- Each key is written or deleted at most once per transaction.
- ReadStrategy AssumeCommit/AssumeAbort is not modelled.
- OnePhaseCommit is dead code, and its call is commented out.
- The Remote* entry points do not match the Client in the same file:
  `RemotePrepare` passes six arguments to a five-parameter `Prepare`.
- In `Transaction`, Start always succeeds. Its failure paths are in
  `TxnLifecycle`, where TxnId and the start time are flags, not values.
- getTime's error path is not reached. The LocalTimeSource never fails, and
  the HTTP time oracle is not in `src/`.
- `Read` in `TxnLifecycle` is its state check and the identity it reads
  under; the snapshot read itself is in `Transaction`.
- The server process of `datastore.go` (main, flag parsing, config loading
  and the connection maps, lines 300-618) is configuration glue. Spec §2
  puts the CLI and configuration out of scope, and its handlers are in
  `RemoteFacade`.
- `AddDatastore` and `SetGlobalDatastore` have no state check. A datastore
  added after Start is never `ds.Start`ed and is still prepared by Commit.
  `TxnLifecycle` allows those calls, but no property is stated about
  `ds.Start`, since what it resets lives outside `src/`.
- In `RemoteFacade` the operations behind the handlers (`reader.Read`,
  `committer.*`, outside `src/`) are abstracted to an ok/err outcome.
  - What a request carries is abstracted to its operation.
  - The `/ping` and 404 branches of the router are left out, because no
  client sends those paths.
  - `GetServerAddr` is `RemoteClient`, composed by instance.

## Plan for later work

1. A `SnapshotRead` module that adds TValid, start time and the Prev chain,
   to check spec P4 (reading the latest version committed before the start
   time).
2. Compose `RemoteFacade` with `Transaction`: a prepare executed by the
   server after the client process died leaves PREPARED records for the
   lease.
3. Read strategies AssumeCommit/AssumeAbort.
