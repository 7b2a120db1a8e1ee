\* Safety of the commit protocol with crashes, lease expiry and readers.
CONSTANTS
    Key = {k1, k2}
    Txn = {t1, t2}
    NoTxn = NoTxn
    NoRecord = NoRecord
    NotRead = NotRead
    NoResolve = NoResolve
    CommitMayFail = FALSE
    CreateTSRMayTimeOut = FALSE
    AbortMayFail = FALSE
    ClientAbortAfterCommit = TRUE
    AsyncLevel = 0
SPECIFICATION Spec
SYMMETRY Symmetry
INVARIANT TypeOK
INVARIANT SyncPointIsDurable
INVARIANT TSRDeletedOnlyWhenResolved
PROPERTY TSRDecisionFinal
PROPERTY ImplementsAtomicCommit
