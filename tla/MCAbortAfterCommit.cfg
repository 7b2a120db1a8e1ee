\* AsyncLevel 2, the benchmark setting: the client calls Abort after a Commit that returned nil.
CONSTANTS
    Key = {k1, k2}
    Txn = {t1, t2}
    NoTxn = NoTxn
    NoRecord = NoRecord
    NotRead = NotRead
    NoResolve = NoResolve
    CommitMayFail = FALSE
    CreateTSRMayTimeOut = FALSE
    AbortMayFail = FALSE
    ClientAbortAfterCommit = TRUE
    AsyncLevel = 2
SPECIFICATION Spec
SYMMETRY Symmetry





INVARIANT SyncPointIsDurable
