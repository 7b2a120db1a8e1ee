\* Commit fan-out errors with the client never calling Abort after Commit
\* returned: expected to violate Atomicity.
CONSTANTS
    Key = {k1, k2}
    Txn = {t1, t2}
    NoTxn = NoTxn
    NoRecord = NoRecord
    NotRead = NotRead
    NoResolve = NoResolve
    CommitMayFail = TRUE
    CreateTSRMayTimeOut = FALSE
    AbortMayFail = FALSE
    ClientAbortAfterCommit = FALSE
    AsyncLevel = 0
SPECIFICATION Spec
SYMMETRY Symmetry
INVARIANT Atomicity
