\* Progress of the coordinator goroutines under every backend failure mode.
CONSTANTS
    Key = {k1}
    Txn = {t1, t2}
    NoTxn = NoTxn
    NoRecord = NoRecord
    NotRead = NotRead
    NoResolve = NoResolve
    CommitMayFail = TRUE
    CreateTSRMayTimeOut = TRUE
    AbortMayFail = TRUE
    ClientAbortAfterCommit = TRUE
    AsyncLevel = 0
SPECIFICATION FairSpec
PROPERTY NoPreparedLeftBehind
