CONSTANTS
    Key = {k1, k2}
    Txn = {t1, t2}
    NoTxn = NoTxn
    NoRecord = NoRecord
    NotRead = NotRead
    NoResolve = NoResolve
    CommitMayFail = FALSE
    CreateTSRMayTimeOut = TRUE
    AbortMayFail = FALSE
    ClientAbortAfterCommit = TRUE
    AsyncLevel = 0
SPECIFICATION Spec
SYMMETRY Symmetry
PROPERTY TSRDecisionFinal
