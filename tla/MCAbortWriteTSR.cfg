\* Abort does not check the error of its WriteTSR(ABORTED); with CreateTSR
\* timeouts, expected to violate CommittedTSRProtects.
CONSTANTS
    Key = {k1, k2}
    Txn = {t1, t2}
    NoTxn = NoTxn
    NoRecord = NoRecord
    NotRead = NotRead
    NoResolve = NoResolve
    CommitMayFail = FALSE
    CreateTSRMayTimeOut = TRUE
    AbortMayFail = TRUE
    ClientAbortAfterCommit = FALSE
    AsyncLevel = 0
SPECIFICATION Spec
SYMMETRY Symmetry
INVARIANT CommittedTSRProtects
