\* Any sequence of API calls on one transaction, two datastore names, the
\* spawned Abort of a failed Commit, and a time source shared with other
\* transactions and its ticker.
CONSTANTS
    DsName = {d1, d2}
    LogicalTimeBits = 6
    MaxMillis = 2
SPECIFICATION Spec
SYMMETRY Symmetry
INVARIANT TypeOK
