\* Spec 4.4: nothing runs under a TxnId or start time Start has not set; expected to be violated.
CONSTANTS
    DsName = {d1, d2}
    LogicalTimeBits = 6
    MaxMillis = 2
SPECIFICATION Spec
SYMMETRY Symmetry
INVARIANT NoBlankIdentity
