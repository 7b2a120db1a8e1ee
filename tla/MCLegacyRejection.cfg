CONSTANTS
    c1 = c1
    c2 = c2
    Caller <- MCCaller
    Impls = {"nethttp"}
    MaxCalls = 3
    NumServers = 2
    NoCaller = NoCaller
SYMMETRY Symmetry
SPECIFICATION Spec
INVARIANT RejectionReturnsError
