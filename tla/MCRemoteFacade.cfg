\* Both client builds, two concurrent callers, four calls over two servers;
\* no symmetry, as CallsComplete is a liveness property.
CONSTANTS
    c1 = c1
    c2 = c2
    Caller <- MCCaller
    Impls = {"fasthttp", "nethttp"}
    MaxCalls = 4
    NumServers = 2
    NoCaller = NoCaller
SPECIFICATION FairSpec
INVARIANT OutcomeAgreement FasthttpRejectionReturnsError GetServerAddrSafe
PROPERTY CallsComplete
