\* NewClient given an empty server list: the first GetServerAddr call.
CONSTANTS
    NumServers = 0
    Caller = {g1}
    NoCaller = NoCaller
    MaxCalls = 1
SPECIFICATION Spec
INVARIANT NoIndexPanic
