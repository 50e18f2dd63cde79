SPECIFICATION FairSpec
CONSTANTS
    a = a
    b = b
    all = all
    froma = froma
    k1 = k1
    Peers = {a, b}
    MaxMsgs <- MCMaxMsgs
    Receivers = {all, froma}
    Pred <- MCPred
    CachePreds = {k1}
    Cached <- MCCached
    BufferSize = 1
CHECK_DEADLOCK FALSE
INVARIANTS
    KeptUnlessRaced
    OrderedUnlessCached
    NeverPanics
PROPERTIES
    PutReturns
