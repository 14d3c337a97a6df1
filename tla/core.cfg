SPECIFICATION FairSpec
CONSTANTS
    t1 = t1
    t2 = t2
    b1 = b1
    b2 = b2
    b3 = b3
    NoBackend = NoBackend
    NoId = NoId
    NoKind = NoKind
    Task <- MCTask
    Backend <- PairBackend
    IdOf <- PairIdOf
    InitBackends <- OnePool
    InitRtts <- NoRtts
    Addr = {0}
    U32Max = 1
    Kinds = {"round_robin"}
    NewKinds = {"failover"}
    MultiThread = FALSE
    CancelDials = TRUE
    CancelAdmins = FALSE
    MaxDials = 2
    MaxGeneration = 2
    MaxPool = 2
INVARIANTS PoolAligned NoPanic NeverUndercounted
PROPERTIES DialCompletes AdminCompletes
