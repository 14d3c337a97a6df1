SPECIFICATION Spec
CONSTANTS
    t1 = t1
    t2 = t2
    b1 = b1
    b2 = b2
    b3 = b3
    NoBackend = NoBackend
    NoId = NoId
    NoKind = NoKind
    Task <- MCTask
    Backend <- MCBackend
    IdOf <- MCIdOf
    InitBackends <- TwoPool
    InitRtts <- ThreeRtts
    Addr = {0, 1}
    U32Max = 9
    Kinds = {"round_robin", "random", "lowest_rtt", "least_connections", "hash_by_addr", "weighted_round_robin", "failover", "health_weighted", "sticky"}
    NewKinds = {}
    MultiThread = FALSE
    CancelDials = FALSE
    CancelAdmins = FALSE
    MaxDials = 2
    MaxGeneration = 0
    MaxPool = 2
INVARIANTS RoundRobinEven StickyOneBackend
PROPERTIES FailoverRotates DrainRespected
SYMMETRY TaskSymmetry
