SPECIFICATION Spec
CONSTANTS
    t1 = t1
    t2 = t2
    b1 = b1
    b2 = b2
    b3 = b3
    NoBackend = NoBackend
    NoId = NoId
    NoKind = NoKind
    Task <- MCTask
    Backend <- MCBackend
    IdOf <- MCIdOf
    InitBackends <- ThreePool
    InitRtts <- NoRtts
    Addr = {0}
    U32Max = 3
    Kinds = {"failover"}
    NewKinds = {}
    MultiThread = FALSE
    CancelDials = FALSE
    CancelAdmins = FALSE
    MaxDials = 2
    MaxGeneration = 1
    MaxPool = 3
PROPERTIES FailoverRotates
