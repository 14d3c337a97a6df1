SPECIFICATION FairSpec
CONSTANTS
    t1 = t1
    t2 = t2
    b1 = b1
    b2 = b2
    b3 = b3
    NoBackend = NoBackend
    NoId = NoId
    NoKind = NoKind
    Task <- MCTask
    Backend <- MCBackend
    IdOf <- MCIdOf
    InitBackends <- OnePool
    InitRtts <- NoRtts
    Addr = {0}
    U32Max = 1
    Kinds = {"round_robin"}
    NewKinds = {}
    MultiThread = TRUE
    CancelDials = FALSE
    CancelAdmins = FALSE
    MaxDials = 2
    MaxGeneration = 0
    MaxPool = 1
PROPERTIES CountsConverge
