SPECIFICATION Spec
CONSTANTS
    t1 = t1
    t2 = t2
    b1 = b1
    b2 = b2
    b3 = b3
    NoBackend = NoBackend
    NoId = NoId
    NoKind = NoKind
    Task <- MCTask
    Backend <- MCBackend
    IdOf <- MCIdOf
    InitBackends <- TwoPool
    InitRtts <- NoRtts
    Addr = {0}
    U32Max = 3
    Kinds = {"round_robin"}
    NewKinds = {}
    MultiThread = TRUE
    CancelDials = FALSE
    CancelAdmins = FALSE
    MaxDials = 2
    MaxGeneration = 1
    MaxPool = 2
INVARIANTS NeverUndercounted
