SPECIFICATION FairSpec
CONSTANTS
    l1 = l1
    l2 = l2
    None = None
    Free = Free
    User = User
    Source <- AllSources
    Registries <- SomeRegistries
    Loop <- TwoLoops
    Broken <- BadAddress
    FactoryFails = TRUE
    UserPool <- OneManual
    UserAddr <- ManualAddr
    MaxPool = 1
    MaxChanges = 1
INVARIANTS TypeOK CopiesBounded
PROPERTIES ManualKept RoundIsExact Converges StoppedLoopEnds
