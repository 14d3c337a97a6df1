SPECIFICATION Spec
CONSTANTS
    t1 = t1
    t2 = t2
    Free = Free
    NoPick = NoPick
    NoOut = NoOut
    Thread <- MCThread
    Admin <- OneAdmin
    Sizes = {0, 1, 2}
    Rows <- SomeRows
    Addr = {0, 1}
    U32Max = 9
    U64Max = 5000
    Kinds = {"round_robin", "failover", "sticky", "health_weighted", "weighted_round_robin"}
    MaxPicks = 3
INVARIANTS TypeOK SelectInRange WeightedProportional PoisonedByOverflow
PROPERTY ReadbackWhole
