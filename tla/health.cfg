SPECIFICATION FairSpec
CONSTANTS
    Free = Free
    Checker = Checker
    Other = Other
    N = 2
    Rows = 1
    unhealthy_threshold = 2
    healthy_threshold = 2
    U32Max = 4
    Passive = TRUE
    MaxErrors = 2
INVARIANTS TypeOK
PROPERTIES UnhealthyNeedsFailures RecoveryNeedsSuccesses ShutdownIsClean DeadBackendDetected LoopEnds
