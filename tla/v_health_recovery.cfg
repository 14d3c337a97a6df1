SPECIFICATION Spec
CONSTANTS
    Free = Free
    Checker = Checker
    Other = Other
    N = 1
    Rows = 1
    unhealthy_threshold = 3
    healthy_threshold = 2
    U32Max = 9
    Passive = FALSE
    MaxErrors = 4
PROPERTIES HealthyNeedsSuccesses
