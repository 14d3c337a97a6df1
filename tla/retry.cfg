SPECIFICATION FairSpec
CONSTANTS
    None = None
    b1 = b1
    b2 = b2
    Backend <- MCBackend
    Requests <- MCRequests
    LbRequests <- MCLbRequests
    Policies <- Sound
    Timeouts <- SomeTimeouts
    FloatMax = 6
    I32Max = 3
    MaxWait = 6
INVARIANTS TypeOK AttemptsBounded AttemptTimed
PROPERTIES BackoffBounded BudgetOverrun BuildSound CallReturns
