SPECIFICATION FairSpec
CONSTANTS
    MaxAttempts = 3
    MaxRetryAfter = 1
    Faults = {"lost claim", "refused", "uncleaned"}
INVARIANTS
    OpenRunHasWork
PROPERTIES
    RefusalMeansHeldOrOver
    EveryRunSettles
CHECK_DEADLOCK FALSE
