SPECIFICATION FairSpec
CONSTANTS
    Messages = 3
    Alone = {2}
    Scheduled = {1}
    MaxTries = 3
    MaxStops = 1
    MaxExtras = 1
INVARIANTS
    OneActiveRun
    NothingLost
    TakenAgainOnlyBehindBatch
    ContinuedOnce
PROPERTIES
    EveryPendedMessageRuns
    AutoContinuationKeepsTrying
CHECK_DEADLOCK FALSE
