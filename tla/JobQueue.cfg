\* Two workers, one job, one drain, crash or retry-after.
SPECIFICATION FairSpec
CONSTANTS
    w1 = w1
    w2 = w2
    j1 = j1
    Worker <- TwoWorkers
    Job <- OneJob
    MaxAttempts = 2
    MaxExtras = 1
    NoClaim = NoClaim
INVARIANTS
    OneSettlePerClaim
PROPERTIES
    HolderUndisturbed
    ImplementsContract
    EveryJobEnds
    SupersededIsTold
    DrainEnds
