\* Deaths and a cancellation; jobs are handled one after the other.
CONSTANTS
    w1 = w1
    w2 = w2
    Worker = {w1}
    N = 5
    Kind <- MixedSteps
    Timed = {3}
    Guarded = {5}
    Foreign = {}
    Posted = {}
    MaxAttempts = 3
    Happens = {"crash", "cancel"}
    MaxOps = 0
    MaxExtras = 5
SPECIFICATION FairSpec
CHECK_DEADLOCK FALSE
INVARIANTS ToolRunsOnce InOrder ActiveRunHasWork
PROPERTIES EndedForGood RunEnds
