\* An environment, a transform and an agent: everything happens.
CONSTANTS
    w1 = w1
    w2 = w2
    Worker = {w1, w2}
    N = 3
    Kind <- EnvironmentTransformAgent
    Timed = {2}
    Guarded = {3}
    Foreign = {5}
    Posted = {3}
    MaxAttempts = 2
    Happens = {"crash", "cancel", "operator", "stale", "race"}
    MaxOps = 2
    MaxExtras = 2
SPECIFICATION Spec
SYMMETRY Workers
CHECK_DEADLOCK FALSE
INVARIANTS FailedRunHasNothingToCome
