\* A batch of two calls, or two batches of one, over two executions.
SPECIFICATION Spec
CONSTANTS
    MaxExecs = 2
    MaxAsks = 2
    Call = {c1, c2}
    Claimed = {c1}
    Scenarios <- MCScenarios
    c1 = c1
    c2 = c2
INVARIANTS
    CallTakesEffectOnce
    DurableIsKept
    CheckpointFits
    SavedTurnTakesEffectOnce
CHECK_DEADLOCK FALSE
