SPECIFICATION Spec
CONSTANTS
    MaxAttempts = 2
    MaxRetryAfter = 1
    Faults = {"abandon", "lock lost", "write fails", "straggler", "dropped"}
INVARIANTS
    OneAnswer
    AnsweredIsFinal
PROPERTIES
    HolderUndisturbed
    ImplementsContract
    ImplementsRunContract
CHECK_DEADLOCK FALSE
