SPECIFICATION Spec
CONSTANTS
    MaxAttempts = 2
    MaxRetryAfter = 0
    Faults = {"race"}
PROPERTIES
    ClaimOpensOnlyOpenRuns
CHECK_DEADLOCK FALSE
