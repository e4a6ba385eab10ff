SPECIFICATION TotalsSpec
CONSTANTS
    r1 = r1
    r2 = r2
    r3 = r3
    r4 = r4
    Run = {r1, r2, r3, r4}
    Exempt = {r4}
    TaskSets = {}
    Ceiling <- MCCeiling
    Cap = 2
    MaxPeriods = 1
    MaxExtras = 0
PROPERTIES
    RefusedAtCap
CHECK_DEADLOCK FALSE
