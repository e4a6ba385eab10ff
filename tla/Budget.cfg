SPECIFICATION Spec
CONSTANTS
    r1 = r1
    r2 = r2
    r3 = r3
    r4 = r4
    Run = {r1, r2, r3, r4}
    Exempt = {r4}
    TaskSets = {r2}
    Ceiling <- MCCeiling
    Cap = 2
    MaxPeriods = 2
    MaxExtras = 1
INVARIANTS
    ReservationsBounded
    CountedWhileSilent
PROPERTIES
    RefusedForLiveWork
CHECK_DEADLOCK FALSE
