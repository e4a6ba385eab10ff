SPECIFICATION FairSpec
CONSTANTS
    Approvals = {a1, a2}
    Logins = {login}
    Cards = {card}
    Nothing = nothing
    MaxExtras = 3
INVARIANTS
    BackOnAnAnswer
    ParkedOnADecision
    PressIsHeard
PROPERTIES
    EndedStaysEnded
    WaitsEnd
CHECK_DEADLOCK FALSE
