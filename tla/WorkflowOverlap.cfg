\* Everything happens to a queueing installation.
CONSTANTS
    Fires = 6
    Limit = 2
    OnOverlap = "queue"
    Depth = 2
    Happens = {"elsewhere", "lost"}
SPECIFICATION Spec
CHECK_DEADLOCK FALSE
INVARIANTS SomebodyReleases
PROPERTIES FirstInFirstReleased
