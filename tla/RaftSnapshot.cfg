SPECIFICATION Spec
CONSTANTS
    NULL = NULL
    Threshold = 1
    MaxLog = 4
    MaxTerm = 2
    MaxLost = 1
    MaxInFlight = 2
INVARIANTS FollowsLeader
PROPERTIES CatchesUp
CHECK_DEADLOCK FALSE
