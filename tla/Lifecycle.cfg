SPECIFICATION FormedSpec
CONSTANTS
    a = a
    b = b
    c = c
    NULL = NULL
    Server <- Three
    Stops <- JustA
    Faulty <- JustC
    MaxTerm = 4
    MaxTries = 1
    MaxStarts = 1
    MaxClusters = 2
PROPERTIES KeyDeletedByOwner StartEnds ShutdownReturns
CHECK_DEADLOCK FALSE
