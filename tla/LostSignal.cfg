SPECIFICATION FormedSpec
CONSTANTS
    a = a
    b = b
    c = c
    NULL = NULL
    Server <- Three
    Stops = {}
    Faulty = {}
    MaxTerm = 4
    MaxTries = 1
    MaxStarts = 0
    MaxClusters = 1
PROPERTIES ElectionThreadWakes
CHECK_DEADLOCK FALSE
