SPECIFICATION ReelectedSpec
CONSTANTS
    a = a
    b = b
    c = c
    d = d
    Nil = Nil
    Server <- Members
    MaxEntries = 2
    MaxTerm = 5
    MaxLog = 7
    MaxInFlight = 1
    MaxBusy = 1
    Lossy = {}
    LateJoins = FALSE
    Candidates <- JustC
    Suspects = {}
    Unreachable = {}
    Faulty = {}
    Restartable = {}
INVARIANTS LeaderCompleteness
CHECK_DEADLOCK FALSE
