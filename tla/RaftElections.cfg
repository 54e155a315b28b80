SPECIFICATION FormedSpec
CONSTANTS
    a = a
    b = b
    c = c
    d = d
    Nil = Nil
    Server <- Members
    MaxEntries = 2
    MaxTerm = 2
    MaxLog = 4
    MaxInFlight = 1
    MaxBusy = 2
    Lossy = {"REQ", "REPLY"}
    LateJoins = FALSE
    Candidates <- NotA
    Suspects = {}
    Unreachable = {}
    Faulty <- Members
    Restartable = {}
SYMMETRY Symmetry
INVARIANTS ElectionSafety
PROPERTIES ElectionImplemented
CHECK_DEADLOCK FALSE
