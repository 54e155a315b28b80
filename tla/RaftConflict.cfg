SPECIFICATION ElectedSpec
CONSTANTS
    a = a
    b = b
    c = c
    d = d
    Nil = Nil
    Server <- Members
    MaxEntries = 2
    MaxTerm = 3
    MaxLog = 6
    MaxInFlight = 1
    MaxBusy = 1
    Lossy = {"REQ"}
    LateJoins = FALSE
    Candidates <- JustC
    Suspects <- JustA
    Unreachable = {}
    Faulty = {}
    Restartable = {}
INVARIANTS TypeOK LogMatching AppliedAgree LeaderCompleteness MatchIndexSound ConfigOfLog NoFatalExit
PROPERTIES CommittedStable
CHECK_DEADLOCK FALSE
