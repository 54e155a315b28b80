SPECIFICATION AloneFairSpec
CONSTANTS
    a = a
    b = b
    j = j
    Nil = Nil
    Server <- Three
    MaxEntries = 2
    MaxTerm = 1
    MaxLog = 4
    MaxInFlight = 1
    MaxBusy = 6
    Lossy = {}
    LateJoins = FALSE
    Candidates <- Three
    Suspects = {}
    Unreachable = {}
    Faulty = {}
    Restartable = {}
INVARIANTS OneChangeAtATime
PROPERTIES JoinCompletes LeaderCommits
