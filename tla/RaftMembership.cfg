SPECIFICATION Spec
CONSTANTS
    a = a
    b = b
    j = j
    Nil = Nil
    Server <- Three
    MaxEntries = 2
    MaxTerm = 1
    MaxLog = 5
    MaxInFlight = 1
    MaxBusy = 2
    Lossy = {}
    LateJoins = FALSE
    Candidates <- JustA
    Suspects <- JustB
    Unreachable <- JustJ
    Faulty <- JustB
    Restartable <- JustB
INVARIANTS LogMatching ConfigOfLog AppliedAgree AppliedOnce
CHECK_DEADLOCK FALSE
