SPECIFICATION Spec
CONSTANTS
    v1 = v1
    v2 = v2
    v3 = v3
    j1 = j1
    Nil = Nil
    Server <- MCServer
    Voting <- MCVoting
    MaxTerm = 3
SYMMETRY Symmetry
INVARIANTS Inv ElectionSafety VotesWithinConfig OneVotePerTerm
CHECK_DEADLOCK FALSE
