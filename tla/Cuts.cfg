CONSTANTS
    Times = {0, 1, 2, 3}
    Requests <- MCRequests
    Instants = {0, 1, 2, 3, 4, 5, 6}
    StableUpTo = 2
SPECIFICATION Spec
CHECK_DEADLOCK FALSE
INVARIANTS
    CutsTypeOK
    NothingElseLost
    NoReplay
    CutsGone
