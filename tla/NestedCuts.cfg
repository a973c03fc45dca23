CONSTANTS
    Times = {0, 1, 2, 3}
    Requests <- MCRequests
    Instants = {0, 1, 2, 3, 4, 5, 6}
    StableUpTo = 12
SPECIFICATION Spec
CHECK_DEADLOCK FALSE
INVARIANTS
    KeptIsComplement
