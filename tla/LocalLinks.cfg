CONSTANTS
    j1 = j1
    j2 = j2
    Jobs = {j1, j2}
    MaxAttempts = 3
    Cases <- MCCases
    NoName = NoName
    Nothing = Nothing
SPECIFICATION Spec
CHECK_DEADLOCK FALSE
INVARIANTS
    LocalLinkInPlace
