CONSTANTS
    c1 = c1
    c2 = c2
    c3 = c3
    d1 = d1
    d2 = d2
    u1 = u1
    Callers <- TwoCallers
    Downloaders = {d1}
    Urls <- MCUrls
    dl <- OneUseCase
    url <- SameUrl
    Published = {}
    Nobody = Nobody
    NoEntry = NoEntry
SPECIFICATION Spec
CHECK_DEADLOCK FALSE
PROPERTIES
    FileInUseKept
