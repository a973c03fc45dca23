CONSTANTS
    c1 = c1
    c2 = c2
    c3 = c3
    d1 = d1
    d2 = d2
    u1 = u1
    Callers <- MCCallers
    Downloaders = {d1, d2}
    Urls <- MCUrls
    dl <- TwoUseCases
    url <- SameUrl
    Published = {u1}
    Nobody = Nobody
    NoEntry = NoEntry
SPECIFICATION Spec
CHECK_DEADLOCK FALSE
INVARIANTS
    TypeOK
    SingleFlight
    RefCountExact
    NoLeakedReference
    SoleDownloadIsWhole
PROPERTIES
    ReferencedEntryKept
    AcquireReturns
    EntriesReclaimed
