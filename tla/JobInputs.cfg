CONSTANTS
    a1 = a1
    a2 = a2
    b1 = b1
    b2 = b2
    d = d
    jobA = jobA
    jobB = jobB
    u1 = u1
    u2 = u2
    Callers <- FourCallers
    Downloaders = {d}
    Urls = {u1, u2}
    dl <- OneDl
    url <- CrossedUrls
    Published = {u2}
    Nobody = Nobody
    NoEntry = NoEntry
    Jobs = {jobA, jobB}
    job <- ByName
    after <- InOrder
    Plans <- AllPlans
SPECIFICATION JobsSpec
CHECK_DEADLOCK FALSE
INVARIANTS
    InputsGivenBack
    FreshOnceSettled
    PartialNeverHeld
PROPERTIES
    RunsEnd
