CONSTANTS
    a = a
    s = s
    a1 = a1
    a2 = a2
    s1 = s1
    AsyncJobs = {a}
    SyncJobs = {s}
    Clips <- ThreeClips
    jobOf <- ByName
    MaxWorkers = 1
    QueueSize = 1
SPECIFICATION Spec
CHECK_DEADLOCK FALSE
INVARIANTS
    ClipsTypeOK
    ClipSlots
    ClosedAfterSends
    InputKeptForRenders
    OutputsComplete
PROPERTIES
    ClipsAnswered
