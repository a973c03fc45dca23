CONSTANTS
    a1 = a1
    a2 = a2
    s1 = s1
    pipeline = pipeline
    Pools = {pipeline}
    AsyncJobs = {a1, a2}
    SyncJobs = {s1}
    poolOf <- OnePool
    MaxWorkers = 1
    QueueSize = 1
    ChecksOutput = {pipeline}
    NoJob = NoJob
SPECIFICATION Spec
CHECK_DEADLOCK FALSE
INVARIANTS
    PoolTypeOK
    SlotAccounting
    StartedInOrder
    AnswerIsFinal
PROPERTIES
    JobsAnswered
    ImplementsService
