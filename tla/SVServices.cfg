SPECIFICATION ServicesSpec
CONSTANTS
    p1 = p1
    h1 = h1
    h2 = h2
    NoSession = NoSession
    Procs = {p1}
    Handlers = {h1, h2}
    HomeOf <- OneProcess
    MaxPhase = 2
    Registered = {1}
    MaxCalls = 3
    MaxCrashes = 2
    Pipelines = {a, b}
    Executors = {e1, e2}
    MaxStage = 2
    MaxRequests = 3
    MaxMishaps = 2
    NoPipeline = NoPipeline
    j1 = j1
    j2 = j2
    j3 = j3
    w1 = w1
    w2 = w2
    w3 = w3
    Jobs = {j1, j2, j3}
    Priority <- Priorities
    MaxConcurrency = 1
    MaxQueueSize = 2
    MaxRetries = 1
    MaxJobHistory = 2
    PoolJobs = {j1, j2, j3}
    Urgency <- Priorities
    Workers = {w1, w2, w3}
    MinWorkers = 1
    MaxWorkers = 2
    ScaleUpThreshold = 2
    ScaleDownThreshold = 2
    MaxAttempts = 2
    MaxRevivals = 1
    MaxScales = 1
    NoJob = NoJob
    GenJobs = {j1, j2, j3}
    GenPriority <- Priorities
    GenRetries = 1
    Agents = {1, 2, 3, 4}
    Defined = {1, 2, 3, 4}
    Definitions <- SmallPipelines
    Requests = {{1}, {1, 2}}
    Plans <- Meeting
    Executions = {x1, x2}
    RetryRequests = {NoNumber, 0, 9}
    NoNumber = NoNumber
    NoTask = NoTask
CHECK_DEADLOCK FALSE
INVARIANTS
    ServicesTypeOK
    StagesInOrder
    CompletedStagesExact
    NothingRunsAlone
    SlotsAreExecutions
    QueuesAreExact
    EveryJobHasItsPlace
    CyclesExact
    PlanInOrder
    PlanAccountsForAll
PROPERTIES
    StoppedStaysStopped
    CheckpointsKept
    RestartLeavesNoneRunning
    StopUnwinds
    ProjectReleased
    AllWorkEnds
