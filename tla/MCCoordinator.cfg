SPECIFICATION Spec
CONSTANTS
    t1 = t1
    t2 = t2
    t3 = t3
    t4 = t4
    e1 = e1
    e2 = e2
    p1 = p1
    p2 = p2
    r1 = r1
    NONE = NONE
    Tasks <- OneTask
    Executions <- MCExecutions
    Processes <- MCProcesses
    Owners <- MCProcesses
    Resources <- MCResources
    Needs <- OneNoNeeds
    DependsOn <- OneNoNeeds
    Scope <- OneScope
    Paths = {}
    NeedsApproval = {}
    Capabilities <- OneCapability
    Offered <- MCOffered
    Listed <- OneTask
    Rank <- OneRank
    MaxParallelism = 2
    LeaseDuration = 1
    RecoveryLeaseDuration = 1
    MaxTime = 0
    WrittenStatuses = {}
    Verdicts = {}
    MaxAttempts = 2
    MaxCrashes = 1
    MaxRetries = 1
    MaxCommands = 2
    LeasesKept = TRUE
SYMMETRY Symmetry
INVARIANTS
    OneExecutorPerTask
    WorkIsClaimed
    QueuedWorkIsLeftToTheQueue
CHECK_DEADLOCK FALSE
