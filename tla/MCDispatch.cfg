SPECIFICATION Spec
CONSTANTS
    t1 = t1
    t2 = t2
    t3 = t3
    t4 = t4
    e1 = e1
    e2 = e2
    p1 = p1
    p2 = p2
    r1 = r1
    NONE = NONE
    Tasks <- MCTasks
    Executions <- MCExecutions
    Processes <- OneProcess
    Owners <- OneProcess
    Resources <- MCResources
    Needs <- MCNeeds
    DependsOn <- MCDependsOn
    Scope <- MCScope
    Paths <- MCPaths
    NeedsApproval <- MCApproval
    Capabilities <- MCCapabilities
    Offered <- MCOffered
    Listed <- MCListed
    Rank <- MCRank
    MaxParallelism = 2
    LeaseDuration = 1
    RecoveryLeaseDuration = 1
    MaxTime = 0
    WrittenStatuses = {}
    Verdicts = {}
    MaxAttempts = 2
    MaxCrashes = 1
    MaxRetries = 0
    MaxCommands = 0
    LeasesKept = TRUE
SYMMETRY ExecutionSymmetry
INVARIANTS
    ScopesStayApart
    OnlyDueWork
