SPECIFICATION StoreSpec
CONSTANTS
    t1 = t1
    t2 = t2
    t3 = t3
    t4 = t4
    e1 = e1
    e2 = e2
    e3 = e3
    o1 = o1
    o2 = o2
    r1 = r1
    NONE = NONE
    Tasks <- MCTasks
    Executions <- MCExecutions
    Owners <- MCOwners
    Resources <- MCResources
    Needs <- MCNeeds
    MaxParallelism = 2
    LeaseDuration = 1
    RecoveryLeaseDuration = 1
    MaxTime = 2
    Verdicts <- MCVerdicts
    WrittenStatuses <- MCWrittenStatuses
SYMMETRY Symmetry
INVARIANTS
    StoreTypeOK
    OneActiveClaimPerTask
    CapacityRespected
    LocksMatchActiveClaims
PROPERTIES
    SettledClaimsAreFinal
    RecoveryWaitsForTheLease
    AdmissionSpec
