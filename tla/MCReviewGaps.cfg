SPECIFICATION Spec
CONSTANTS
    NONE = NONE
    tracked = tracked
    loose = loose
    nested = nested
    Tracked <- MCTracked
    Loose <- MCLoose
    Nested <- MCNested
    InScope <- AllFiles
    Workflows <- ReviewedWorkflow
    NumChecks = 1
    FailFast = TRUE
    MaxReviewCycles = 1
    MaxVersion = 2
    MaxWrites = 2
    MaxFaults = 0
INVARIANTS
    CommitIsWhatWasReviewed
CHECK_DEADLOCK FALSE
