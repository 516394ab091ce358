SPECIFICATION FairSpec
CONSTANTS
    NONE = NONE
    tracked = tracked
    loose = loose
    nested = nested
    Tracked <- MCTracked
    Loose <- MCLoose
    Nested <- MCNested
    InScope <- MCInScope
    Workflows <- MCWorkflows
    NumChecks = 2
    FailFast = TRUE
    MaxReviewCycles = 2
    MaxVersion = 2
    MaxWrites = 3
    MaxFaults = 1
INVARIANTS
    TypeOK
    AgentsWorkFromTheApprovedPlan
    CommitsAreGated
    RowsTellTheOutcome
    WorktreeIsQuiet
PROPERTIES
    CommitIsConfined
    FinishedRowsAreFinal
    AttemptsEnd
\* The attempt ends.
CHECK_DEADLOCK FALSE
