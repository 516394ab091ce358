SPECIFICATION Spec
CONSTANTS
    p1 = p1
    p2 = p2
    NONE = NONE
    USER = USER
    AGENT = AGENT
    Processes <- OneProcess
    Executors <- BothExecutors
    HasPlan = TRUE
    HasPlanReview = TRUE
    HasCodeReview = TRUE
    MaxReviewCycles = 2
    AttemptBound = 2
    MaxAttempts = 2
    MaxUserCommits = 1
    MaxCrashes = 2
INVARIANTS
    DoneIsEarned
    RefutedIsNotDone
    ActiveTaskHasRunningAttempt
PROPERTIES
    OnlyVerifiedWorkIsIntegrated
    WorkIsNeverDiscarded
    TransitionsAreLegal
    IntegratedWorkIsNotRetried
