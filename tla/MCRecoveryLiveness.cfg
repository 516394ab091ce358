SPECIFICATION FairSpec
CONSTANTS
    p1 = p1
    p2 = p2
    NONE = NONE
    USER = USER
    AGENT = AGENT
    Processes <- OneProcess
    Executors <- BothExecutors
    HasPlan = TRUE
    HasPlanReview = TRUE
    HasCodeReview = TRUE
    MaxReviewCycles = 1
    AttemptBound = 2
    MaxAttempts = 2
    MaxUserCommits = 0
    MaxCrashes = 1
PROPERTIES
    InterruptedWorkIsClassified
