SPECIFICATION Spec
CONSTANTS
    p1 = p1
    p2 = p2
    NONE = NONE
    USER = USER
    AGENT = AGENT
    Processes <- OneProcess
    Executors <- WorkflowOnly
    HasPlan = FALSE
    HasPlanReview = FALSE
    HasCodeReview = FALSE
    MaxReviewCycles = 1
    AttemptBound = 1
    MaxAttempts = 1
    MaxUserCommits = 0
    MaxCrashes = 1
INVARIANTS
    CompletionRestsOnEvidence
