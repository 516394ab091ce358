SPECIFICATION Spec
CONSTANTS
    q1 = q1
    q2 = q2
    p1 = p1
    p2 = p2
    NONE = NONE
    USER = USER
    Entries <- MCEntries
    Attempts <- MCEntries
    Processes <- TwoProcesses
    MaxSequence = 2
    MaxUserCommits = 1
    MaxCrashes = 0
    RecoveryKept = TRUE
SYMMETRY Symmetry
PROPERTIES
    OnlyVerifiedRevisionsAreMerged
