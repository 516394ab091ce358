SPECIFICATION Spec
CONSTANTS
    q1 = q1
    q2 = q2
    p1 = p1
    p2 = p2
    NONE = NONE
    USER = USER
    Entries <- OneEntry
    Attempts <- OneEntry
    Processes <- TwoProcesses
    MaxSequence = 1
    MaxUserCommits = 2
    MaxCrashes = 2
    RecoveryKept = FALSE
SYMMETRY ProcessSymmetry
INVARIANTS
    DoneIsIntegrated
    SuccessRestsOnFreshEvidence
    VerdictsAgree
    SettledEntriesEndTheirTask
    LiveEntriesHaveOneWorker
    PatchesLandOnce
PROPERTIES
    SettledEntriesAreFinal
