SPECIFICATION FairSpec
CONSTANTS
    q1 = q1
    q2 = q2
    p1 = p1
    p2 = p2
    NONE = NONE
    USER = USER
    Entries <- MCEntries
    Attempts <- MCEntries
    Processes <- OneProcess
    MaxSequence = 2
    MaxUserCommits = 0
    MaxCrashes = 1
    RecoveryKept = TRUE
INVARIANTS
    AtMostOneIntegrating
    FirstInFirstOut
PROPERTIES
    OnlyVerifiedRevisionsAreMerged
    EveryEntrySettles
    ClaimsAreReleased
