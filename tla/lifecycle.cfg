\* Updates that change ignoreDelete, deletions at any time, and one trouble.
CONSTANTS
    ExtraTasks = {}
    Flags = {{"ignoreDelete"}, {}}
    Labels = {}
    SetupLabels = {}
    PodWatchLag = FALSE
    DeleteUnstaged = TRUE
    MaxGeneration = 2
    MaxRelabels = 0
    MaxPodDeletions = 0
    MaxFailedPods = 1
    MaxCrashes = 1
    MaxFaults = 1
    MaxGiveUps = 1
    MaxTroubles = 1
    Weight = 1
    MaxPods = 20
    MaxReapAttempts = 1
    MaxClock = 0
SPECIFICATION Spec
INVARIANT TypeOK
INVARIANT DestroyOnlyWhenDeleted
INVARIANT PodsAreFound
PROPERTY StageMovesForward
PROPERTY ImplementsLifecycle
\* When no task, user or watch has anything left to do the system rests.
CHECK_DEADLOCK FALSE
