\* Fair runs with a deleted pod and a confirmation that is given up.
CONSTANTS
    ExtraTasks = {}
    Flags = {{}}
    Labels = {}
    SetupLabels = {}
    PodWatchLag = FALSE
    DeleteUnstaged = FALSE
    MaxGeneration = 1
    MaxRelabels = 0
    MaxPodDeletions = 1
    MaxFailedPods = 0
    MaxCrashes = 0
    MaxFaults = 0
    MaxGiveUps = 1
    MaxTroubles = 2
    Weight = 1
    MaxPods = 20
    MaxReapAttempts = 1
    MaxClock = 0
SPECIFICATION FairSpec
PROPERTY WorkflowSettles
PROPERTY DeletionCompletes
\* When no task, user or watch has anything left to do the system rests.
CHECK_DEADLOCK FALSE
