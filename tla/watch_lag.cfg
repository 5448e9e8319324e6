\* The pod watch is late; four pods reach from setup to apply.
CONSTANTS
    ExtraTasks = {}
    Flags = {{}}
    Labels = {}
    SetupLabels = {}
    PodWatchLag = TRUE
    DeleteUnstaged = FALSE
    MaxGeneration = 1
    MaxRelabels = 0
    MaxPodDeletions = 0
    MaxFailedPods = 0
    MaxCrashes = 0
    MaxFaults = 0
    MaxGiveUps = 0
    MaxTroubles = 2
    Weight = 1
    MaxPods = 4
    MaxReapAttempts = 1
    MaxClock = 0
SPECIFICATION Spec
INVARIANT TasksRunInOrder
\* When no task, user or watch has anything left to do the system rests.
CHECK_DEADLOCK FALSE
