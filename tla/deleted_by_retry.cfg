\* A label set on a resource that is being deleted.
CONSTANTS
    ExtraTasks = {}
    Flags = {{}}
    Labels = {"again"}
    SetupLabels = {}
    PodWatchLag = FALSE
    DeleteUnstaged = FALSE
    MaxGeneration = 1
    MaxRelabels = 1
    MaxPodDeletions = 0
    MaxFailedPods = 0
    MaxCrashes = 0
    MaxFaults = 0
    MaxGiveUps = 0
    MaxTroubles = 2
    Weight = 1
    MaxPods = 20
    MaxReapAttempts = 1
    MaxClock = 0
SPECIFICATION Spec
INVARIANT DeletedMeansDestroyed
\* When no task, user or watch has anything left to do the system rests.
CHECK_DEADLOCK FALSE
