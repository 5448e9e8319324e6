\* The reaper beside a create and a destroy workflow, and one trouble.
CONSTANTS
    ExtraTasks = {}
    Flags = {{"keepLatestPodsOnly"}}
    Labels = {}
    SetupLabels = {}
    PodWatchLag = FALSE
    DeleteUnstaged = FALSE
    MaxGeneration = 1
    MaxRelabels = 0
    MaxPodDeletions = 0
    MaxFailedPods = 1
    MaxCrashes = 1
    MaxFaults = 1
    MaxGiveUps = 1
    MaxTroubles = 1
    Weight = 1
    MaxPods = 20
    MaxReapAttempts = 1
    MaxClock = 0
SPECIFICATION Spec
INVARIANT OneLivePodPerTask
INVARIANT DeletedMeansDestroyed
PROPERTY ReaperWaitsForPods
\* When no task, user or watch has anything left to do the system rests.
CHECK_DEADLOCK FALSE
