\* The Tofu controller with one trouble of any kind.
CONSTANTS
    ExtraTasks = {}
    Flags = {{}, {"keepLatestPodsOnly"}}
    Labels = {"again.setup"}
    SetupLabels = {"again.setup"}
    PodWatchLag = FALSE
    DeleteUnstaged = FALSE
    MaxGeneration = 1
    MaxRelabels = 1
    MaxPodDeletions = 1
    MaxFailedPods = 1
    MaxCrashes = 1
    MaxFaults = 1
    MaxGiveUps = 1
    MaxTroubles = 1
    Weight = 1
    MaxPods = 5
    MaxReapAttempts = 0
    MaxClock = 0
SPECIFICATION TofuSpec
PROPERTY TofuIsTerraform
\* When no task, user or watch has anything left to do the system rests.
CHECK_DEADLOCK FALSE
