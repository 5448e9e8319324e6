\* A retry, a failed request, or three of a failed task, a deleted pod, a crash
\* and two confirmations that are given up, at any point of a workflow.
CONSTANTS
    ExtraTasks = {}
    Flags = {{"keepCompletedPods"}}
    Labels = {"again", "again.setup"}
    SetupLabels = {"again.setup"}
    PodWatchLag = FALSE
    DeleteUnstaged = FALSE
    MaxGeneration = 1
    MaxRelabels = 1
    MaxPodDeletions = 1
    MaxFailedPods = 1
    MaxCrashes = 1
    MaxFaults = 1
    MaxGiveUps = 2
    MaxTroubles = 3
    Weight = 3
    MaxPods = 20
    MaxReapAttempts = 1
    MaxClock = 1
SPECIFICATION Spec
INVARIANT TasksRunInOrder
INVARIANT CompletedMeansApplied
INVARIANT OneLivePodPerTask
PROPERTY FailedApplyIsPlannedAgain
PROPERTY StageMovesForward
\* When no task, user or watch has anything left to do the system rests.
CHECK_DEADLOCK FALSE
