\* Both controllers start the tasks of a resource, one request at a time.
CONSTANTS
    Controllers = {"terraform", "tofu"}
    Whens = {"After"}
    PluginTasks = {"setup"}
    Locks = {TRUE}
    OwnsServiceAccount = TRUE
    MaxGeneration = 2
    MaxCrashes = 1
    MaxFaults = 1
    MaxLags = 1
    MaxSecretDeletions = 1
    MaxTroubles = 2
    Weight = 2
    MaxJobs = 3
SPECIFICATION FairSpec
INVARIANT TypeOK
INVARIANT PodsFindTheirObjects
INVARIANT PluginRunsOnce
PROPERTY TasksAreStarted
PROPERTY DeletedIsRemoved
PROPERTY GitSecretsReleased
CHECK_DEADLOCK FALSE
