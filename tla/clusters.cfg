\* Two secrets that may have the same cluster name.
SPECIFICATION FairProviderSpec
CONSTANTS
    Secrets = {"east", "west"}
    Labels = {"east"}
    Remotes = {"r1", "r2"}
    MaxSecretChanges = 2
    MaxFailures = 2
INVARIANTS
    ProviderTypeOK
    RegistryAgrees
    EngagedAsDescribed
PROPERTIES
    RegisteredRuns
CHECK_DEADLOCK FALSE
