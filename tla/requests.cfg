\* One secret, registered again and again; both controllers.
SPECIFICATION FairSpec
CONSTANTS
    Secrets = {"east"}
    Labels = {}
    Remotes = {"r1"}
    MaxSecretChanges = 1
    MaxFailures = 1
    Controllers = {"terraform", "tofu"}
    MaxAsks = 2
INVARIANTS
    TypeOK
    LocksAreReleased
PROPERTIES
    ChangesAreRead
CHECK_DEADLOCK FALSE
