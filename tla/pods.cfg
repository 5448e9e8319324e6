\* Two task options, or one and a retry, or three retries.
CONSTANTS
    ExtraTasks = {}
    Kinds = {"terraform", "tofu"}
    Fors = {{"plan"}, {"*"}, {"setup", "scan"}, {"plan", "require-approval"}}
    Optional = {"preinit", "postplan", "preapply", "postapply",
                "postinit-delete", "preplan-delete", "postapply-delete"}
    Whens = {"At", "After", "Sidecar"}
    Budget = 3
SPECIFICATION Spec
INVARIANTS
    TypeOK
    ScriptsFollowPrecedence
    OnlyRepeatsAreRejected
    PlansAwaitApproval
    PodsBearTheirLabels
    RunNumbersGrow
    NextTaskIsTheLoop
\* A workflow ends, or waits for a user.
CHECK_DEADLOCK FALSE
