\* Three pods of a version, some with a URL of their own.
CONSTANTS
    Pods = {"p1", "p2", "p3"}
    MaxCrashes = 1
    MaxKills = 2
SPECIFICATION Spec
INVARIANTS
    TypeOK
    CachedBinariesAreWhole
    OnlyTornBinariesAreBroken
\* Every script ends.
CHECK_DEADLOCK FALSE
