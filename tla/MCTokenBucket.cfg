SPECIFICATION UsageSpec
CONSTANTS
    Capacity = 4
    WindowSeconds = 1
    MsPerSecond = 3
    TtlSlack = 0
    Costs <- MCCosts
    Horizon = 9
    MaxPassed = 1
INVARIANTS
    NumbersBounded
    ResetAtIsHonest
    SnapshotIsTrue
PROPERTIES
    IdealSpec
CHECK_DEADLOCK FALSE
