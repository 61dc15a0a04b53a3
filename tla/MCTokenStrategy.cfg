SPECIFICATION Spec
CONSTANTS
    Capacity = 4
    WindowSeconds = 1
    MsPerSecond = 3
    TtlSlack = 0
    Costs <- MCCosts
    Horizon = 8
    MaxPassed = 8
INVARIANTS
    NewBucketIsFull
CHECK_DEADLOCK FALSE
