SPECIFICATION SkewedSpec
CONSTANTS
    Capacity = 3
    WindowSeconds = 1
    MsPerSecond = 4
    TtlSlack = 0
    Costs <- MCCosts
    Horizon = 9
    MaxPassed = 7
INVARIANTS
    IntervalBound
    BookkeepingBounded
CHECK_DEADLOCK FALSE
