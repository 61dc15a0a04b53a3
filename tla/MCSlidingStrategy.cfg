SPECIFICATION StrategySpec
CONSTANTS
    MaxRequests = 3000
    WindowSeconds = 1
    MsPerSecond = 1
    Permille = 1000
    Costs <- MCCosts
    Offsets <- MCOffsets
    Horizon = 4
INVARIANTS
    ResetForgets
CHECK_DEADLOCK FALSE
