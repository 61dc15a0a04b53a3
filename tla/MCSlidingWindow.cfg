SPECIFICATION UsageSpec
CONSTANTS
    MaxRequests = 3000
    WindowSeconds = 3
    MsPerSecond = 2
    Permille = 1000
    Costs <- MCCosts
    Horizon = 17
INVARIANTS
    CountsSound
    EstimateSound
    RetryIsFirstFit
    NeverOptimistic
    PromisesKept
PROPERTIES
    EstimateDecays
CHECK_DEADLOCK FALSE
