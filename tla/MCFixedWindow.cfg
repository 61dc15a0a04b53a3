SPECIFICATION UsageSpec
CONSTANTS
    MaxRequests = 3
    WindowSeconds = 2
    MsPerSecond = 2
    Costs <- MCCosts
    Horizon = 9
INVARIANTS
    NoOverAdmission
    ExpiresWithItsWindow
    CheckedCounterExpires
    RetryIsExact
    SnapshotIsTrue
PROPERTIES
    NoEarlyAdmission
    QuotaSpec
CHECK_DEADLOCK FALSE
