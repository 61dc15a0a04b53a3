SPECIFICATION FairSpec
CONSTANTS
    Stacks <- MCStacks
INVARIANTS
    PathSound
    QuotaHeadersTrue
    RefusalsAreTold
PROPERTIES
    EveryRequestAnswered
CHECK_DEADLOCK FALSE
