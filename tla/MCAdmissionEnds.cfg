SPECIFICATION FairSpec
CONSTANTS
    Checks = {k1, k2}
    Capacity = 2
    Costs = {1, 2, 3}
PROPERTIES
    EveryCheckEnds
CHECK_DEADLOCK FALSE
