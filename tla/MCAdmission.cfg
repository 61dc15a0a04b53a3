SPECIFICATION Spec
CONSTANTS
    Checks = {k1, k2, k3}
    Capacity = 5
    Costs = {2, 6}
INVARIANTS
    ChargedAtMostOnce
    AnswersAreTrue
    UsedIsCharged
    LedgerAddsUp
    OversizedNeverPasses
SYMMETRY AnyOrder
CHECK_DEADLOCK FALSE
