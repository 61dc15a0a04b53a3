\* The delay of a denial that the application's own handler answers.
SPECIFICATION Spec
CONSTANTS
    Stacks <- MCStacks
INVARIANTS
    DenialsSayWhen
CHECK_DEADLOCK FALSE
