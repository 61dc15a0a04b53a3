SPECIFICATION FairSpec
CONSTANTS
    Texts <- MCTexts
    Policies <- MCPolicies
    Numbers <- MCNumbers
    DefaultAlgorithm = "token_bucket"
    Resets = {r1}
    Keys <- MCKeys
    Requests <- MCRequests
    BatchSize = 2
    MaxLate = 1
INVARIANTS
    AnswerIsTrue
    RemovesOnlyWanted
PROPERTIES
    ResetIsComplete
    EveryResetReturns
