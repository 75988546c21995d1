SPECIFICATION Spec
CONSTANTS
    c1 = c1
    c2 = c2
    Callers <- MCCallers
    Session <- TwoMessages
    ImagesOf <- MCImages
    HasId <- OnlyFirstHasId
    PerTurnCap = 1
    CacheCap = 4
    RetryAfter = 1
    StoreMayFail = TRUE
    MaxTime = 1
    MaxTrims = 1
PROPERTIES
    NoRetryInCooldown
    SameImageOnce
SYMMETRY CallerSymmetry
CHECK_DEADLOCK FALSE
