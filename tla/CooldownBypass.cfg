SPECIFICATION Spec
CONSTANTS
    Minute = 2
    DayLength = 50
    h1 = h1
    h2 = h2
    None = None
    Handlers <- MCHandlers
    DefaultMode = "auto"
    Defaults <- MCDefaults
    AdminRows <- NoRows
    Messages <- MCMessages
    StoreMayFail = FALSE
    Epoch = 94
    MaxTime = 96
    MaxReplies = 3
INVARIANTS
    RepliesSpaced
SYMMETRY HandlerSymmetry
CHECK_DEADLOCK FALSE
