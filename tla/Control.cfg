SPECIFICATION Spec
CONSTANTS
    Minute = 2
    DayLength = 50
    h1 = h1
    h2 = h2
    None = None
    Handlers <- MCHandlers
    DefaultMode = "auto"
    Defaults <- MCDefaults
    AdminRows <- MCRows
    Messages <- MCMessages
    StoreMayFail = TRUE
    Epoch = 94
    MaxTime = 96
    MaxReplies = 3
INVARIANTS
    TypeOK
    AdminRowStays
    NoLostUpdate
    BurstsEndInRest
    NoFreeEnergy
PROPERTIES
    PassRespectsHistory
    RestNotProlonged
SYMMETRY HandlerSymmetry
CHECK_DEADLOCK FALSE
