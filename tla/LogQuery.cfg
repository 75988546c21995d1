SPECIFICATION Spec
CONSTANTS
    t1 = t1
    t2 = t2
    None = None
    Messages <- MCMessages
    Configured = "error"
    Requests <- MCRequests
    DefaultLimit = 2
    MaxLimit = 3
    Goroutines = 2
    MaxEntries = 4
    Slots = {s1}
INVARIANTS
    OneLevelHasNoGap
    PagesAreSound
CHECK_DEADLOCK FALSE
