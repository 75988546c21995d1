SPECIFICATION Spec
CONSTANTS
    m1 = m1
    m2 = m2
    m3 = m3
    NoID = NoID
    Messages <- ThreeMessages
    IdOf <- UniqueIds
    StampOf <- Stamps
    SensitiveWords <- MCWords
    Contents <- MCContents
    Outputs <- MCOutputs
    WindowCap = 2
    MaxCrashes = 1
INVARIANTS
    Accountable
    RefusedLeavesNoTrace
    PromptEndsWithMessage
    SentIsAccounted
    EvictedIsStored
SYMMETRY MessageSymmetry
CHECK_DEADLOCK FALSE
