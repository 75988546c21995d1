SPECIFICATION PromptSpec
CONSTANTS
    WindowCap = 3
    CompressionKeep = 1
    MaxMsgs = 8
    IdOf <- UniqueIds
    SummaryCap = 2
    LoadMayFail = FALSE
    ArchiveMayFail = TRUE
    r1 = r1
    r2 = r2
    b1 = b1
    Runs <- MCRuns
    Builders <- MCBuilders
    MaxSignals = 2
    MaxRestarts = 1
INVARIANTS
    SingleRun
    CooldownHolds
    DigestedOnce
    Remembered
    ChainBounded
PROPERTIES
    TrimsOnlyDigested
    ArchiveImmutable
    PromptHasNoHole
    ImplementsCycle
SYMMETRY RunSymmetry
CHECK_DEADLOCK FALSE
