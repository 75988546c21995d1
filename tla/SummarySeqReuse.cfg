SPECIFICATION PromptSpec
CONSTANTS
    WindowCap = 2
    CompressionKeep = 1
    MaxMsgs = 6
    IdOf <- UniqueIds
    SummaryCap = 1
    LoadMayFail = TRUE
    ArchiveMayFail = FALSE
    r1 = r1
    r2 = r2
    b1 = b1
    Runs <- MCRuns
    Builders <- MCBuilders
    MaxSignals = 2
    MaxRestarts = 1
PROPERTIES
    ArchiveImmutable
CHECK_DEADLOCK FALSE
