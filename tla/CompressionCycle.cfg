SPECIFICATION LiveSpec
CONSTANTS
    WindowCap = 8
    CompressionKeep = 2
    MaxSignals = 3
PROPERTIES
    FullIsCompressed
    MarkIsReleased
