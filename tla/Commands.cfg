SPECIFICATION Spec
CONSTANTS
    None = None
    Folders <- MCFolders
    Commands = {"x", "y", "z"}
    Topics <- MCTopics
    Folded <- MCFolded
    Answers <- MCAnswers
    Actions <- MCActions
    MaxMute = 2
    Messages = {m1}
    MaxTools = 2
    MaxRounds = 2
INVARIANTS
    GuardsHold
    CommandStopsAtFailure
    NoProcessLeft
CHECK_DEADLOCK FALSE
