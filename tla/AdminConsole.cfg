SPECIFICATION Spec
CONSTANTS
    None = None
    Broken = Broken
    Names = {a, b}
    Passwords = {p, q}
    Words = {v, w}
    Texts = {"written", "blank"}
    Agents = {"PlumeBot", "other"}
    Template <- MCTemplate
    Edited <- MCEdited
    Environment <- MCEnvironment
    Providers = {"openai"}
    Tools = {"store_fact", "forget_fact"}
    MaxPort = 9322
    MaxEdits = 1
    MaxJargon = 1
    TokenTTL = 1
    MaxRequests = 3
    MaxTime = 1
    MaxKeys = 2
    Migrations = 2
    Statements = 2
INVARIANTS
    SchemaOnce
    TokensSurviveRestart
    ReviewHolds
    PersonaStands
PROPERTIES
    RegistrationCloses
    AddWithinCap
SYMMETRY MCSymmetry
CHECK_DEADLOCK FALSE
