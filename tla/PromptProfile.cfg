SPECIFICATION PromptSpec
CONSTANTS
    h1 = h1
    h2 = h2
    a1 = a1
    a2 = a2
    p1 = p1
    p2 = p2
    None = None
    Unknown = Unknown
    Handlers <- MCHandlers
    Admins <- MCAdmins
    Profiles <- MCProfiles
    u1 = u1
    u2 = u2
    f1 = f1
    Users <- MCUsers
    FactTexts <- MCFacts
INVARIANTS
    NotStale
PROPERTIES
    PromptShowsProfile
    StaleEntryGoes
