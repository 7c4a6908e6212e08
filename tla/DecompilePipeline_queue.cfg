\* Two functions, every filter, runs that end anywhere.
SPECIFICATION Spec
CONSTANTS
    f1 = f1
    f2 = f2
    l1 = l1
    l2 = l2
    t1 = t1
    d1 = d1
    d2 = d2
    p1 = p1
    None = None
    Functions <- TwoFunctions
    Listings <- OneListing
    Toolsets <- OneToolset
    Drafts <- OneDraft
    Scores <- AllScores
    Digest <- Numbering
    Processes <- OneProcess
    Stems <- StemNames
    Stem <- OwnStems
    Order <- Places
    Analyses <- AnyAnalysis
    Commands <- AllFilters
    MaxHistory = 2
    MaxEdits = 1
    Kills = TRUE
INVARIANTS
    TypeOK
    ExactIsBest
    ExactIsOwn
PROPERTIES
    AttemptsAreKept
CHECK_DEADLOCK FALSE
