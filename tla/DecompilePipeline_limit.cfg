\* Runs with a limit try the same function again and again.
SPECIFICATION FairSpec
CONSTANTS
    f1 = f1
    f2 = f2
    l1 = l1
    l2 = l2
    t1 = t1
    d1 = d1
    d2 = d2
    p1 = p1
    None = None
    Functions <- TwoFunctions
    Listings <- OneListing
    Toolsets <- OneToolset
    Drafts <- OneDraft
    Scores <- TwoScores
    Digest <- Numbering
    Processes <- OneProcess
    Stems <- StemNames
    Stem <- OwnStems
    Order <- Places
    Analyses <- SomeListings
    Commands <- LimitedOnly
    MaxHistory = 2
    MaxEdits = 0
    Kills = FALSE
PROPERTIES
    EveryFunctionIsTried
CHECK_DEADLOCK FALSE
