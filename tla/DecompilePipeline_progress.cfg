\* Runs without a limit, with others in between, try every function.
SPECIFICATION FairSpec
CONSTANTS
    f1 = f1
    f2 = f2
    l1 = l1
    l2 = l2
    t1 = t1
    d1 = d1
    d2 = d2
    p1 = p1
    None = None
    Functions <- TwoFunctions
    Listings <- OneListing
    Toolsets <- OneToolset
    Drafts <- OneDraft
    Scores <- TwoScores
    Digest <- Numbering
    Processes <- OneProcess
    Stems <- StemNames
    Stem <- OwnStems
    Order <- Places
    Analyses <- Runnable
    Commands <- Mixed
    MaxHistory = 4
    MaxEdits = 0
    Kills = FALSE
PROPERTIES
    EveryFunctionIsTried
CHECK_DEADLOCK FALSE
