\* One function, never forced: what is on record is not made again.
SPECIFICATION Spec
CONSTANTS
    f1 = f1
    f2 = f2
    l1 = l1
    l2 = l2
    t1 = t1
    d1 = d1
    d2 = d2
    p1 = p1
    None = None
    Functions <- OneFunction
    Listings <- TwoListings
    Toolsets <- OneToolset
    Drafts <- TwoDrafts
    Scores <- TwoScores
    Digest <- Numbering
    Processes <- OneProcess
    Stems <- StemNames
    Stem <- OwnStems
    Order <- Places
    Analyses <- SomeListings
    Commands <- Unforced
    MaxHistory = 3
    MaxEdits = 1
    Kills = TRUE
INVARIANTS
    NoAttemptTwice
    DraftsMatchRecords
CHECK_DEADLOCK FALSE
