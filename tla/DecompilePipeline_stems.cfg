\* Two functions of one directory name share a record.
SPECIFICATION Spec
CONSTANTS
    f1 = f1
    f2 = f2
    l1 = l1
    l2 = l2
    t1 = t1
    d1 = d1
    d2 = d2
    p1 = p1
    None = None
    Functions <- TwoFunctions
    Listings <- OneListing
    Toolsets <- OneToolset
    Drafts <- OneDraft
    Scores <- TwoScores
    Digest <- Numbering
    Processes <- OneProcess
    Stems <- StemNames
    Stem <- OneStem
    Order <- Places
    Analyses <- SomeListings
    Commands <- DefaultOnly
    MaxHistory = 2
    MaxEdits = 0
    Kills = FALSE
INVARIANTS
    ExactIsOwn
CHECK_DEADLOCK FALSE
