\* Every call may stop between any two writes; the user writes at any time.
SPECIFICATION Spec
CONSTANTS
    s1 = s1
    s2 = s2
    c1 = c1
    c2 = c2
    k1 = k1
    k2 = k2
    None = None
    Sources <- TwoSources
    Kind <- OneOfEach
    Contents <- TwoContents
    Configs <- TwoConfigs
    MaxEdits = 1
    EditsDuringRuns = TRUE
    Stops = {"prepare", "analyze"}
INVARIANTS
    TypeOK
    RightUnlessStopped
    PreparedIsAccepted
    StartsOnPreparedContents
