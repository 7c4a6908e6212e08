\* A stopped analysis under another configuration is reused as complete.
SPECIFICATION Spec
CONSTANTS
    s1 = s1
    s2 = s2
    c1 = c1
    c2 = c2
    k1 = k1
    k2 = k2
    None = None
    Sources <- OneSource
    Kind <- Directories
    Contents <- TwoContents
    Configs <- TwoConfigs
    MaxEdits = 0
    EditsDuringRuns = FALSE
    Stops = {"analyze"}
INVARIANTS
    ReusedIsComplete
