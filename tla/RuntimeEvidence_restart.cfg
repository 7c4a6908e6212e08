\* The emulator is started again between an observation and a module map.
SPECIFICATION Spec
CONSTANTS
    m1 = m1
    m2 = m2
    s1 = s1
    s2 = s2
    c1 = c1
    c2 = c2
    None = None
    Unreadable = Unreadable
    Paths <- TwoPaths
    PathOrder <- Sorted
    Sessions <- TwoSessions
    SessionOrder <- ById
    Calls <- OneCall
    IdsOf <- AnyId
    Layouts <- TwoLayouts
    Extent <- Lengths
    Places <- Code
    Analyses <- TwoAnalyses
    Candidates <- OneCandidates
    MaxSaved = 2
    Given <- AnyPaths
    MaxChanges = 1
    Damages = {}
INVARIANTS
    NeverGuessed
