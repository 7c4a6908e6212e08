\* Two observe calls for one session read its file before either writes it.
SPECIFICATION Spec
CONSTANTS
    m1 = m1
    m2 = m2
    s1 = s1
    s2 = s2
    c1 = c1
    c2 = c2
    None = None
    Unreadable = Unreadable
    Paths <- TwoPaths
    PathOrder <- Sorted
    Sessions <- TwoSessions
    SessionOrder <- ById
    Calls <- TwoCalls
    IdsOf <- AnyId
    Layouts <- OneLayout
    Extent <- Lengths
    Places <- Code
    Analyses <- TwoAnalyses
    Candidates <- OneCandidates
    MaxSaved = 2
    Given <- SecondOrNone
    MaxChanges = 0
    Damages = {}
PROPERTIES
    ObservationsAreKept
