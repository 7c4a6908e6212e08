\* Launch and connect, any other program on the port, an interrupt.
SPECIFICATION FairSpec
CONSTANTS
    Modes = {"launch", "connect"}
    Others = TRUE
    Stubborn = TRUE
    MaxInterrupts = 1
INVARIANTS
    TypeOK
    NoProcessLeft
PROPERTIES
    SetupEnds
    ClosingEnds
CHECK_DEADLOCK FALSE
