\* The stop that is reported may be over when the registers are read.
SPECIFICATION Spec
CONSTANTS
    a1 = a1
    a2 = a2
    Addrs <- MCAddrs
    NoAddr = NoAddr
    Captures = 1
    MaxQueued = 1
    MaxCalls = 1
    MaxStops = 2
    MaxInterrupts = 0
    LinkLoss = FALSE
    TornFrames = FALSE
    MaxPings = 0
INVARIANTS
    CapturedAtTheBreakpoint
CHECK_DEADLOCK FALSE
