\* An add request that times out leaves its breakpoint behind.
SPECIFICATION Spec
CONSTANTS
    a1 = a1
    a2 = a2
    Addrs <- MCAddrs
    NoAddr = NoAddr
    Captures = 1
    MaxQueued = 1
    MaxCalls = 1
    MaxStops = 1
    MaxInterrupts = 0
    LinkLoss = FALSE
    TornFrames = FALSE
    MaxPings = 0
INVARIANTS
    CloseRemovesBreakpoints
CHECK_DEADLOCK FALSE
