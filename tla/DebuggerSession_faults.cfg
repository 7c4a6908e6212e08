\* Timeouts, refusals, torn frames, a lost connection and an interrupt.
SPECIFICATION FairSpec
CONSTANTS
    a1 = a1
    a2 = a2
    Addrs <- MCAddrs
    NoAddr = NoAddr
    Captures = 1
    MaxQueued = 1
    MaxCalls = 2
    MaxStops = 2
    MaxInterrupts = 1
    LinkLoss = TRUE
    TornFrames = TRUE
    MaxPings = 1
INVARIANTS
    TypeOK
    AnswersBelongToTheCall
    OnlyLostAddsLeak
    CpuLeftRunning
    CapturesSeeOneStop
    NothingTrackedBetweenCalls
PROPERTIES
    CallsEnd
CHECK_DEADLOCK FALSE
