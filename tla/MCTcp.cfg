SPECIFICATION TickedSpec
CONSTANTS
    SeqMod = 32
    MSS = 2
    SND_BUF = 3
    RCV_BUF = 3
    OOO_BUF = 2
    SYN_TRIES = 2
    DATA_TRIES = 2
    CWND_MAX = 2
    DUPACK_MAX = 4
    ISS = 30
    IRS = 29
    Plans <- MCPlans
    SynDataAgain = FALSE
CHECK_DEADLOCK FALSE
INVARIANTS ReceivedIsPrefix SegmentsMatchStream KeptUntilReceived OrderlyCloseIsComplete EdgeIsKept
PROPERTY AttemptsEnd
