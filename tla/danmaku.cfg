SPECIFICATION FairSpec
CONSTANTS
    r1 = r1
    r2 = r2
    main1 = main1
    retry = retry
    Requests <- TwoRequests
    Callers <- TwoCallers
    MainCaller = main1
    Modes <- AllModes
    BufferSize = 1
CHECK_DEADLOCK FALSE
INVARIANTS
    NoSendOnClosed
    ChannelConservation
    AckIsBacked
    CleanShutdown
    ShutdownInv
PROPERTIES
    NoAckAfterQuiescence
    AcceptedIsAnswered
    ShutdownReturns
    BufferedIsWritten
