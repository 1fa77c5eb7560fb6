SPECIFICATION FairSpec
CONSTANTS
    Instances <- TwoInstances
    Senders <- FirstSends
    PublishCap = 1
    ChanCap = 1
    MaxRetries = 1
    MaxSent = 2
    MaxFaults = 2
PROPERTY
    ChannelClosesOnCancel
CHECK_DEADLOCK FALSE
