SPECIFICATION FairSpec
CONSTANTS
    Instances <- TwoInstances
    Senders <- FirstSends
    PublishCap = 1
    ChanCap = 1
    MaxRetries = 1
    MaxSent = 2
    MaxFaults = 1
PROPERTIES
    ImplementsOrderedChannel
    SubscriptionRecovers
    ShutdownStopsBridge
    ReceivedIsPassedOn
CHECK_DEADLOCK FALSE
