SPECIFICATION Spec
CONSTANTS
    Instances <- TwoInstances
    Senders <- FirstSends
    PublishCap = 1
    ChanCap = 1
    MaxRetries = 1
    MaxSent = 2
    MaxFaults = 2
INVARIANT
    AtMostOnce
CHECK_DEADLOCK FALSE
