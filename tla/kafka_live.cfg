SPECIFICATION FairSpec
CONSTANTS
    d1 = d1
    d2 = d2
    i1 = i1
    i2 = i2
    None = None
    Danmakus <- TwoDanmakus
    Instances <- OneInstance
    MaxLog = 2
    MaxFaults = 1
CHECK_DEADLOCK FALSE
PROPERTY
    AckedIsStored
