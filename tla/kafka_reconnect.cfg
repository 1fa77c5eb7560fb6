SPECIFICATION Spec
CONSTANTS
    d1 = d1
    d2 = d2
    i1 = i1
    i2 = i2
    None = None
    Danmakus <- OneDanmaku
    Instances <- OneInstance
    MaxLog = 1
    MaxFaults = 1
CHECK_DEADLOCK FALSE
INVARIANT
    ReconnectsByItself
