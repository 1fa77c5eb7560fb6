SPECIFICATION Spec
CONSTANTS
    d1 = d1
    d2 = d2
    i1 = i1
    i2 = i2
    None = None
    Danmakus <- OneDanmaku
    Instances <- TwoInstances
    MaxLog = 2
    MaxFaults = 2
CHECK_DEADLOCK FALSE
INVARIANTS
    MarkedIsSettled
    DecisionStands
    FlaggedNeedsReview
