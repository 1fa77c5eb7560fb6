SPECIFICATION Spec
CONSTANTS
    Danmakus <- ThreeDanmakus
    SendCap = 2
    PageSize = 1
    MaxReplay = 3
    MaxTime = 2
    MaxDrops = 2
INVARIANTS
    CompensationIsComplete
    PagesInOrder
CHECK_DEADLOCK FALSE
