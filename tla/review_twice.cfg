SPECIFICATION Spec
CONSTANTS
    a1 = a1
    a2 = a2
    u = u
    nobody = nobody
    c1 = c1
    c2 = c2
    c3 = c3
    d1 = d1
    r1 = r1
    Users = {a1, a2, u}
    NoUser = nobody
    Calls = {c1, c2}
    Danmakus = {d1}
    Rooms = {r1}
    Inputs <- SameReviews
    InitialRole <- MCInitialRole
    Author <- MCAuthor
    RoomOf <- MCRoomOf
    FailClosed = FALSE
    UniqueIndex = TRUE
INVARIANT
    SameStatusNotifiesOnce
CHECK_DEADLOCK FALSE
