SPECIFICATION FairSpec
CONSTANTS
    c1 = c1
    c2 = c2
    c3 = c3
    m1 = m1
    NoRoom = NoRoom
    Conns <- TwoConns
    Messages <- OneMessage
    RoomIds <- OneRoom
    IPs <- TwoIPs
    RoomOf <- SameRoom
    IpOf <- SplitIPs
    Target <- ToRoom
    Configs <- OnePerRoom
    SendBufferSize = 1
    BroadcastBufferSize = 1
    MaxReplies <- ReplyTo1
CHECK_DEADLOCK FALSE
PROPERTIES
    HandshakeEnds
    DepartureCompletes
    SignalledRoomEnds
