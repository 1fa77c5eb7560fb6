SPECIFICATION Spec
CONSTANTS
    c1 = c1
    c2 = c2
    c3 = c3
    m1 = m1
    NoRoom = NoRoom
    Conns <- ThreeConns
    Messages <- NoMessages
    RoomIds <- OneRoom
    IPs <- TwoIPs
    RoomOf <- SameRoom
    IpOf <- SplitIPs
    Target <- ToRoom
    Configs <- Unlimited
    SendBufferSize = 1
    BroadcastBufferSize = 1
    MaxReplies <- NoReplies
CHECK_DEADLOCK FALSE
INVARIANT
    ClientsAreReachable
