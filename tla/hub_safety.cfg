SPECIFICATION Spec
CONSTANTS
    c1 = c1
    c2 = c2
    c3 = c3
    m1 = m1
    NoRoom = NoRoom
    Conns <- ThreeConns
    Messages <- OneMessage
    RoomIds <- OneRoom
    IPs <- TwoIPs
    RoomOf <- SameRoom
    IpOf <- SplitIPs
    Target <- ToRoom
    Configs <- OnePerIP
    SendBufferSize = 1
    BroadcastBufferSize = 1
    MaxReplies <- ReplyTo3
SYMMETRY Symmetry
CHECK_DEADLOCK FALSE
INVARIANTS
    CountIsClients
    QuotaExact
    MappedRoomAnswers
    DoneRoomHasNoOpenClient
PROPERTY
    NonEmptyRoomKept
