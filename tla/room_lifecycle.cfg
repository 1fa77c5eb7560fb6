SPECIFICATION Spec
CONSTANTS
    u1 = u1
    u2 = u2
    k1 = k1
    k2 = k2
    k3 = k3
    k4 = k4
    k5 = k5
    NoUser = NoUser
    Rooms <- TheRooms
    Users <- TheUsers
    Calls <- TheCalls
SYMMETRY Symmetry
CHECK_DEADLOCK FALSE
INVARIANTS
    OneWinner
    NoSendAfterEnd
    LifecycleInv
PROPERTY
    ImplementsStateMachine
