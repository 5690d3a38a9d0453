SPECIFICATION FairSpec
CONSTANTS
    u1 = u1
    u2 = u2
    u3 = u3
    s1 = s1
    s2 = s2
    s3 = s3
    s4 = s4
    s5 = s5
    NoSocket = NoSocket
    Users = {u1, u2, u3}
    Sockets = {s1, s2, s3, s4, s5}
    Owner <- OwnerTwoTwoOne
    MaxPlayers = 2
    Spectators = {u2}
    Returners = {u2}
INVARIANTS
    TypeOK
    RegisteredIsLive
    NoGhost
    TimerOnlyWhenOffline
PROPERTIES
    GoneIsSatOut
    LeaseSpec
CHECK_DEADLOCK FALSE
