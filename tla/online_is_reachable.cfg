SPECIFICATION Spec
CONSTANTS
    u1 = u1
    u2 = u2
    u3 = u3
    s1 = s1
    s2 = s2
    s3 = s3
    s4 = s4
    s5 = s5
    NoSocket = NoSocket
    Users = {u1}
    Sockets = {s1, s2}
    Owner <- OwnerTwo
    MaxPlayers = 2
    Spectators = {}
    Returners = {}
INVARIANTS
    OnlineIsReachable
CHECK_DEADLOCK FALSE
