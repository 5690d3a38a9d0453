\* Two hands of two streets; every way to lose and to find the connection.
SPECIFICATION FairSpec
CONSTANTS
    MaxAttempts = 3
    MaxHands = 2
    MaxStreets = 2
    QueueBound = 3
INVARIANTS
    TypeOK
    OneWayBack
    BackInSeat
    ViewCatchesUp
PROPERTY Settles
CHECK_DEADLOCK FALSE
