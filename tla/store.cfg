\* Two players and two hands, one call of the adapter that raises, one crash.
SPECIFICATION Spec
CONSTANTS
    Users = {ann, bob}
    BuyIn = 2
    MaxChips = 5
    MaxHands = 2
    MaxCrashes = 1
    MaxFailures = 1
INVARIANTS
    TypeOK
    RowsMatchSeats
    NoGhostRow
    HandEndIsDurable
    NextHandLookedFor
    StreetPersisted
CHECK_DEADLOCK FALSE
