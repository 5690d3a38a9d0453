SPECIFICATION Spec
CONSTANTS
    u1 = u1
    u2 = u2
    u3 = u3
    Users = {u1, u2, u3}
    MaxPlayers = 3
    SmallBlind = 1
    StartingStack = 4
    HouseRules = {}
    Ranks = {1}
    SitOutAfter = 1
    Requests = {"join", "leave", "disconnect", "sit_in", "rebuy", "all_in"}
    Rebuys = {2}
    ChipBound = 12
    TaskBound = 1
    DropBound = 1
SYMMETRY AnyOrder
VIEW AnyCount
INVARIANTS
    TypeOK
    ChipLedger
    ContributionsCoverBets
    TimerIsTurn
    NextHandScheduled
PROPERTIES
    HandIsClosed
CHECK_DEADLOCK FALSE
