SPECIFICATION FairSpec
CONSTANTS
    u1 = u1
    u2 = u2
    u3 = u3
    Users = {u1, u2}
    MaxPlayers = 2
    SmallBlind = 1
    StartingStack = 4
    HouseRules = {}
    Ranks = {1}
    SitOutAfter = 2
    Requests = {"join", "disconnect", "sit_out", "fold", "check", "call", "raise", "all_in"}
    Rebuys = {}
    ChipBound = 8
    TaskBound = 2
    DropBound = 2
PROPERTIES
    HandEnds
    NextHandStarts
CHECK_DEADLOCK FALSE
