SPECIFICATION Spec
CONSTANTS
    u1 = u1
    u2 = u2
    u3 = u3
    Users = {u1, u2, u3}
    InitOrder <- Order3
    MaxPlayers = 3
    SmallBlind = 1
    StartingStack = 4
    HouseRules = {"straddle", "invalid_hand_710"}
    Ranks = {1, 2}
    SitOutAfter = 2
INVARIANTS
    TypeOK
    ChipConservation
    EvenStreets
    TurnHolderOwesOrSatOut
PROPERTIES
    TableStakes
    BystandersFrozen
    ButtonMoves
CHECK_DEADLOCK FALSE
