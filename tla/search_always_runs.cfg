\* Two players and one call of the adapter that raises.
SPECIFICATION Spec
CONSTANTS
    Users = {ann, bob}
    BuyIn = 2
    MaxChips = 4
    MaxHands = 1
    MaxCrashes = 0
    MaxFailures = 1
INVARIANT SearchAlwaysRuns
CHECK_DEADLOCK FALSE
