SPECIFICATION Spec
CONSTANTS
    p1 = p1
    p2 = p2
    p3 = p3
    p4 = p4
    Players = {p1, p2, p3, p4}
    Strengths = {1, 2}
    MaxPaid = 3
INVARIANTS
    PotsPartitionChips
    PrizesAreExact
CHECK_DEADLOCK FALSE
