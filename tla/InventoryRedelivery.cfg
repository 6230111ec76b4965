SPECIFICATION Spec
CONSTANTS
    p1 = p1
    p2 = p2
    w1 = w1
    w2 = w2
    o1 = o1
    o2 = o2
    Parts = {p1, p2}
    WorkOrders = {w1, w2}
    Ops = {o1, o2}
    Demand <- PlainAndEmpty
    MaxQuantity = 1
    Opening <- ScarceStock
    Stocked = {p1, p2}
    RestockQuantities = {1}
    Prices = {1}
    MaxCents = 2
    MaxCalls <- RedeliveredOne
    MaxCrashes = 1
    MaxFaults = 1
SYMMETRY SlotSymmetry
INVARIANTS
    HeldMatchesReservation
    ReservedReplyBacked
    OneReplyPerCommand
CHECK_DEADLOCK FALSE
