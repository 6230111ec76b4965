SPECIFICATION Spec
CONSTANTS
    p1 = p1
    p2 = p2
    w1 = w1
    w2 = w2
    o1 = o1
    o2 = o2
    Parts = {p1, p2}
    WorkOrders = {w1, w2}
    Ops = {o1}
    Demand <- TwoOrders
    MaxQuantity = 1
    Opening <- AmpleStock
    Stocked = {p1, p2}
    RestockQuantities = {1}
    Prices = {1}
    MaxCents = 2
    MaxCalls <- Redelivered
    MaxCrashes = 1
    MaxFaults = 0
INVARIANTS
    ReleaseGivesBackItsOwn
CHECK_DEADLOCK FALSE
