SPECIFICATION Spec
CONSTANTS
    p1 = p1
    p2 = p2
    w1 = w1
    w2 = w2
    o1 = o1
    o2 = o2
    Parts = {p1, p2}
    WorkOrders = {w1, w2}
    Ops = {o1, o2}
    Demand <- PlainAndInvalid
    MaxQuantity = 1
    Opening <- ScarceStock
    Stocked = {p1}
    RestockQuantities = {1}
    Prices = {2, 3}
    MaxCents = 2
    MaxCalls <- Catalog
    MaxCrashes = 0
    MaxFaults = 1
SYMMETRY SlotSymmetry
INVARIANTS
    AccountInv
    EditsSurvive
CHECK_DEADLOCK FALSE
