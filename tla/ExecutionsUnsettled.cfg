SPECIFICATION Spec
CONSTANTS
    w1 = w1
    w2 = w2
    o1 = o1
    o2 = o2
    worn = worn
    blank = blank
    WorkOrders = {w1}
    Ops = {o1, o2}
    Notes = {worn, blank}
    BlankNotes = {blank}
    MaxCalls <- OnceEach
    MaxCrashes = 0
    MaxFaults = 1
SYMMETRY SlotSymmetry
INVARIANTS
    CompletedIsSettled
CHECK_DEADLOCK FALSE
