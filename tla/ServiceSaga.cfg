SPECIFICATION FairSpec
CONSTANTS
    p1 = p1
    w1 = w1
    o1 = o1
    o2 = o2
    worn = worn
    Parts = {p1}
    WorkOrders = {w1}
    Ops = {o1, o2}
    Demand <- Orders
    MaxQuantity = 1
    Opening <- Stock
    Stocked = {}
    RestockQuantities = {1}
    Prices = {1}
    MaxCents = 2
    Notes = {worn}
    BlankNotes = {}
    MaxInventoryCalls <- InventoryBudget
    MaxExecutionCalls <- ExecutionsBudget
    MaxCrashes = 1
    MaxFaults = 1
    MaxFailures = 1
INVARIANTS
    ServiceInv
    CompletionConsumed
    OnlyCompletionConsumes
    CompensatedHoldsNothing
PROPERTIES
    CompletionSettles
    EveryReserveAnswered
    FoundReservationSettled
    StartIsQueued
    FailureIsTold
CHECK_DEADLOCK FALSE
