SPECIFICATION Spec
CONSTANTS
    d1 = d1
    d2 = d2
    d3 = d3
    Docs = {d1, d2, d3}
    MaxKey = 3
    Searched = {2, 3}
    PageSizes = {1, 2}
    MaxChanges = 2
INVARIANTS
    IInv
    WalkListsEach
    QueueWalkIsExact
    PageFitsTotal
CHECK_DEADLOCK FALSE
