SPECIFICATION FairSpec
CONSTANTS
    reserve = reserve
    release = release
    outdated = outdated
    broken = broken
    o1 = o1
    o2 = o2
    Commands = {reserve, release, outdated, broken}
    KeyOf <- RoutingKeys
    Malformed = {broken}
    Subscribed <- Subscriptions
    Replying = {"parts.reserve"}
    BoundBefore = {"parts.recount"}
    Ops = {o1, o2}
    MaxFaults = 1
    MaxDrops = 1
    MaxCrashes = 1
INVARIANTS
    TypeOK
    GoneMeansDone
    TagsAreHandled
PROPERTIES
    EveryCommandHandled
CHECK_DEADLOCK FALSE
