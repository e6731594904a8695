\* cost_aware: two calls of different cost over three backends, shrunken and empty lists
CONSTANTS
    b1 = b1
    b2 = b2
    b3 = b3
    r1 = r1
    r2 = r2
    r3 = r3
    None = None
    Backends = {b1, b2, b3}
    Requests = {r1, r2}
    Lists <- TrioLists
    InitialList <- Trio
    Half = 4
    FirstTickets <- SomeTickets
    MaxBorn = 1
    Flaky = {b1, b2}
    Weighted = TRUE
    EstimatedCost <- Costs2
SPECIFICATION FairSpec
PROPERTIES DriftBound PanicsOnlyLate SelectReturns
