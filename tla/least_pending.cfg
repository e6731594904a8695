\* least_pending: three calls over two backends, one of which may be dropped and listed again
CONSTANTS
    b1 = b1
    b2 = b2
    b3 = b3
    r1 = r1
    r2 = r2
    r3 = r3
    None = None
    Backends = {b1, b2}
    Requests = {r1, r2, r3}
    Lists <- PairLists
    InitialList <- Pair
    Half = 4
    FirstTickets <- NewRouter
    MaxBorn = 2
    Flaky = {b1}
    Weighted = FALSE
    EstimatedCost <- Costs3
SPECIFICATION Spec
INVARIANTS TypeOK LedgerBalance BurstSpreads
PROPERTIES DriftBound ImplementsSelection
