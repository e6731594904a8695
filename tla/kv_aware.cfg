\* kv_aware: two calls over two backends, one of which flaps, and a store that may say anything
CONSTANTS
    b1 = b1
    b2 = b2
    r1 = r1
    r2 = r2
    k = k
    None = None
    Backends = {b1, b2}
    Requests = {r1, r2}
    Keys = {k}
    CacheKey <- KeyedAndNot
    Lists <- PairLists
    InitialList <- Pair
    Half = 3
    FirstTickets <- SomeTickets
    MaxBorn = 1
    Flaky = {b1}
    Weighted = FALSE
    EstimatedCost <- NoCosts
SPECIFICATION KVFairSpec
INVARIANTS KVTypeOK LedgerBalance
PROPERTIES WarmBackendServes KVSelectReturns ImplementsSelection
