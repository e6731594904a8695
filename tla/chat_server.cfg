\* two requests with one cache key, two backends, a strategy that is replaced twice
CONSTANTS
    None = None
    k1 = k1
    Backends = {b1, b2}
    Requests = {r1, r2}
    Keys = {k1}
    KeyOf <- OneKey
    Strategies = {"round_robin", "least_pending", "kv_aware"}
    MaxSwitches = 2
    Flaky = {b1}
SPECIFICATION FairSpec
INVARIANTS TypeOK InstanceLedger BooksBalance HitIsEarned
PROPERTY EveryRequestAnswered
\* every request has been answered
CHECK_DEADLOCK FALSE
