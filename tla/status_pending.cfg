\* one request answered, and /api/status still reports it as pending
CONSTANTS
    None = None
    k1 = k1
    Backends = {b1, b2}
    Requests = {r1, r2}
    Keys = {k1}
    KeyOf <- OneKey
    Strategies = {"round_robin", "least_pending", "kv_aware"}
    MaxSwitches = 1
    Flaky = {b1}
SPECIFICATION Spec
INVARIANT StatusPendingIsPending
CHECK_DEADLOCK FALSE
