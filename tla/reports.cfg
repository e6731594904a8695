\* two requests that may fail and take a backend down or hit the cache, one switch
\* of strategy, one report
CONSTANTS
    None = None
    k1 = k1
    Backends = {b1, b2}
    Requests = {r1, r2}
    Keys = {k1}
    KeyOf <- OneKey
    Strategies = {"round_robin", "kv_aware"}
    MaxSwitches = 1
    Flaky = {}
SPECIFICATION ReportsSpec
INVARIANTS ReportsAddUp ReadyIfOneStaysUp
SYMMETRY SameRequests
\* the report is made and every request has been answered
CHECK_DEADLOCK FALSE
