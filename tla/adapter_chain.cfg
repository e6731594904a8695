\* two requests through one adapter of either kind
CONSTANTS
    Requests = {r1, r2}
    Clients = {"llm", "triton"}
SPECIFICATION Spec
INVARIANTS TypeOK ChargeCoversWork SuccessIsEarned
PROPERTIES UserHears WorkStops
\* every request has been answered and the router has exited
CHECK_DEADLOCK FALSE
