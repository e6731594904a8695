\* two backends that change twice between them, one request, two callers of Shutdown
CONSTANTS
    b1 = b1
    b2 = b2
    None = None
    Order <- TwoBackends
    Requests = {r1}
    Closers = {c1, c2}
    MaxChanges = 2
SPECIFICATION FairSpec
INVARIANTS TypeOK TwoVerdictsSettle
PROPERTIES NoRevivalAfterJoin FlagsConverge ShutdownReturns
\* the system stops when everyone has shut down
CHECK_DEADLOCK FALSE
