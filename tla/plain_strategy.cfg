\* round_robin and random: three calls over three backends, the first of which flaps; eight tickets
CONSTANTS
    b1 = b1
    b2 = b2
    b3 = b3
    Backends = {b1, b2, b3}
    Requests = {r1, r2, r3}
    Lists <- TrioLists
    InitialList <- Trio
    Half = 4
    FirstTickets <- SomeTickets
    Flaky = {b1}
SPECIFICATION Spec
INVARIANTS TypeOK TurnsAreTaken PanicsOnlyLate
PROPERTY ImplementsSelection
