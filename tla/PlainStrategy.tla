--------------------------- MODULE PlainStrategy ---------------------------
(***************************************************************************)
(* The strategies that keep no counters, one atomic access at a time.      *)
(* Both copy the backend list under the read lock and then read one health *)
(* flag after the other.  round_robin takes a ticket, starts at the        *)
(* ticket's remainder and returns the first backend it finds up.  random   *)
(* collects all it finds up and draws one of them.                         *)
(*                                                                         *)
(* A ticket may be no int (see Ticket): then the index is negative.        *)
(***************************************************************************)
EXTENDS Ticket, Sequences, FiniteSets

CONSTANTS
    Backends,       \* the *Backend objects
    Requests,       \* the calls of Select
    Lists,          \* the lists SetBackends may be called with
    InitialList,    \* the list given to NewRoundRobin / NewRandom
    Flaky           \* bound: the backends whose health flag is ever written

ASSUME ListsAssumption == Lists \subseteq Seq(Backends) /\ InitialList \in Lists
ASSUME FlakyAssumption == Flaky \subseteq Backends

Listed(l) == {l[i] : i \in 1..Len(l)}

VARIABLES
    kind,         \* the strategy: round_robin or random
    healthy,      \* Backend.healthy
    backends,     \* r.backends
    next,         \* r.next, the ticket dispenser
    pc,           \* where each call is
    list,         \* local: the copy of the list
    start,        \* local: where the scan of round_robin starts
    i,            \* local: how many backends have been looked at
    found,        \* local: the backends random has found up
    ticket,       \* history: the ticket of the call
    pick,         \* the backend of the decision: none or one
    wasUp,        \* history: backends up at some instant of the call
    wasDown,      \* history: backends down at some instant of the call
    steady        \* history: no flag went down, no new list so far

locals == <<list, start, i, found>>
seen == <<wasUp, wasDown>>
vars == <<kind, healthy, backends, next, pc, locals, ticket, pick, seen, steady>>

Working == {"entered", "scan", "panicked"}
Stages  == Working \cup {"idle", "routed", "refused"}

TypeOK ==
    /\ kind \in {"round_robin", "random"}
    /\ healthy \in [Backends -> BOOLEAN]
    /\ backends \in Seq(Backends)
    /\ next \in Tickets /\ ticket \in [Requests -> Tickets]
    /\ pc \in [Requests -> Stages]
    /\ list \in [Requests -> Seq(Backends)]
    /\ start \in [Requests -> Int]
    /\ i \in [Requests -> Nat]
    /\ found \in [Requests -> SUBSET Backends]
    /\ pick \in [Requests -> SUBSET Backends]
    /\ wasUp \in [Requests -> SUBSET Backends]
    /\ wasDown \in [Requests -> SUBSET Backends]
    /\ steady \in BOOLEAN
    /\ \A r \in Requests :
        /\ pc[r] \in {"idle", "entered"} => i[r] = 0
        /\ pc[r] = "scan" => list[r] # << >> /\ i[r] <= Len(list[r])

Init ==
    /\ kind \in {"round_robin", "random"}
    /\ healthy = [b \in Backends |-> TRUE]
    /\ backends = InitialList
    /\ next \in FirstTickets
    /\ pc = [r \in Requests |-> "idle"]
    /\ list = [r \in Requests |-> << >>]
    /\ start = [r \in Requests |-> 0]
    /\ i = [r \in Requests |-> 0]
    /\ found = [r \in Requests |-> {}]
    /\ ticket = [r \in Requests |-> 0]
    /\ pick = [r \in Requests |-> {}]
    /\ wasUp = [r \in Requests |-> {}]
    /\ wasDown = [r \in Requests |-> {}]
    /\ steady = TRUE

-----------------------------------------------------------------------------
(* The index of the backend to look at, from zero as in Go. *)
Index(r) == Rem(start[r] + i[r], Len(list[r]))
Current(r) == list[r][Index(r) + 1]

Seen(h, b) ==
    [r \in Requests |-> IF pc[r] \in Working THEN h[r] \cup {b} ELSE h[r]]

(* Backend.SetHealthy, called by the prober and by failed requests. *)
SetHealthy(b, value) ==
    /\ healthy' = [healthy EXCEPT ![b] = value]
    /\ wasUp'   = IF value THEN Seen(wasUp, b) ELSE wasUp
    /\ wasDown' = IF value THEN wasDown ELSE Seen(wasDown, b)
    /\ steady'  = (steady /\ value)
    /\ UNCHANGED <<kind, backends, next, pc, locals, ticket, pick>>

(* The list is replaced under the write lock. *)
SetBackends(l) ==
    /\ backends' = l
    /\ steady' = FALSE
    /\ UNCHANGED <<kind, healthy, next, pc, locals, ticket, pick, seen>>

(* Select copies the list under the read lock.  random starts to scan at   *)
(* once, whatever the list; round_robin looks at its length first.         *)
Enter(r) ==
    /\ pc[r] = "idle"
    /\ pc' = [pc EXCEPT ![r] = "entered"]
    /\ list' = [list EXCEPT ![r] = backends]
    /\ wasUp' = [wasUp EXCEPT ![r] = {b \in Backends : healthy[b]}]
    /\ wasDown' = [wasDown EXCEPT ![r] = {b \in Backends : ~healthy[b]}]
    /\ UNCHANGED <<kind, healthy, backends, next, start, i, found, ticket, pick,
                   steady>>

(* The call returns a decision for the backends of p: none is an error. *)
Return(r, p) ==
    /\ pc' = [pc EXCEPT ![r] = IF p = {} THEN "refused" ELSE "routed"]
    /\ pick' = [pick EXCEPT ![r] = p]
    /\ list' = [list EXCEPT ![r] = << >>]
    /\ start' = [start EXCEPT ![r] = 0]
    /\ i' = [i EXCEPT ![r] = 0]
    /\ found' = [found EXCEPT ![r] = {}]
    /\ wasUp' = [wasUp EXCEPT ![r] = {}]
    /\ wasDown' = [wasDown EXCEPT ![r] = {}]
    /\ UNCHANGED <<kind, healthy, backends, next, ticket, steady>>

(* An empty list is an error before a ticket is taken or a number drawn. *)
RefuseEmpty(r) ==
    /\ pc[r] = "entered" /\ list[r] = << >>
    /\ Return(r, {})

(* round_robin, r.next.Add(1) - 1: the ticket, and where it starts. *)
TakeTicket(r) ==
    /\ kind = "round_robin" /\ pc[r] = "entered" /\ list[r] # << >>
    /\ next' = TicketAfter(next)
    /\ ticket' = [ticket EXCEPT ![r] = next]
    /\ start' = [start EXCEPT ![r] = StartOf(next, Len(list[r]))]
    /\ pc' = [pc EXCEPT ![r] = "scan"]
    /\ UNCHANGED <<kind, healthy, backends, list, i, found, pick, seen, steady>>

(* random begins to look at the flags. *)
StartScan(r) ==
    /\ kind = "random" /\ pc[r] = "entered" /\ list[r] # << >>
    /\ pc' = [pc EXCEPT ![r] = "scan"]
    /\ UNCHANGED <<kind, healthy, backends, next, locals, ticket, pick, seen, steady>>

(* Mutant: the loop runs once too often. *)
ScanningOneMore(r) == pc[r] = "scan" /\ i[r] <= Len(list[r])

(* The loop goes on. *)
Scanning(r) == pc[r] = "scan" /\ i[r] < Len(list[r])

(* round_robin indexes the list with a negative number: the goroutine      *)
(* unwinds, and Select never returns.                                      *)
Panic(r) ==
    /\ Scanning(r) /\ Index(r) < 0
    /\ pc' = [pc EXCEPT ![r] = "panicked"]
    /\ UNCHANGED <<kind, healthy, backends, next, locals, ticket, pick, seen, steady>>

(* Mutant: the health flag is not consulted. *)
AcceptAny(r) ==
    /\ kind = "round_robin" /\ Scanning(r) /\ Index(r) >= 0
    /\ Return(r, {Current(r)})

(* round_robin returns the first backend whose flag is up. *)
Accept(r) ==
    /\ kind = "round_robin" /\ Scanning(r) /\ Index(r) >= 0
    /\ healthy[Current(r)]
    /\ Return(r, {Current(r)})

(* round_robin goes on past a backend that is down, random past each. *)
PassBy(r) ==
    LET up == healthy[Current(r)]
    IN  /\ Scanning(r) /\ Index(r) >= 0
        /\ kind = "random" \/ ~up
        /\ i' = [i EXCEPT ![r] = @ + 1]
        /\ found' = [found EXCEPT ![r] = IF up THEN @ \cup {Current(r)} ELSE @]
        /\ UNCHANGED <<kind, healthy, backends, next, pc, list, start, ticket,
                       pick, seen, steady>>

(* The end of the scan: random draws one of what it found, rng.Intn; with  *)
(* nothing found it is ErrNoHealthyBackend.                                *)
Finish(r) ==
    /\ pc[r] = "scan" /\ i[r] = Len(list[r])
    /\ \/ \E b \in found[r] : Return(r, {b})
       \/ found[r] = {} /\ Return(r, {})

Step(r) == \/ Enter(r)
           \/ RefuseEmpty(r)
           \/ TakeTicket(r)
           \/ StartScan(r)
           \/ Panic(r)
           \/ Accept(r)
           \/ PassBy(r)
           \/ Finish(r)

Next ==
    \/ \E b \in Flaky, value \in BOOLEAN : SetHealthy(b, value)
    \/ \E l \in Lists : SetBackends(l)
    \/ \E r \in Requests : Step(r)

Spec == Init /\ [][Next]_vars

-----------------------------------------------------------------------------
(* No backend is twice in the list l. *)
Distinct(l) == \A m, n \in 1..Len(l) : m # n => l[m] # l[n]

(* How many tickets the second call drew after the first. *)
Distance(r, q) == (ticket[q] - ticket[r]) % (2 * Half)

(***************************************************************************)
(* Turns are taken: as long as no flag has gone down and the list of n     *)
(* different backends has not been replaced, calls whose tickets fit an    *)
(* int and are fewer than n apart are routed to different backends, in     *)
(* whatever order they overlap and return (roundrobin.go:37-42).           *)
(***************************************************************************)
TurnsAreTaken ==
    kind = "round_robin" /\ steady /\ Distinct(backends) =>
        \A r, q \in {c \in Requests : pc[c] = "routed" /\ ticket[c] < Half} :
            r # q /\ Distance(r, q) < Len(backends) => pick[r] # pick[q]

(***************************************************************************)
(* The index is in range until half of the tickets are used up: a call     *)
(* panics only if its ticket no longer fits an int (roundrobin.go:37-39).  *)
(***************************************************************************)
PanicsOnlyLate ==
    \A r \in Requests : pc[r] = "panicked" => ticket[r] >= Half

(***************************************************************************)
(* What makes the refinement and the index range inductive.  A call has    *)
(* seen the present flags; outside a scan its locals are as declared; in a *)
(* scan it starts where its ticket says, has only got past the first       *)
(* backend from an index in range, and whatever it looked at was down or   *)
(* is among what it found.  It has picked nothing before it returns.       *)
(***************************************************************************)
FlagsSeen ==
    \A r \in Requests : pc[r] \in Working =>
        \A b \in Backends : IF healthy[b] THEN b \in wasUp[r] ELSE b \in wasDown[r]

LookedAt(r) == {list[r][Rem(start[r] + j, Len(list[r])) + 1] : j \in 0..(i[r] - 1)}

Knows(r) ==
    /\ pc[r] \in {"idle", "entered"} => start[r] = 0 /\ found[r] = {}
    /\ pc[r] = "scan" =>
        /\ start[r] = IF kind = "random" THEN 0 ELSE StartOf(ticket[r], Len(list[r]))
        /\ i[r] > 0 => start[r] >= 0
        /\ kind = "round_robin" => found[r] = {}
        /\ found[r] \subseteq Listed(list[r]) \cap wasUp[r]
        /\ LookedAt(r) \subseteq wasDown[r] \cup found[r]

ScanKnows == \A r \in Requests : Knows(r)

(***************************************************************************)
(* What makes the turns inductive.  While nothing has happened, a call has *)
(* all flags up on the first list, never gets past its first backend and   *)
(* returns the one its ticket says.  And no two calls hold one ticket: the *)
(* dispenser is ahead of each by no more than the number of calls that     *)
(* have got past it, and there are not more calls than tickets.            *)
(***************************************************************************)
SteadyScans ==
    steady =>
        /\ \A b \in Backends : healthy[b]
        /\ \A r \in Requests :
            /\ pc[r] \in Working => list[r] = backends
            /\ kind = "round_robin" =>
                /\ pc[r] = "scan" => i[r] = 0
                /\ pc[r] = "routed" =>
                    /\ backends # << >>
                    /\ ticket[r] < Half =>
                        pick[r] = {backends[(ticket[r] % Len(backends)) + 1]}

CallsFit == IsFiniteSet(Requests) /\ Cardinality(Requests) <= 2 * Half

GotPast == {r \in Requests : pc[r] \notin {"idle", "entered"}}
Holding == {r \in Requests : pc[r] \in {"scan", "panicked", "routed"}}

TicketsApart ==
    kind = "round_robin" =>
        /\ \A r \in Holding : \E n \in 1..Cardinality(GotPast) :
                (ticket[r] + n) % (2 * Half) = next
        /\ \A r, q \in Holding : r # q => ticket[r] # ticket[q]

NothingPicked == \A r \in Requests : pc[r] \in Working \cup {"idle"} => pick[r] = {}

(* The refinement: a call that panicked is one that does not return. *)
Abstraction == INSTANCE Selection WITH
    Lists   <- {Listed(l) : l \in Lists},
    listed  <- Listed(backends),
    stage   <- [r \in Requests |-> IF pc[r] \in Working THEN "selecting" ELSE pc[r]],
    offered <- [r \in Requests |-> Listed(list[r])]

(***************************************************************************)
(* Both keep the promise of Selection: a routed backend was listed and up  *)
(* at an instant of the call, a refusal means that each listed backend was *)
(* down at an instant of the call.                                         *)
(***************************************************************************)
ImplementsSelection == Abstraction!Spec
=============================================================================
