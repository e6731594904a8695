---------------------------- MODULE LoadStrategy ----------------------------
(***************************************************************************)
(* The strategies least_pending and cost_aware, one atomic access at a     *)
(* time.  They are one algorithm: a call copies the backend list and the   *)
(* reference to the map of counters under the read lock, takes a ticket to *)
(* choose where its scan starts (see Ticket: a late ticket panics), reads  *)
(* each backend's health flag and then its counter, and adds its charge to *)
(* the smallest counter it read.  The charge is 1 in least_pending and the *)
(* clamped estimated cost in cost_aware.  Nothing makes the scan and the   *)
(* addition one step.                                                      *)
(*                                                                         *)
(* A counter is an *atomic.Int64 object: SetBackends creates one for each  *)
(* backend it has not in its map, so a backend that is dropped and listed  *)
(* again has a new counter while old decisions still release the old one.  *)
(* A counter is named <<b, g>>, the g-th one created for backend b.        *)
(* SetBackends belongs to router.Strategy; only the constructors call it   *)
(* today, so that what is shown here holds also for a list that changes.   *)
(***************************************************************************)
EXTENDS Ticket, Sequences, FiniteSets

CONSTANTS
    Backends,        \* the *Backend objects
    Requests,        \* the calls of Select
    Lists,           \* the lists SetBackends may be called with
    InitialList,     \* the list given to NewLeastPending / NewCostAware
    MaxBorn,         \* bound: counters ever created for one backend
    Flaky,           \* bound: the backends whose health flag is ever written
    Weighted,        \* TRUE for cost_aware, FALSE for least_pending
    EstimatedCost,   \* SelectionInput.EstimatedCost of each call
    None             \* no backend, no counter

Listed(l) == {l[i] : i \in 1..Len(l)}

Counters == Backends \X (1..MaxBorn)

ASSUME NoneAssumption == None \notin Backends \cup Counters
ASSUME ListsAssumption == Lists \subseteq Seq(Backends) /\ InitialList \in Lists
ASSUME LengthAssumption == \A l \in Lists : Len(l) < Half  \* a length is an int
ASSUME FlakyAssumption == Flaky \subseteq Backends
ASSUME MaxBornAssumption == MaxBorn \in Nat \ {0}
ASSUME CostAssumption == EstimatedCost \in [Requests -> Int] /\ Weighted \in BOOLEAN

(* What Select adds to the counter it chose, and Release takes away. *)
Charge(r) == IF ~Weighted \/ EstimatedCost[r] < 1 THEN 1 ELSE EstimatedCost[r]

VARIABLES
    healthy,      \* Backend.healthy
    backends,     \* s.backends
    loads,        \* s.loads: listed backend -> generation of its counter
    born,         \* counters created so far for each backend
    count,        \* the value of each counter
    next,         \* s.next, the ticket dispenser
    pc,           \* where each call is
    list,         \* local: the copy of the list
    snap,         \* local: the copy of the map reference
    todo,         \* local: the backends still to scan, in scan order
    chosen,       \* local: chosen
    minPending,   \* local: minPending
    held,         \* the counter captured by the release closure of a decision
    wasUp,        \* history: backends up at some instant of the call
    wasDown,      \* history: backends down at some instant of the call
    drift,        \* history: units the other calls moved during the call
    calm          \* history: tickets 0, 1, ... so far, no flag went down, no
                  \* new list, no release

strategy == <<backends, loads, born, next>>
locals == <<list, snap, todo, chosen, minPending>>
seen == <<wasUp, wasDown>>
vars == <<healthy, strategy, count, pc, locals, held, seen, drift, calm>>

Working == {"ticket", "check", "weigh", "panicked"}
Stages  == Working \cup {"idle", "routed", "released", "refused"}

NoMap == [b \in {} |-> 1]

Maps == UNION {[S -> 1..MaxBorn] : S \in SUBSET Backends}

TypeOK ==
    /\ healthy \in [Backends -> BOOLEAN]
    /\ backends \in Seq(Backends)
    /\ loads \in Maps
    /\ born \in [Backends -> 0..MaxBorn]
    /\ count \in [Counters -> Int]
    /\ next \in Tickets
    /\ pc \in [Requests -> Stages]
    /\ list \in [Requests -> Seq(Backends)]
    /\ snap \in [Requests -> Maps]
    /\ todo \in [Requests -> Seq(Backends)]
    /\ chosen \in [Requests -> Backends \cup {None}]
    /\ minPending \in [Requests -> Int]
    /\ held \in [Requests -> Counters \cup {None}]
    /\ wasUp \in [Requests -> SUBSET Backends]
    /\ wasDown \in [Requests -> SUBSET Backends]
    /\ drift \in [Requests -> Nat]
    /\ calm \in BOOLEAN

-----------------------------------------------------------------------------
(* Mutant: every SetBackends starts from fresh counters. *)
UpdatedAfresh(l) == [b \in Listed(l) |-> born[b] + 1]

(* The map SetBackends builds for the list l out of the present one. *)
Updated(l) ==
    [b \in Listed(l) |-> IF b \in DOMAIN loads THEN loads[b] ELSE born[b] + 1]

(* Mutants: the ticket is ignored; the scan stops one short. *)
RotationFromFirst(l, s) == l
RotationShort(l, s) == [i \in 1..(Len(l) - 1) |-> l[((s + i - 1) % Len(l)) + 1]]

(* The scan order of a call: the list rotated to its start s. *)
Rotation(l, s) == [i \in 1..Len(l) |-> l[((s + i - 1) % Len(l)) + 1]]

Init ==
    /\ healthy = [b \in Backends |-> TRUE]
    /\ backends = InitialList
    /\ loads = [b \in Listed(InitialList) |-> 1]
    /\ born = [b \in Backends |-> IF b \in Listed(InitialList) THEN 1 ELSE 0]
    /\ count = [c \in Counters |-> 0]
    /\ next \in FirstTickets
    /\ pc = [r \in Requests |-> "idle"]
    /\ list = [r \in Requests |-> << >>]
    /\ snap = [r \in Requests |-> NoMap]
    /\ todo = [r \in Requests |-> << >>]
    /\ chosen = [r \in Requests |-> None]
    /\ minPending = [r \in Requests |-> 0]
    /\ held = [r \in Requests |-> None]
    /\ wasUp = [r \in Requests |-> {}]
    /\ wasDown = [r \in Requests |-> {}]
    /\ drift = [r \in Requests |-> 0]
    /\ calm = (next = 0)

-----------------------------------------------------------------------------
(* What one flag change adds to the histories of the calls under way. *)
Seen(h, b) ==
    [r \in Requests |-> IF pc[r] \in Working THEN h[r] \cup {b} ELSE h[r]]

(* What one addition or release adds to the drift of the other calls. *)
Moved(me) ==
    [r \in Requests |-> IF r # me /\ pc[r] \in Working
                        THEN drift[r] + Charge(me) ELSE drift[r]]

(* A call returns: its locals die, and with them what it has seen. *)
Return(r, stage) ==
    /\ pc' = [pc EXCEPT ![r] = stage]
    /\ list' = [list EXCEPT ![r] = << >>]
    /\ snap' = [snap EXCEPT ![r] = NoMap]
    /\ todo' = [todo EXCEPT ![r] = << >>]
    /\ chosen' = [chosen EXCEPT ![r] = None]
    /\ minPending' = [minPending EXCEPT ![r] = 0]
    /\ wasUp' = [wasUp EXCEPT ![r] = {}]
    /\ wasDown' = [wasDown EXCEPT ![r] = {}]

(* Backend.SetHealthy, called by the prober and by failed requests. *)
SetHealthy(b, value) ==
    /\ healthy' = [healthy EXCEPT ![b] = value]
    /\ wasUp'   = IF value THEN Seen(wasUp, b) ELSE wasUp
    /\ wasDown' = IF value THEN wasDown ELSE Seen(wasDown, b)
    /\ calm'    = (calm /\ value)
    /\ UNCHANGED <<strategy, count, pc, locals, held, drift>>

(* SetBackends runs under the write lock: one step.  A backend that is not *)
(* in the present map gets a new counter.                                  *)
SetBackends(l) ==
    LET unknown == Listed(l) \ DOMAIN loads
        fresh == {<<b, born[b] + 1>> : b \in unknown}
    IN  /\ \A b \in unknown : born[b] < MaxBorn
        /\ backends' = l
        /\ loads' = Updated(l)
        /\ born' = [b \in Backends |->
                      IF b \in unknown THEN born[b] + 1 ELSE born[b]]
        /\ count' = [c \in Counters |-> IF c \in fresh THEN 0 ELSE count[c]]
        /\ calm' = FALSE
        /\ UNCHANGED <<healthy, next, pc, locals, held, seen, drift>>

(* Select copies the list and the map reference under the read lock. *)
Enter(r) ==
    /\ pc[r] = "idle"
    /\ pc' = [pc EXCEPT ![r] = "ticket"]
    /\ list' = [list EXCEPT ![r] = backends]
    /\ snap' = [snap EXCEPT ![r] = loads]
    /\ wasUp' = [wasUp EXCEPT ![r] = {b \in Backends : healthy[b]}]
    /\ wasDown' = [wasDown EXCEPT ![r] = {b \in Backends : ~healthy[b]}]
    /\ UNCHANGED <<healthy, strategy, count, todo, chosen, minPending, held,
                   drift, calm>>

(* An empty list is an error before a ticket is taken. *)
RefuseEmpty(r) ==
    /\ pc[r] = "ticket"
    /\ list[r] = << >>
    /\ Return(r, "refused")
    /\ drift' = [drift EXCEPT ![r] = 0]
    /\ UNCHANGED <<healthy, strategy, count, held, calm>>

(* s.next.Add(1), for a list that is not empty. *)
Draw(r, stage) ==
    /\ pc[r] = "ticket"
    /\ list[r] # << >>
    /\ next' = TicketAfter(next)
    /\ pc' = [pc EXCEPT ![r] = stage]
    /\ calm' = (calm /\ next' # 0)
    /\ UNCHANGED <<healthy, backends, loads, born, count, list, snap, chosen,
                   minPending, held, seen, drift>>

Start(r) == StartOf(next, Len(list[r]))

(* The ticket gives the start of the scan. *)
TakeTicket(r) ==
    /\ Draw(r, "check") /\ Start(r) >= 0
    /\ todo' = [todo EXCEPT ![r] = Rotation(list[r], Start(r))]

(* The loop indexes the list with a negative number before it has read a   *)
(* flag: the goroutine unwinds with nothing charged, Select never returns. *)
Panic(r) ==
    /\ Draw(r, "panicked") /\ Start(r) < 0
    /\ UNCHANGED todo

(* Mutant: the health flag is not consulted. *)
EligibleAny(r, b) == b \in DOMAIN snap[r]

(* The scan passes over an unhealthy backend and one without a counter. *)
Eligible(r, b) == healthy[b] /\ b \in DOMAIN snap[r]

(* Mutant: the scan waits for an unhealthy backend instead of passing on. *)
CheckHealthWaits(r) ==
    /\ pc[r] = "check"
    /\ todo[r] # << >>
    /\ pc' = [pc EXCEPT ![r] = IF Eligible(r, Head(todo[r])) THEN "weigh" ELSE "check"]
    /\ UNCHANGED <<healthy, strategy, count, locals, held, seen, drift, calm>>

(* backend.Healthy() of the next backend of the scan. *)
CheckHealth(r) ==
    LET ok == Eligible(r, Head(todo[r]))
    IN  /\ pc[r] = "check"
        /\ todo[r] # << >>
        /\ pc' = [pc EXCEPT ![r] = IF ok THEN "weigh" ELSE "check"]
        /\ todo' = [todo EXCEPT ![r] = IF ok THEN @ ELSE Tail(@)]
        /\ UNCHANGED <<healthy, strategy, count, list, snap, chosen, minPending,
                       held, seen, drift, calm>>

(* Mutant: the comparison is the wrong way round. *)
BetterIfLarger(r, pending) == chosen[r] = None \/ pending > minPending[r]

(* The comparison that keeps the first of the smallest counters. *)
Better(r, pending) == chosen[r] = None \/ pending < minPending[r]

(* load.Load(), and what the scan keeps of it. *)
Weigh(r) ==
    LET b == Head(todo[r])
        pending == count[<<b, snap[r][b]>>]
        better == Better(r, pending)
    IN  /\ pc[r] = "weigh"
        /\ chosen' = [chosen EXCEPT ![r] = IF better THEN b ELSE @]
        /\ minPending' = [minPending EXCEPT ![r] = IF better THEN pending ELSE @]
        /\ todo' = [todo EXCEPT ![r] = Tail(@)]
        /\ pc' = [pc EXCEPT ![r] = "check"]
        /\ UNCHANGED <<healthy, strategy, count, list, snap, held, seen, drift,
                       calm>>

(* The counter of the backend a call has chosen: chosenLoad. *)
Target(r) == <<chosen[r], snap[r][chosen[r]]>>

(* chosenLoad.Add: the decision is made on what the scan read. *)
Acquire(r) ==
    /\ pc[r] = "check"
    /\ todo[r] = << >>
    /\ chosen[r] # None
    /\ count' = [count EXCEPT ![Target(r)] = @ + Charge(r)]
    /\ held' = [held EXCEPT ![r] = Target(r)]
    /\ Return(r, "routed")
    /\ drift' = [Moved(r) EXCEPT ![r] = 0]
    /\ UNCHANGED <<healthy, strategy, calm>>

(* Nothing chosen: ErrNoHealthyBackend. *)
Refuse(r) ==
    /\ pc[r] = "check"
    /\ todo[r] = << >>
    /\ chosen[r] = None
    /\ Return(r, "refused")
    /\ drift' = [drift EXCEPT ![r] = 0]
    /\ UNCHANGED <<healthy, strategy, count, held, calm>>

(* Mutant: the closure runs each time Release is called. *)
UnreleasedOrNot(r) == pc[r] \in {"routed", "released"}

(* Decision.once: only the first Release runs the closure. *)
Unreleased(r) == pc[r] = "routed"

(* Decision.Release: the closure takes the charge off the counter the call *)
(* captured, whatever counter the strategy has for the backend by now.     *)
Release(r) ==
    /\ Unreleased(r)
    /\ count' = [count EXCEPT ![held[r]] = @ - Charge(r)]
    /\ pc' = [pc EXCEPT ![r] = "released"]
    /\ drift' = Moved(r)
    /\ calm' = FALSE
    /\ UNCHANGED <<healthy, strategy, locals, held, seen>>

Step(r) == \/ Enter(r)
           \/ RefuseEmpty(r)
           \/ TakeTicket(r)
           \/ Panic(r)
           \/ CheckHealth(r)
           \/ Weigh(r)
           \/ Acquire(r)
           \/ Refuse(r)

Next ==
    \/ \E b \in Flaky, value \in BOOLEAN : SetHealthy(b, value)
    \/ \E l \in Lists : SetBackends(l)
    \/ \E r \in Requests : Step(r) \/ Release(r)

Spec == Init /\ [][Next]_vars

(* A goroutine inside Select is never blocked for good: the locks it takes *)
(* guard a few assignments each.                                           *)
FairSpec == Spec /\ \A r \in Requests : WF_vars(Step(r))

-----------------------------------------------------------------------------
(* The calls whose decision on counter c is not yet released, and the      *)
(* units of charge a set of calls amounts to.                              *)
Holders(c) == {r \in Requests : pc[r] = "routed" /\ held[r] = c}
Units(S) == UNION {{r} \X (1..Charge(r)) : r \in S}

(***************************************************************************)
(* The ledger: a counter is exactly what the decisions not yet released    *)
(* hold on it, whatever SetBackends did in between (leastpending.go:29-38  *)
(* and 78-84).  A second release, a release on the counter that now stands *)
(* for the backend, or a lost addition breaks it for ever after.           *)
(***************************************************************************)
LedgerBalance == \A c \in Counters : count[c] = Cardinality(Units(Holders(c)))

(***************************************************************************)
(* What makes the ledger inductive.  The locals of a call are coherent: a  *)
(* counter it is about to read, or has chosen, is in its map, and a routed *)
(* call holds a counter.  And no map, copied map or decision knows a       *)
(* counter that SetBackends has still to create, so a new counter starts   *)
(* at zero with nothing outstanding on it.                                 *)
(***************************************************************************)
CallsCoherent ==
    \A r \in Requests :
        /\ pc[r] = "weigh" => todo[r] # << >> /\ Head(todo[r]) \in DOMAIN snap[r]
        /\ pc[r] \notin {"check", "weigh"} => chosen[r] = None
        /\ chosen[r] # None => chosen[r] \in DOMAIN snap[r]
        /\ pc[r] = "routed" => held[r] # None

OnlyBornKnown ==
    /\ \A b \in DOMAIN loads : loads[b] <= born[b]
    /\ \A r \in Requests : \A b \in DOMAIN snap[r] : snap[r][b] <= born[b]
    /\ \A r \in Requests : held[r] # None => held[r][2] <= born[held[r][1]]

FiniteUnits == \A c \in Counters : IsFiniteSet(Units(Holders(c)))

LedgerInductive ==
    TypeOK /\ CallsCoherent /\ OnlyBornKnown /\ FiniteUnits /\ LedgerBalance

(* No backend is twice in the list l. *)
Distinct(l) == \A m, n \in 1..Len(l) : m # n => l[m] # l[n]

(***************************************************************************)
(* A burst spreads: from a new router on, while no flag has gone down, the *)
(* list of n different backends was not replaced and nothing was released, *)
(* the first n calls are routed to n different backends however their      *)
(* scans overlap.  It is the ticket that keeps apart calls which read the  *)
(* same zero counters (leastpending.go:51, 67).                            *)
(***************************************************************************)
BurstSpreads ==
    calm /\ Distinct(backends) /\ next <= Len(backends) =>
        \A r, q \in Requests :
            pc[r] = "routed" /\ pc[q] = "routed" /\ r # q => held[r][1] # held[q][1]

(***************************************************************************)
(* How wrong a stale scan can be: when a call is charged to a counter, the *)
(* counter exceeds that of any backend which was healthy during the whole  *)
(* call by no more than what other calls added and released meanwhile.     *)
(* With no overlap the choice is a true minimum.                           *)
(***************************************************************************)
DriftBound ==
    [][\A r \in Requests : Acquire(r) =>
          \A b \in Listed(list[r]) \ wasDown[r] :
              count[Target(r)] <= count[<<b, snap[r][b]>>] + drift[r]]_vars

(***************************************************************************)
(* What makes the burst inductive.  While all is calm, each call works on  *)
(* the first list and its first counters with every flag up.  And each of  *)
(* the first n calls has a backend of its own: the one its scan starts at, *)
(* still to be read, or chosen with a zero counter, or held.               *)
(***************************************************************************)
InTurn == {r \in Requests : pc[r] \in {"check", "weigh", "routed"}}

Turn(r) == IF pc[r] = "routed" THEN held[r][1]
           ELSE IF chosen[r] # None THEN chosen[r] ELSE Head(todo[r])

CalmScans ==
    calm =>
        /\ \A b \in Backends : healthy[b]
        /\ loads = [b \in Listed(backends) |-> 1] /\ Len(backends) < Half
        /\ \A r \in Requests :
            /\ pc[r] \in Working => list[r] = backends /\ snap[r] = loads
            /\ pc[r] = "routed" => held[r][2] = 1

BurstInTurn ==
    calm /\ Distinct(backends) /\ next <= Len(backends) =>
        /\ \A r \in InTurn :
            /\ \E t \in 1..next : Turn(r) = backends[t]
            /\ pc[r] # "routed" => IF chosen[r] = None THEN todo[r] # << >>
                                                      ELSE minPending[r] = 0
        /\ \A r, q \in InTurn : r # q => Turn(r) # Turn(q)

(***************************************************************************)
(* What makes the drift bound and the refinement inductive.  A call has    *)
(* noted the present flags, and its map is that of its list.  What it has  *)
(* scanned is what is no longer to do and was up throughout: nothing as    *)
(* long as nothing is chosen, and else no counter of it is below minPending *)
(* or the chosen counter by more than the drift, nor the chosen counter    *)
(* above minPending.                                                       *)
(***************************************************************************)
FlagsSeen ==
    \A r \in Requests : pc[r] \in Working =>
        \A b \in Backends : IF healthy[b] THEN b \in wasUp[r] ELSE b \in wasDown[r]

MapsListed ==
    /\ DOMAIN loads = Listed(backends)
    /\ \A r \in Requests : pc[r] \in Working => DOMAIN snap[r] = Listed(list[r])

Scanned(r) == Listed(list[r]) \ (Listed(todo[r]) \cup wasDown[r])

(* The counter of b as the call r knows it. *)
Known(r, b) == <<b, snap[r][b]>>

Knows(r) ==
    /\ pc[r] = "weigh" => Head(todo[r]) \in wasUp[r]
    /\ chosen[r] # None => chosen[r] \in wasUp[r]
    /\ pc[r] \in {"check", "weigh"} /\ chosen[r] = None => Scanned(r) = {}

Bounded(r) ==
    chosen[r] # None =>
        /\ count[Target(r)] <= minPending[r] + drift[r]
        /\ \A b \in Scanned(r) :
            /\ minPending[r] <= count[Known(r, b)] + drift[r]
            /\ count[Target(r)] <= count[Known(r, b)] + drift[r]

ScanKnows == \A r \in Requests : Knows(r)
ScanBounded == \A r \in Requests : Bounded(r)

(***************************************************************************)
(* A call panics only if its ticket no longer fits an int: the first half  *)
(* of the tickets all start a scan (costaware.go:56, leastpending.go:51).  *)
(***************************************************************************)
PanicsOnlyLate ==
    [][\A r \in Requests :
          pc[r] = "ticket" /\ pc'[r] = "panicked" => next >= Half]_vars

(***************************************************************************)
(* Every call of Select returns or panics, even if the flags flip for ever *)
(* (costaware.go:62-77).                                                   *)
(***************************************************************************)
SelectReturns ==
    \A r \in Requests :
        pc[r] = "ticket" ~> pc[r] \in {"routed", "refused", "released", "panicked"}

-----------------------------------------------------------------------------
(* The refinement: what happens between entry and return is "selecting",   *)
(* and a call that panicked is one that does not return.                   *)
Abstraction == INSTANCE Selection WITH
    Lists   <- {Listed(l) : l \in Lists},
    listed  <- Listed(backends),
    stage   <- [r \in Requests |-> IF pc[r] \in Working THEN "selecting" ELSE pc[r]],
    offered <- [r \in Requests |-> Listed(list[r])],
    pick    <- [r \in Requests |-> IF pc[r] \in {"routed", "released"}
                                   THEN {held[r][1]} ELSE {}]

(***************************************************************************)
(* The strategy keeps the promise of Selection: a routed backend was       *)
(* listed and up at an instant of the call, a refusal means that each      *)
(* listed backend was down at an instant of the call.                      *)
(***************************************************************************)
ImplementsSelection == Abstraction!Spec
=============================================================================
