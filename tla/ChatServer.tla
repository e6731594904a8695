----------------------------- MODULE ChatServer -----------------------------
(***************************************************************************)
(* server.Server as the chat handler sees it: the active strategy and its  *)
(* replacement through PUT /strategy, the calls of Select, the counters of *)
(* metrics.State, the affinity store, and the health flags that the prober *)
(* and failed requests write.  Each counter is an atomic of its own, so    *)
(* each update is a step of its own, in the order of the handler; deferred *)
(* calls run last and in reverse.                                          *)
(*                                                                         *)
(* A call of Select is the abstract one of Selection, which the detailed   *)
(* strategies implement.                                                   *)
(***************************************************************************)
EXTENDS Integers, FiniteSets

CONSTANTS
    Backends,      \* cfg.Backends
    Requests,      \* POST /v1/chat/completions
    Keys,          \* cache keys
    KeyOf,         \* buildCacheKey of each request
    Strategies,    \* the names that PUT /strategy accepts
    MaxSwitches,   \* bound: successful calls of PUT /strategy
    Flaky,         \* bound: the backends the prober ever reports on
    None           \* no backend, no strategy

ASSUME KeyAssumption == KeyOf \in [Requests -> Keys]
ASSUME StrategiesAssumption ==
    "round_robin" \in Strategies
    /\ Strategies \subseteq {"round_robin", "least_pending", "random", "kv_aware"}
ASSUME SwitchesAssumption == MaxSwitches \in Nat
ASSUME FlakyAssumption == Flaky \subseteq Backends
ASSUME NoneAssumption == None \notin Backends

(* Strategy objects are numbered in the order New and setStrategy make them. *)
Instances == 0..MaxSwitches

(* The strategies whose Select adds to a counter and whose Release takes away. *)
Counting == {"least_pending", "kv_aware"}

VARIABLES
    healthy, listed, call, offered, wasUp, wasDown, pick,  \* as in Selection
    active,           \* s.strategyName and s.strategy: a name and an instance
    kind,             \* the type of each instance
    load,             \* the counters of each instance
    pc,               \* where each request is in the handler
    using,            \* local: the name and instance activeStrategy returned
    hint,             \* local: the backend the store named to kv_aware's lookup
    hit,              \* local: decision.CacheHit
    status,           \* the HTTP status of the answer, or 0
    pref,             \* the affinity store
    requestsTotal, strategyCounts, backendCounts, hits, misses, inFlight,
    backendErrors,    \* metrics.State
    measured,         \* how many latencies each backend's moving average holds
    served            \* history: which backend answered which key

Sel == INSTANCE Selection WITH stage <- call, Lists <- {Backends}

selection == <<healthy, listed, call, offered, wasUp, wasDown, pick>>
strategy == <<active, kind>>
counters == <<requestsTotal, strategyCounts, backendCounts, hits, misses,
              inFlight, backendErrors, measured>>
locals == <<using, hint, hit>>
vars == <<selection, strategy, load, pc, locals, status, pref, counters, served>>

(* The handler, in order; each stage is named after what comes next. *)
Stages == {"receive", "strategy", "begin", "lookup", "select", "countStrategy",
           "countBackend", "countLookup", "enter", "send", "knockDown",
           "countError", "remember", "leave", "release", "done"}

(* What a request is told that is not counted. *)
Rejections == {400, 405}

Uses == [name : Strategies, instance : Instances]

TypeOK ==
    /\ Sel!TypeOK
    /\ active \in Uses
    /\ kind \in [Instances -> Strategies \cup {None}]
    /\ load \in [Instances \X Backends -> Nat]
    /\ pc \in [Requests -> Stages]
    /\ using \in [Requests -> Uses \cup {None}]
    /\ hint \in [Requests -> Backends \cup {None}]
    /\ hit \in [Requests -> BOOLEAN]
    /\ status \in [Requests -> {0, 200, 502, 503} \cup Rejections]
    /\ pref \in [Keys -> Backends \cup {None}]
    /\ requestsTotal \in Nat /\ inFlight \in Nat /\ backendErrors \in Nat
    /\ hits \in Nat /\ misses \in Nat
    /\ strategyCounts \in [Strategies -> Nat]
    /\ backendCounts \in [Backends -> Nat] /\ measured \in [Backends -> Nat]
    /\ served \subseteq Keys \X Backends

Init ==
    /\ Sel!Init
    /\ active = [name |-> "round_robin", instance |-> 0]
    /\ kind = [i \in Instances |-> IF i = 0 THEN "round_robin" ELSE None]
    /\ load = [x \in Instances \X Backends |-> 0]
    /\ pc = [r \in Requests |-> "receive"]
    /\ using = [r \in Requests |-> None]
    /\ hint = [r \in Requests |-> None]
    /\ hit = [r \in Requests |-> FALSE]
    /\ status = [r \in Requests |-> 0]
    /\ pref = [k \in Keys |-> None]
    /\ requestsTotal = 0 /\ inFlight = 0 /\ backendErrors = 0
    /\ hits = 0 /\ misses = 0
    /\ strategyCounts = [s \in Strategies |-> 0]
    /\ backendCounts = [b \in Backends |-> 0] /\ measured = [b \in Backends |-> 0]
    /\ served = {}

-----------------------------------------------------------------------------
Goto(r, to) == pc' = [pc EXCEPT ![r] = to]

BackendOf(r) == CHOOSE b \in pick[r] : TRUE

(* The name that is counted and answered, and the type of the object used. *)
Named(r, name) == using[r].name = name
TypeOf(r) == kind[using[r].instance]

(* The prober stores a verdict. *)
Probe(b, value) ==
    /\ Sel!SetHealthy(b, value)
    /\ UNCHANGED <<strategy, load, pc, locals, status, pref, counters, served>>

(* Mutant: the strategy keeps its object and only changes its name. *)
SetStrategyInPlace(name) ==
    /\ active.instance < MaxSwitches
    /\ active' = [active EXCEPT !.name = name]
    /\ UNCHANGED <<selection, kind, load, pc, locals, status, pref, counters, served>>

(* PUT /strategy with a name that normalizes: a new object each time, even *)
(* for the name that is active; name and object are replaced together.     *)
SetStrategy(name) ==
    /\ active.instance < MaxSwitches
    /\ active' = [name |-> name, instance |-> active.instance + 1]
    /\ kind' = [kind EXCEPT ![active.instance + 1] = name]
    /\ UNCHANGED <<selection, load, pc, locals, status, pref, counters, served>>

(* An affinity expires or is lost. *)
Forget(k) ==
    /\ pref[k] # None
    /\ pref' = [pref EXCEPT ![k] = None]
    /\ UNCHANGED <<selection, strategy, load, pc, locals, status, counters, served>>

(* A write of an affinity that was reported as failed takes effect late,   *)
(* as a write to Redis may (see RedisStore).                               *)
RememberLate(r) ==
    /\ status[r] = 200
    /\ pref' = [pref EXCEPT ![KeyOf[r]] = BackendOf(r)]
    /\ UNCHANGED <<selection, strategy, load, pc, locals, status, counters, served>>

-----------------------------------------------------------------------------
(* A method other than POST, or a body that does not decode or validate. *)
Reject(r) ==
    /\ pc[r] = "receive"
    /\ \E code \in Rejections : status' = [status EXCEPT ![r] = code]
    /\ Goto(r, "done")
    /\ UNCHANGED <<selection, strategy, load, locals, pref, counters, served>>

(* IncRequestsTotal *)
Receive(r) ==
    /\ pc[r] = "receive"
    /\ requestsTotal' = requestsTotal + 1
    /\ Goto(r, "strategy")
    /\ UNCHANGED <<selection, strategy, load, locals, status, pref, strategyCounts,
                   backendCounts, hits, misses, inFlight, backendErrors, measured, served>>

(* activeStrategy: name and object under one read lock. *)
ActiveStrategy(r) ==
    /\ pc[r] = "strategy"
    /\ using' = [using EXCEPT ![r] = active]
    /\ Goto(r, "begin")
    /\ UNCHANGED <<selection, strategy, load, hint, hit, status, pref, counters,
                   served>>

(* Select begins. *)
Begin(r) ==
    /\ pc[r] = "begin"
    /\ Sel!Begin(r)
    /\ Goto(r, IF TypeOf(r) = "kv_aware" THEN "lookup" ELSE "select")
    /\ UNCHANGED <<strategy, load, locals, status, pref, counters, served>>

(* kv_aware asks the store, which answers, misses or fails. *)
Lookup(r) ==
    /\ pc[r] = "lookup"
    /\ hint' \in {hint, [hint EXCEPT ![r] = pref[KeyOf[r]]]}
    /\ Goto(r, "select")
    /\ UNCHANGED <<selection, strategy, load, using, hit, status, pref, counters,
                   served>>

(* The instance's counter of b moves, if its type keeps counters. *)
Charged(r, b, units) ==
    IF TypeOf(r) \in Counting
    THEN [load EXCEPT ![<<using[r].instance, b>>] = @ + units] ELSE load

(* The named backend was down when it was looked at, or there is none. *)
PassedOver(r) == hint[r] = None \/ hint[r] \in wasDown[r]

(* Select returns a decision: the backend the store named, or any other.   *)
Route(r, b) ==
    /\ pc[r] = "select"
    /\ Sel!Route(r, b)
    /\ \E named \in BOOLEAN :
        /\ IF named THEN hint[r] = b ELSE PassedOver(r)
        /\ hit' = [hit EXCEPT ![r] = named]
    /\ load' = Charged(r, b, 1)
    /\ Goto(r, "countStrategy")
    /\ UNCHANGED <<strategy, using, hint, status, pref, counters, served>>

(* Select fails: 503. *)
Refuse(r) ==
    /\ pc[r] = "select"
    /\ Sel!Refuse(r)
    /\ status' = [status EXCEPT ![r] = 503]
    /\ Goto(r, "done")
    /\ UNCHANGED <<strategy, load, locals, pref, counters, served>>

RecordStrategy(r) ==
    /\ pc[r] = "countStrategy"
    /\ strategyCounts' = [strategyCounts EXCEPT ![using[r].name] = @ + 1]
    /\ Goto(r, "countBackend")
    /\ UNCHANGED <<selection, strategy, load, locals, status, pref, requestsTotal,
                   backendCounts, hits, misses, inFlight, backendErrors, measured, served>>

RecordBackend(r) ==
    /\ pc[r] = "countBackend"
    /\ backendCounts' = [backendCounts EXCEPT ![BackendOf(r)] = @ + 1]
    /\ Goto(r, IF Named(r, "kv_aware") THEN "countLookup" ELSE "enter")
    /\ UNCHANGED <<selection, strategy, load, locals, status, pref, requestsTotal,
                   strategyCounts, hits, misses, inFlight, backendErrors, measured, served>>

(* IncKVCacheHit or IncKVCacheMiss *)
CountLookup(r) ==
    /\ pc[r] = "countLookup"
    /\ hits' = IF hit[r] THEN hits + 1 ELSE hits
    /\ misses' = IF hit[r] THEN misses ELSE misses + 1
    /\ Goto(r, "enter")
    /\ UNCHANGED <<selection, strategy, load, locals, status, pref, requestsTotal,
                   strategyCounts, backendCounts, inFlight, backendErrors,
                   measured, served>>

IncInFlight(r) ==
    /\ pc[r] = "enter"
    /\ inFlight' = inFlight + 1
    /\ Goto(r, "send")
    /\ UNCHANGED <<selection, strategy, load, locals, status, pref, requestsTotal,
                   strategyCounts, backendCounts, hits, misses, backendErrors,
                   measured, served>>

(* Mutants: the affinity is recorded before the error is looked at; the    *)
(* error is not reported.                                                  *)
AfterFailureRemember == "remember"
AfterFailureSilent == "leave"

AfterFailure == "knockDown"

(* SendChatCompletion returns, and how long it took is recorded. *)
Answer(r, ok) ==
    /\ pc[r] = "send"
    /\ measured' = [measured EXCEPT ![BackendOf(r)] = @ + 1]
    /\ served' = IF ok THEN served \cup {<<KeyOf[r], BackendOf(r)>>} ELSE served
    /\ Goto(r, IF ok THEN "remember" ELSE AfterFailure)
    /\ UNCHANGED <<selection, strategy, load, locals, status, pref, requestsTotal,
                   strategyCounts, backendCounts, hits, misses, inFlight,
                   backendErrors>>

(* backend.SetHealthy(false) *)
KnockDown(r) ==
    /\ pc[r] = "knockDown"
    /\ Sel!SetHealthy(BackendOf(r), FALSE)
    /\ Goto(r, "countError")
    /\ UNCHANGED <<strategy, load, locals, status, pref, counters, served>>

(* Mutant: the early return skips the deferred decrement. *)
AfterErrorReturn == "release"

AfterError == "leave"

(* IncBackendErrors: 502. *)
CountError(r) ==
    /\ pc[r] = "countError"
    /\ backendErrors' = backendErrors + 1
    /\ status' = [status EXCEPT ![r] = 502]
    /\ Goto(r, AfterError)
    /\ UNCHANGED <<selection, strategy, load, locals, pref, requestsTotal,
                   strategyCounts, backendCounts, hits, misses, inFlight,
                   measured, served>>

(* recordAffinity, whose error is dropped: 200. *)
RecordAffinity(r) ==
    /\ pc[r] = "remember"
    /\ pref' \in {pref, [pref EXCEPT ![KeyOf[r]] = BackendOf(r)]}
    /\ status' = [status EXCEPT ![r] = 200]
    /\ Goto(r, "leave")
    /\ UNCHANGED <<selection, strategy, load, locals, counters, served>>

(* Deferred: DecInFlight. *)
DecInFlight(r) ==
    /\ pc[r] = "leave"
    /\ inFlight' = inFlight - 1
    /\ Goto(r, "release")
    /\ UNCHANGED <<selection, strategy, load, locals, status, pref, requestsTotal,
                   strategyCounts, backendCounts, hits, misses, backendErrors,
                   measured, served>>

(* Mutant: the charge is taken off the strategy that is active by now. *)
DischargedActive(r, b) ==
    IF active.name \in Counting
    THEN [load EXCEPT ![<<active.instance, b>>] = @ - 1] ELSE load

(* What the release closure does to the counters: its instance's own. *)
Discharged(r, b) == Charged(r, b, -1)

(* Deferred: decision.Release. *)
Release(r) ==
    /\ pc[r] = "release"
    /\ load' = Discharged(r, BackendOf(r))
    /\ Sel!Release(r)
    /\ Goto(r, "done")
    /\ UNCHANGED <<strategy, locals, status, pref, counters, served>>

Handle(r) ==
    \/ Reject(r) \/ Receive(r) \/ ActiveStrategy(r) \/ Begin(r) \/ Lookup(r)
    \/ \E b \in Backends : Route(r, b)
    \/ Refuse(r)
    \/ RecordStrategy(r) \/ RecordBackend(r) \/ CountLookup(r) \/ IncInFlight(r)
    \/ \E ok \in BOOLEAN : Answer(r, ok)
    \/ KnockDown(r) \/ CountError(r) \/ RecordAffinity(r)
    \/ DecInFlight(r) \/ Release(r)

Next ==
    \/ \E b \in Flaky, value \in BOOLEAN : Probe(b, value)
    \/ \E name \in Strategies : SetStrategy(name)
    \/ \E k \in Keys : Forget(k)
    \/ \E r \in Requests : Handle(r) \/ RememberLate(r)

Spec == Init /\ [][Next]_vars

(* A handler goroutine runs; the client's timeout ends SendChatCompletion. *)
FairSpec == Spec /\ \A r \in Requests : WF_vars(Handle(r))

-----------------------------------------------------------------------------
(* Where a request holds a decision of its strategy. *)
Inside == {"countStrategy", "countBackend", "countLookup", "enter", "send",
           "knockDown", "countError", "remember", "leave", "release"}

(* The status is written once, just before the deferred calls run. *)
StatusFits(r) ==
    /\ status[r] = 0 <=> pc[r] \notin {"leave", "release", "done"}
    /\ pc[r] \in {"leave", "release"} => status[r] \in {200, 502}

(* A request is inside exactly while it holds a decision, for one backend. *)
CallFits(r) ==
    /\ call[r] = "routed" <=> pc[r] \in Inside
    /\ pc[r] \in Inside \/ status[r] \in {200, 502} => \E b \in Backends : pick[r] = {b}

(* The name a request is counted under is the type of the object it uses. *)
UsingFits(r) ==
    pc[r] \notin {"receive", "strategy"} /\ status[r] \notin Rejections =>
        /\ using[r] \in Uses
        /\ using[r].name = kind[using[r].instance]
        /\ using[r].instance <= active.instance
        /\ pc[r] = "countLookup" => Named(r, "kv_aware")

HandlersCoherent ==
    /\ active.name = kind[active.instance]
    /\ \A r \in Requests : StatusFits(r) /\ CallFits(r) /\ UsingFits(r)

(* The requests that hold a decision of instance i for b, by the names they *)
(* are counted under.                                                      *)
Holding(i, b) ==
    {r \in Requests : /\ call[r] = "routed" /\ pick[r] = {b}
                      /\ using[r].instance = i /\ using[r].name \in Counting}

(***************************************************************************)
(* A strategy object answers for its own decisions only: each of its       *)
(* counters is the number of its unreleased decisions, however often PUT   *)
(* /strategy replaced it in between, and the name a request was counted    *)
(* under is that of the object it used (server.go:185-209, 278-310).       *)
(***************************************************************************)
InstanceLedger ==
    \A i \in Instances, b \in Backends : load[<<i, b>>] = Cardinality(Holding(i, b))

Answered(code) == {r \in Requests : pc[r] = "done" /\ status[r] = code}
AtRest == \A r \in Requests : pc[r] \in {"receive", "done"}

(* The sum of a map of counters, as the size of the set of their units. *)
Units(f) == UNION {{x} \X (1..f[x]) : x \in DOMAIN f}
Total(f) == Cardinality(Units(f))

(* The requests in these stages, and those that got an answer or a 502. *)
Reached(stages) == {r \in Requests : pc[r] \in stages \/ status[r] \in {200, 502}}

(* What each counter of metrics.State has counted so far. *)
Accepted == {r \in Requests : pc[r] # "receive" /\ status[r] \notin Rejections}
CountedStrategy ==
    Reached({"countBackend", "countLookup", "enter", "send", "knockDown",
             "countError", "remember"})
CountedBackend ==
    Reached({"countLookup", "enter", "send", "knockDown", "countError", "remember"})
CountedLookup == Reached({"enter", "send", "knockDown", "countError", "remember"})
Timed == Reached({"knockDown", "countError", "remember"})
UnderWay ==
    {r \in Requests : pc[r] \in {"send", "knockDown", "countError", "remember", "leave"}}
Failed == {r \in Requests : status[r] = 502}

Under(name, S) == {r \in S : Named(r, name)}
To(b, S) == {r \in S : pick[r] = {b}}

(* Every counter is at any time the number of requests it has counted. *)
EveryCounterCounts ==
    /\ IsFiniteSet(Accepted) /\ requestsTotal = Cardinality(Accepted)
    /\ IsFiniteSet(Units(strategyCounts)) /\ IsFiniteSet(Units(backendCounts))
    /\ Total(strategyCounts) = Cardinality(CountedStrategy)
    /\ Total(backendCounts) = Cardinality(CountedBackend)
    /\ \A s \in Strategies : strategyCounts[s] = Cardinality(Under(s, CountedStrategy))
    /\ \A b \in Backends : /\ backendCounts[b] = Cardinality(To(b, CountedBackend))
                            /\ measured[b] = Cardinality(To(b, Timed))
    /\ hits + misses = Cardinality(Under("kv_aware", CountedLookup))
    /\ inFlight = Cardinality(UnderWay)
    /\ backendErrors = Cardinality(Failed)

(***************************************************************************)
(* What an operator may conclude from the counters when no request is      *)
(* under way: nothing is in flight or pending, every request that was      *)
(* accepted was either refused or counted once for a strategy, once for a  *)
(* backend and once for its latency, every kv_aware decision was a hit or  *)
(* a miss, and every 502 was a backend error (server.go:180-247).          *)
(***************************************************************************)
BooksBalance ==
    AtRest =>
        /\ inFlight = 0 /\ \A x \in Instances \X Backends : load[x] = 0
        /\ requestsTotal = Total(strategyCounts) + Cardinality(Answered(503))
        /\ Total(strategyCounts) = Total(backendCounts)
        /\ measured = backendCounts
        /\ "kv_aware" \in Strategies => hits + misses = strategyCounts["kv_aware"]
        /\ backendErrors = Cardinality(Answered(502))

(* The store, the hints taken from it and what is about to be stored name  *)
(* only backends that have answered a request with the key.                *)
StoreIsEarned ==
    /\ \A k \in Keys : pref[k] # None => <<k, pref[k]>> \in served
    /\ \A r \in Requests : hint[r] # None => <<KeyOf[r], hint[r]>> \in served
    /\ \A r \in Requests : pc[r] = "remember" \/ status[r] = 200 =>
                              <<KeyOf[r], BackendOf(r)>> \in served

(***************************************************************************)
(* A request is told its backend was a cache hit only if that backend has  *)
(* already answered a request with the same key (server.go:212-226, 243).  *)
(***************************************************************************)
HitIsEarned ==
    \A r \in Requests : hit[r] => \A b \in pick[r] : <<KeyOf[r], b>> \in served

(***************************************************************************)
(* Every request that is accepted is answered and gives back what it took, *)
(* whatever fails on the way and whoever switches strategies; the Select   *)
(* of this module returns, as all but the late calls of Ticket do.         *)
(***************************************************************************)
EveryRequestAnswered ==
    \A r \in Requests : pc[r] = "strategy" ~> (pc[r] = "done" /\ status[r] # 0)

(***************************************************************************)
(* What /api/status calls the pending requests of a backend are requests   *)
(* that are under way there: "Pending int64 `json:pending`"                *)
(* (server.go:395), shown as "pending" by the status page (ui/app.py:146). *)
(* The handler fills the field with the selections ever made.              *)
(***************************************************************************)
StatusPendingIsPending ==
    \A b \in Backends :
        backendCounts[b] <= Cardinality({r \in Requests : call[r] = "routed" /\ pick[r] = {b}})
=============================================================================
