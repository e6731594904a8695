------------------------------ MODULE Reports ------------------------------
(***************************************************************************)
(* The handlers of GET /metrics, /api/status and /readyz beside those of   *)
(* ChatServer.  A report is put together from loads of single atomics, one *)
(* step each, while requests move them; a counter map is ranged over under *)
(* a lock, but the field that holds the map is read before it is taken     *)
(* (state.go:88).                                                          *)
(*                                                                         *)
(* Left out: the names and the health column of /api/status, /healthz,     *)
(* which returns one load, and formatting.                                 *)
(***************************************************************************)
EXTENDS ChatServer, Sequences

VARIABLES
    report,     \* which report is made, or None before it is asked for
    todo,       \* what is still to be read: sets in order, each in any order
    seen,       \* the values read so far
    upAllAlong  \* history: the backends that were up since the report began

reader == <<report, todo, seen, upAllAlong>>

(* The maps of metrics.State, the keys they may have, and the stage in     *)
(* which a handler is about to add to one.                                 *)
Keyed == [strategies |-> Strategies, backends |-> Backends]
Counts == [strategies |-> strategyCounts, backends |-> backendCounts]
Adding == [strategies |-> "countStrategy", backends |-> "countBackend"]

(* The counters that are one load each; the latencies are copied under the *)
(* lock that RecordLatency takes, so they count as one: who has one.       *)
Loads == [inFlight |-> inFlight, total |-> requestsTotal, errors |-> backendErrors,
          hits |-> hits, misses |-> misses,
          latencies |-> {b \in Backends : measured[b] > 0}]

(* Mutant: the requests are counted before those in flight. *)
MetricsTotalFirst ==
    <<{"total"}, {"inFlight"}, {"errors"}, {"strategies"}, Strategies, {"backends"}, Backends>>

Metrics ==
    <<{"inFlight"}, {"total"}, {"errors"}, {"strategies"}, Strategies, {"backends"}, Backends>>

Status ==
    <<{"latencies"}, {"backends"}, Backends, {"hits"}, {"misses"},
      {"total"}, {"inFlight"}, {"errors"}>>

Readyz == <<Backends>>

Plan == [metrics |-> Metrics, status |-> Status, readyz |-> Readyz]

(* A backend is an object, and none of the names above; None is no report. *)
ASSUME NamesAssumption ==
    /\ Backends \cap (Strategies \cup {"strategies", "backends", "inFlight", "total",
                                      "errors", "hits", "misses", "latencies"}) = {}
    /\ None \notin {"metrics", "status", "readyz"}

ReportsInit ==
    /\ Init
    /\ report = None /\ todo = << >> /\ seen = << >> /\ upAllAlong = {}

-----------------------------------------------------------------------------
Ask(kindOfReport) ==
    /\ report = None
    /\ report' = kindOfReport
    /\ todo' = Plan[kindOfReport]
    /\ upAllAlong' = {b \in Backends : healthy[b]}
    /\ UNCHANGED <<vars, seen>>

(* x may be read next; the values read, and what is left to read: l.       *)
IsNext(x) == todo # << >> /\ x \in Head(todo)
Reads(values, l) ==
    /\ seen' = [y \in DOMAIN seen \cup DOMAIN values |->
                   IF y \in DOMAIN seen THEN seen[y] ELSE values[y]]
    /\ todo' = l
    /\ UNCHANGED <<vars, report, upAllAlong>>
One(x, value) == [y \in {x} |-> value]
Rest(x) == IF Head(todo) = {x} THEN Tail(todo) ELSE <<Head(todo) \ {x}>> \o Tail(todo)

Load(x) ==
    /\ IsNext(x) /\ x \in DOMAIN Loads
    /\ Reads(One(x, Loads[x]), Rest(x))

(* StrategySnapshot and BackendSnapshot read the field: nil until the      *)
(* first counterFor, which runs just before the first addition.            *)
ReadField(m) ==
    /\ IsNext(m) /\ m \in DOMAIN Keyed
    /\ \/ /\ \A k \in Keyed[m] : Counts[m][k] = 0
          /\ Reads([k \in Keyed[m] |-> 0], Tail(Tail(todo)))
       \/ /\ \/ \E k \in Keyed[m] : Counts[m][k] > 0
             \/ \E r \in Requests : pc[r] = Adding[m]
          /\ Reads(<< >>, Tail(todo))

(* One load of the range over a map; a key that is not in it yet reads 0.  *)
LoadKey(m, k) ==
    /\ report # "readyz"
    /\ k \in Keyed[m] /\ IsNext(k)
    /\ Reads(One(k, Counts[m][k]), Rest(k))

(* Mutant: HasHealthyBackend looks at one backend only. *)
AfterDownGiveUp(b) == << >>

AfterDown(b) == Rest(b)

(* HasHealthyBackend ends with the first flag that is up. *)
CheckFlag(b) ==
    /\ report = "readyz" /\ IsNext(b)
    /\ Reads(One(b, healthy[b]), IF healthy[b] THEN << >> ELSE AfterDown(b))

ReportsNext ==
    \/ \E k \in DOMAIN Plan : Ask(k)
    \/ \E x \in DOMAIN Loads : Load(x)
    \/ \E m \in DOMAIN Keyed : ReadField(m) \/ \E k \in Keyed[m] : LoadKey(m, k)
    \/ \E b \in Backends : CheckFlag(b)
    \/ /\ Next
       /\ upAllAlong' = {b \in upAllAlong : healthy'[b]}
       /\ UNCHANGED <<report, todo, seen>>

ReportsSpec == ReportsInit /\ [][ReportsNext]_<<vars, reader>>

-----------------------------------------------------------------------------
Made(kindOfReport) == report = kindOfReport /\ todo = << >>
Shown(S) == Total([x \in S |-> seen[x]])

(* The requests in flight were accepted, counted for a strategy and for a  *)
(* backend, and there are no more errors than selections (server.go:131).  *)
MetricsAddUp ==
    /\ seen["inFlight"] <= seen["total"]
    /\ seen["inFlight"] <= Shown(Strategies) /\ seen["inFlight"] <= Shown(Backends)
    /\ seen["errors"] <= Shown(Strategies) /\ seen["errors"] <= Shown(Backends)

(* Selections and cache lookups do not exceed the requests, and a backend  *)
(* with a latency was selected.  In flight and errors are read last and    *)
(* may exceed the requests shown (server.go:382).                          *)
StatusAddsUp ==
    /\ Shown(Backends) <= seen["total"]
    /\ seen["hits"] + seen["misses"] <= seen["total"]
    /\ \A b \in seen["latencies"] : seen[b] > 0

(* A report reads the sets of its plan in order: with l left to read, it   *)
(* has read all of the sets before, what is missing from the one at hand,  *)
(* and nothing of those after it.  The field of a map has no value.        *)
InOrder(plan, l, read) ==
    LET at == Len(plan) - Len(l) + 1
    IN  /\ l \in Seq(SUBSET UNION {plan[i] : i \in 1..Len(plan)})
        /\ at \in 1..Len(plan) + 1
        /\ \A j \in 2..Len(l) : l[j] = plan[at + j - 1]
        /\ \A i \in 1..Len(plan) :
            /\ i < at => plan[i] \ DOMAIN Keyed \subseteq read
            /\ i = at => /\ Head(l) \subseteq plan[i] /\ Head(l) \cap read = {}
                         /\ (plan[i] \ Head(l)) \ DOMAIN Keyed \subseteq read
            /\ i > at => plan[i] \cap read = {}

ReadInOrder ==
    /\ report = None => todo = << >> /\ DOMAIN seen = {}
    /\ report \in {"metrics", "status"} => InOrder(Plan[report], todo, DOMAIN seen)

(* A map of counters as a report that has begun to read it will show it if *)
(* nothing moves any more.                                                 *)
Merged(m) == [k \in Keyed[m] |-> IF k \in DOMAIN seen THEN seen[k] ELSE Counts[m][k]]

(* Counters only grow, so a value that was read is at most the value now.  *)
SeenIsPast ==
    report \in {"metrics", "status"} =>
        /\ \A m \in DOMAIN Keyed : \A k \in Keyed[m] \cap DOMAIN seen :
                seen[k] \in Nat /\ seen[k] <= Counts[m][k]
        /\ \A x \in {"total", "hits", "misses"} \cap DOMAIN seen :
                seen[x] \in Nat /\ seen[x] <= Loads[x]

(* The part a value is shall not exceed the whole, read or still to read.  *)
PartsFit ==
    /\ report = "metrics" =>
        /\ "inFlight" \in DOMAIN seen =>
            seen["inFlight"] <= IF "total" \in DOMAIN seen THEN seen["total"] ELSE requestsTotal
        /\ \A x \in {"inFlight", "errors"} \cap DOMAIN seen, m \in DOMAIN Keyed :
            seen[x] \in Nat /\ seen[x] <= Total(Merged(m))
    /\ report = "status" =>
        /\ "latencies" \in DOMAIN seen =>
            \A b \in seen["latencies"] : b \in Backends /\ Merged("backends")[b] > 0
        /\ "total" \in DOMAIN seen =>
            /\ Shown(Backends) <= seen["total"]
            /\ seen["hits"] + seen["misses"] <= seen["total"]

(***************************************************************************)
(* What a reader may rely on although no two values of a report belong to  *)
(* one instant: each value is read before those it is a part of, so the    *)
(* parts never exceed the whole, even when a map was still nil             *)
(* (server.go:131-159, 389-424).                                           *)
(***************************************************************************)
ReportsAddUp ==
    (Made("metrics") => MetricsAddUp) /\ (Made("status") => StatusAddsUp)

(* The scan of /readyz has found a flag up, or has still to look at every  *)
(* backend that has been up since it began.                                *)
ReadyScan ==
    /\ \A b \in upAllAlong : b \in Backends /\ healthy[b]
    /\ report = "readyz" =>
        /\ todo = << >> \/ (todo \in Seq(SUBSET Backends) /\ Len(todo) = 1)
        /\ todo # << >> => Head(todo) \cap DOMAIN seen = {}
        /\ \/ \E b \in DOMAIN seen : seen[b]
           \/ \A b \in upAllAlong : todo # << >> /\ b \in Head(todo)

(***************************************************************************)
(* /readyz fails only if no backend was up during the whole of the scan    *)
(* (server.go:98-105): flags that flap behind the scan may hide one, a     *)
(* backend that stayed up may not be missed.                               *)
(***************************************************************************)
ReadyIfOneStaysUp ==
    Made("readyz") /\ upAllAlong # {} => \E b \in DOMAIN seen : seen[b]
=============================================================================
