# InferFlow router: verification development

TLA+ models of the Go router in `internal/`, TLC configurations that check them
on small instances, and TLAPS proofs. References such as `leastpending.go:66`
are to files of the repository; `PROJECT.json` maps every definition to lines.

## 1. The system

InferFlow routes OpenAI-style chat requests to a few inference backends. One
process, `cmd/router`, holds everything that has state.

| component | state | operations | interacts with |
|---|---|---|---|
| `server.Server` (chat handler) | active strategy and its name under `strategyMu` | `handleChatCompletions`, `setStrategy`, `activeStrategy`, `recordAffinity` | calls a strategy, the metrics, the client, the affinity store |
| prober and shutdown (`server.go`) | `stopCh`, `probeDone`, `stopOnce`, the ticker | `startProber`, `probeBackends`, `Shutdown`, `Run` | writes health flags, calls the client |
| `router.Backend`, `router.Decision` | an atomic health flag; a release closure | `SetHealthy`, `Healthy`, `Release` | written by prober and failed requests, read by strategies |
| `LeastPending`, `CostAware` | list, map of atomic counters, ticket | `Select`, `SetBackends`, release | read flags |
| `KVAware` | the same, and the affinity store | `Select` (lookup, else the scan), release | affinity store |
| `RoundRobin`, `Random` | list, ticket or generator | `Select`, `SetBackends` | read flags |
| `cache.MemoryStore`, `cache.RedisStore` | preferred backend of each key, with expiry | `PreferredBackend`, `RememberBackend` | used by `KVAware` and the handler |
| `metrics.State` | atomic counters, maps of counters, moving averages | `Inc…`, `Record…`, snapshots | written by the handler, read by `/metrics`, `/api/status` |
| `proxy.Client`; `adapter`, `llm`, `triton` | none of their own; a connection per request | `SendChatCompletion`, `/infer`, `Generate`, each with a timeout | router → adapter → model server |
| `/metrics`, `/api/status`, `/readyz`, `/healthz` | none | read counters, maps, flags one by one | beside the chat handler |
| `server.Config`, pure helpers | none | list parsing, key, cost and token estimates | |
| load generator, charts, status page, Terraform, Kubernetes | – | – | outside the router |

What is hard here: every request is a goroutine, and a strategy *reads* the
counters and flags one atomic at a time and *then* acts; the strategy object can
be replaced between `Select` and `Release`; flags are written by two parties
that each look first and write later; a lookup in the memory store is three
critical sections; each counter is moved separately; `Shutdown` must meet a
prober that may be anywhere in a round. Below the router, a request crosses two
more programs that give up at different times, and the affinity may live in a
Redis server that answers late, twice or never. A report is read load by load
while all this moves. `PROJECT.json` lists these hazards with their lines.

What makes each component correct:

- **a strategy**: returns a backend that was listed and up during the call;
  refuses only after it saw each backend down; every charge is given back
  exactly once, to the counter it was put on; a burst of calls does not pile up
  on one backend;
- **affinity store**: a hit was the preference of that key during the call; an
  entry that stands is found; what a success stored stays until it expires;
- **prober**: a flag is wrong only for a bounded number of verdicts, and right
  in the end; `Shutdown` joins the prober and returns;
- **handler**: every accepted request is answered and gives back what it took;
  counters balance; a cache hit is one; old strategy objects drain;
- **reports**: parts never exceed their whole, although no two values are of one
  instant; a router with a steady backend is ready;
- **the chain below**: a success is an answer the model server gave to that
  request; a user who waits hears; work is charged for while somebody waits for it, and ends.

## 2. Modules

| module | models | abstract counterpart |
|---|---|---|
| `Selection` | what `Strategy.Select` promises to its caller | – |
| `Ticket` | where a scan starts: the dispenser, its conversion to `int`, Go's remainder | – |
| `LoadStrategy` | `least_pending` and `cost_aware`, access by access | implements `Selection` |
| `PlainStrategy` | `round_robin` and `random`, access by access | implements `Selection` |
| `KVAware` | `kv_aware`: `LoadStrategy` and `AffinityStore` composed | implements `Selection` |
| `AffinityStore` | what `cache.Store` promises | – |
| `MemoryStore` | `cache.MemoryStore`, by critical section | implements `AffinityStore` |
| `RedisStore` | `cache.RedisStore`, its client's retries, the server | implements `AffinityStore` |
| `HealthProber` | prober goroutine, failed requests, `Shutdown` | – |
| `ChatServer` | the chat handler, strategy switch, metrics, affinity | composes `Selection` |
| `Reports` | `/metrics`, `/api/status`, `/readyz`, load by load | extends `ChatServer` |
| `AdapterChain` | user, router, adapter, model server and the connections between | – |
| `LoadStrategyProofs`, `PlainStrategyProofs`, `KVAwareProofs`, `MemoryStoreProofs`, `RedisStoreProofs`, `HealthProberProofs`, `AdapterChainProofs` | theorems about the module of that name | |
| `ChatServerProofs` | theorems about `ChatServer` and `Reports` | |
| `MCLoadStrategy`, `MCPlainStrategy`, `MCKVAware`, `MCMemoryStore`, `MCRedisStore`, `MCHealthProber`, `MCChatServer`, `MCReports`, `MCAdapterChain` | instances for TLC | |

**LoadStrategy.** The two Go types are one algorithm up to the charge
(`Weighted`, `Charge`), so there is one module. `Enter` copies list and map
reference under the read lock, `TakeTicket` is `s.next.Add(1)`, `CheckHealth`
and `Weigh` alternate along `todo` (the rotated list) and read one flag and one
counter each, `Acquire` adds the charge and returns, `Release` is the closure.
`Panic` is a ticket whose index is negative: the goroutine unwinds before it has
charged anything, and `Select` never returns. `SetBackends` is atomic because it
holds the write lock. A counter is a heap object, `<<b, g>>`, so that a backend
listed again has a new one. `SetBackends` is part of `router.Strategy`, but only
the constructors call it today: what is shown with a changing list is more than
the program needs. `HasHealthyBackend` changes nothing and is left out.

**Ticket.** `int(next.Add(1)-1) % len(backends)` stands in `round_robin`,
`least_pending`, `cost_aware` and `kv_aware` alike, so it is one module, which
`LoadStrategy` (and through it `KVAware`) and `PlainStrategy` extend. The
dispenser wraps around, `Signed` is the conversion to `int`, `Rem` is Go's
remainder, which may be negative. `2 * Half` is the number of tickets, 2^64 in
the code.

**PlainStrategy.** Both types copy the list (`Enter`) and read one flag after
the other (`Accept`, `PassBy`); `kind`, chosen in `Init`, says which one runs.
`round_robin` starts where `Ticket` says; `Panic` is the index out of range: the
goroutine unwinds and `Select` never returns. `random` keeps
what it found up and draws one, any one (`Finish`). Neither keeps a counter, so
the release of a decision changes nothing and is left out. Their loops are
bounded and wait for nothing, so no liveness is checked here.

**KVAware.** Extends `LoadStrategy`, whose actions it embeds unchanged, and
instantiates `AffinityStore` for `s.store`, so it holds with any store that
implements that. `Ask`, `Named`, `Unnamed` are the call of `PreferredBackend`;
`CheckPreferred` is the loop over the copied list with its health check, `Join`
adds to the counter in a later step; else `FallBack` draws the ticket of the
scan, which panics as it does in `least_pending`. Anybody
may write the store (`Affinity`), also routers that list other backends.
`ChatServer!Route` takes from here which decisions are cache hits.

**MemoryStore.** `Lookup` is the call, `Read` the read-locked section,
`CheckExpiry` the comparison without a lock, `Delete` the write-locked
section; `RememberBackend` is one action. Time is a counter that may advance
between any two steps; the comparison reads the clock at its own step. A key is
a model value and `Trimmed` maps spellings to keys or to the blank key.

**RedisStore.** A call is one command. `PreferredBackend` and `RememberBackend`
send it, `Execute` is the server, `Break` the loss or lateness of the command or
of its reply, `Retry` the client's repetition, `Finish` and `GiveUp` the
return. A SET that was given up joins `late`: it may be executed at any later
time, more than once, after newer ones (`ExecuteLate`). `Forget` is expiry and
restart. The arguments are those that `strings.TrimSpace` left non-blank (a
blank one ends the call before anything is sent), and no other program writes
blank entries. The server and go-redis are external: modelled from the two
commands the code sends and the errors it expects. What is late for the store
is late for the handler: `ChatServer!RememberLate`.

**HealthProber.** `HealthCheck` asks a backend and `ApplyVerdict` stores the
answer, so anything may happen in between; `Fail` and `KnockDown` are the same
pair in a request. `alive` is whether the backend answers `/healthz` within the
two seconds of the probe's context. The ticker's channel holds one tick.
`Shutdown` is `CloseStop`, `Join` (the body of `stopOnce.Do`), `Follow` (a
second caller, which waits in `Do`), `StartDrain`, `EndDrain`. Which strategy
chose a backend does not matter here: `Send` takes any whose flag is up.

**ChatServer.** Each request walks `handleChatCompletions` from `receive` to
`done`, one shared access per step. The call of `Select` is the abstract one of
`Selection` (its variable `stage` is `call` here), so it holds for every
strategy that returns (the panic of `Ticket`, after 2^63 calls, is outside it);
what the handler needs beyond it is which counters move (`Charged`,
by the *type* of the object) and whether the decision was a cache hit. The name
that is counted and the object that is used are kept apart (`using.name`,
`kind`). `Reject` answers 405 or 400. An object is numbered by its place in the sequence of replacements.
`RecordLatency` is counted but its moving average is not computed. The store's
errors are not told from its misses, as in the code (`kvaware.go:55`,
`server.go:379`). The prober is its effect: `Probe` writes any value.

**Reports.** One report, begun at any time, beside every step of `ChatServer`.
`todo` lists what the handler still reads, in its order; what stands in one set
is read in any order, as Go ranges over a map. `Load` is one atomic,
`LoadKey` one counter of a map, `CheckFlag` one flag. `ReadField` is the read
of the map *field*, for which `state.go:88` holds no lock: it finds nil as long
as nothing was counted, and may find the map from the moment a handler is about
to create it. A key that the map does not have yet reads 0, and one that is
added during the range may be seen or not; here it is seen if it is read late,
so a report of the code is one of the model. The latencies are copied under the
lock that also guards their writes: one load. The names and the health column
of the status page are copies of single values and are left out.

**AdapterChain.** `handler` is `handleChatCompletions` once more, seen from its
connections: `Select`, `Send`, then one of `Receive`, `RouterTimeout`,
`NoticeHangUp` and `NoticeLoss`, then `Fail`, `Release`, `Flush`. The answer is
flushed when the handler has returned, so after the deferred `Release`. `adapter`
is `/infer` with `llm.Client` or `triton.Client`: `Call`, then one of `Generate`,
`AdapterTimeout` and `ContextDone`. `conn` and `link` are the two connections;
whoever leaves closes its own, and the other side *may* notice. The model server
is external and sends text, blank text, a base64 value (of something, or of
blanks alone) or something that is an error in itself; which of these a client
accepts is `Accepted`. `triton.Client` reads base64 values too: it refuses only
the empty one and passes the others on as they are, not decoded
(`triton/client.go:134`). A crash, the timers and the closing of a connection by
`net/http` are external as well. What the
handler rejects itself never reaches the adapter, whose own checks (`/infer`
without a model or messages) are therefore dead here. A user who hangs up counts
as a failure of the backend, as in the code (`server.go:237`): the flag falls.
`Exit` is `main` returning once the listener is closed, whatever `Shutdown`
still drains.

Every module is parameterised by CONSTANTS with named assumptions. History
variables (`wasUp`, `wasDown`, `drift`, `calm`, `offered`, `kept`, `fresh`,
`knocked`, `served`, `upAllAlong`) are written and never guard a step of the code, with one
use: in `Selection`, `wasUp` and `wasDown` are the abstract guard itself, and
`ChatServer!PassedOver` reads `wasDown` in the same way.

## 3. Runs

| run | question | result |
|---|---|---|
| `least_pending` | three overlapping calls, two backends, one flaps and may be dropped and listed again | 1.1 M states; ledger, burst, drift, refinement hold |
| `cost_aware` | two calls with a clamped and a larger cost, three backends, shrunken and empty lists, a dispenser at its start or at the last `int`, fairness | 141 k states; drift in units of cost, late panics, and every call ends |
| `plain_strategy` | three calls, three backends of which one flaps, a list that shrinks to one or none, eight tickets | 370 k states; refinement, turns and late panics |
| `kv_aware` | two calls, one with a key, two backends of which one flaps, a list that shrinks, a store that may say anything, a dispenser near its last ticket or at its start, fairness | 201 k states; all hold |
| `memory_store` | two lookups, any number of writes, lifetimes of one and two ticks in four | 123 k states; refinement and `SteadyEntryHits` hold |
| `redis_store` | two callers, two names for one key, two tries for each command, any losses and restarts, fairness | 23 k states; refinement, and every call returns |
| `affinity_lost` | is what a success remembered kept until it expires? | violated |
| `health_prober` | two backends, two changes, a request, two callers of `Shutdown`, fairness | 166 k states; all hold |
| `chat_server` | two requests with the same key, two backends, two switches among three strategies, fairness | 286 k states; all hold |
| `reports` | one report beside two requests and one switch | 1.7 M states (up to exchange of the requests); both hold |
| `adapter_chain` | two requests, both kinds of adapter, every fault, exit, fairness | 671 k states; all hold |
| `status_pending` | is what `/api/status` calls pending under way? | violated |

**What the properties say.** `LedgerBalance`: a counter is the sum of the
charges of the unreleased decisions on it. `BurstSpreads`: from a new router on,
while no flag goes down, no list changes and nothing is released, the first *n* calls over a list of *n* different backends go to *n* different
ones however they overlap; the ticket does that, not the counters, which all
read zero. `DriftBound`: a choice is worse than a
backend that was up throughout by no more than what other calls moved during
the call. `ImplementsSelection`, `ImplementsAffinity`: refinements.
`TurnsAreTaken`: while no flag goes down and the list stands, calls whose
tickets fit an `int` and are fewer than *n* apart get different backends out of
*n* different ones. (Beyond that the turns are off: a call between two others may panic.)
`PanicsOnlyLate`: a call panics only with a ticket from the upper half.
`SelectReturns`, `KVSelectReturns`: a call returns, or it panics.
`WarmBackendServes`: a backend that the store named, that is in the call's list
and stayed up gets the request as a cache hit, and no other decision is one.
`SteadyEntryHits`: a lookup misses only if an expiry, a write or a delete falls
into it. `TwoVerdictsSettle`: one verdict after a change may still be the old
answer, the second is not. `FlagsConverge`, `NoRevivalAfterJoin`,
`ShutdownReturns`: see section 1. `InstanceLedger`: a strategy object's
counters are its own unreleased decisions, across switches, and the name a
request is counted under is that of the object it used. `BooksBalance`: at rest
the counters of `/metrics` agree with each other and with the answers.
`HitIsEarned`: a cache hit names a backend that did answer that key.
`EveryRequestAnswered`: no path loses a request. `ReportsAddUp`: in `/metrics`,
requests in flight were counted before, for a strategy and a backend too, and
errors were selections; in `/api/status`, selections and lookups were requests.
Each holds because of the order of the reads against that of the writes, and
what is *not* in it fails: `/api/status` reads in-flight after the total and may
show more of it. `ReadyIfOneStaysUp`: `/readyz` fails only if no backend was up
during the whole scan. `ChargeCoversWork`: while the model server works for a
request whose charge is gone, the connection above is closed, so the adapter is
told. `SuccessIsEarned`: a 200 carries what the model server sent for that
request, its work on it is over, and what it sent was no error, no blank text and
no empty value (a base64 value of blanks it may be, see below). `UserHears`: a user who waits gets an answer or sees the connection end.
`WorkStops`: a request the router is done with leaves the adapter, even when
nobody tells it. `CallsReturn`: a dead Redis delays a request, no more.

**Findings.** (1) `MemoryStore.PreferredBackend` decides to delete with no lock
held, so it can delete an entry that was written after the one it read
(`memory.go:38-41`): the affinity of a successful request is lost, and the next
request with that key is a miss. (2) `/api/status` fills `pending` with the
selections ever made of the backend (`server.go:403`), and the status page
shows it as pending requests.

Seen while modelling, and no finding, as no doc speaks of it: `triton.Client`
trims a text before it asks whether it is empty (`triton/client.go:131`), but
compares a base64 value with `""` only (`triton/client.go:135`): a value of
blanks becomes a 200 with no text in it, where blanks in a text are an error
(`empty generated_text output`). `SuccessIsEarned` says no more than that.

**Bounds.** `MaxBorn` 2 lets a counter be replaced once while its predecessor
is still held. `Flaky` limits which flags are written from outside: one flapping
backend gives the stale-flag races (in `cost_aware` two flap, and a list of
just these two meets a total outage). Three calls overlap in `least_pending`,
so that two can move counters during the scan of a third; two suffice where
costs differ.
`kv_aware` has `MaxBorn` 1, so a list can only shrink: its own two steps differ
from `least_pending` in what was copied before the lookup, not in how counters
are made anew. `LengthAssumption` says that the length of a list fits an `int`.
`cost_aware` has eight tickets (`Half` 4) and starts its dispenser at 0 and at
3: the two tickets from 3 on lie on both sides of the border, and the second
panics over a list of three. `kv_aware` has six (`Half` 3) and starts at 0 and
at 4, so that the second call draws the last ticket, -1. `least_pending` has
eight and starts at 0 only, where the burst is. `plain_strategy` has eight tickets (`Half` 4) and starts its
dispenser at 0, as a new router does, and at 3, the last ticket that fits an
`int`: three calls cross the border, and the first call after it meets the most
negative number.
`MaxTime` 4 with lifetimes 1 and 2 lets an entry expire, be renewed and expire
again. `MaxChanges` 2 lets a backend die and return, or two die. `MaxSwitches`
2 lets a request hold a decision of an object that was replaced twice, and
includes the switch to the active name. One request knocks down and two callers
race in `health_prober`; a second request adds no new order of ask, fail and
store for a single flag. `redis_store` has one key, as keys do not interact, and
`MaxTries` 2, so that a repeated command may overtake. `reports` has one switch,
so that two strategies are counted and cache hits occur; its flags only fall
(`Flaky` empty), by failed requests: `ReadyIfOneStaysUp` speaks of a backend
that stays up, and what revives the others behind the scan was tried with one
flapping backend (5.1 M states, no violation) and is too long for every day.
`adapter_chain` has one backend: two requests race through it, and choosing one
is `ChatServer`'s matter. Symmetry is used in `reports` only, which checks no
liveness: the two requests share their key and may be exchanged.

**Fairness.** A goroutine that can run does: weak fairness of each call's
steps in `LoadStrategy` and `KVAware` (a store answers or its client gives up),
of each handler in `ChatServer`, of the prober's steps, the ticker and the callers of `Shutdown` in `HealthProber`. Health
checks end within two seconds (`server.go:271`), completions within the
client's timeout, the drain within five (`server.go:86`). `StopProber` is
strongly fair, because Go's `select` chooses uniformly between ready cases, so
a closed `stopCh` is not passed over for ever; the mutant that prefers ticks
violates `ShutdownReturns`. In `AdapterChain` the two programs' own steps and
their timers are fair, in `RedisStore` the client's: it waits a few seconds and
repeats a command a few times. Nothing is assumed of users, of `PUT /strategy`,
of backends, model servers, Redis, the network or of a hang-up being noticed,
nor of the flags: they may flip for ever in `SelectReturns`.

`CHECK_DEADLOCK FALSE` is set where the system really stops: when both callers
of `Shutdown` are done, when every request has been answered (and the report
made), and when the router has exited.

## 4. Proofs

Every invariant, action property and refinement that a passing run checks is
also a theorem, from the assumptions named in the modules, for all constants.
Each proof has an inductive invariant whose parts are definitions of the
model's module, and TLC checked each part on the run's instance first.

**Strategies.**

- `LoadStrategyProofs!TypeCorrect`: `Spec => []TypeOK`. `TypeOK` needs
  `CallsCoherent` (a counter about to be read or chosen is in the call's own
  map, a routed call holds a counter): without it `Weigh` and `Acquire` could
  apply a map outside its domain.
- `LoadStrategyProofs!LedgerBalances`: `Spec => []LedgerBalance`. The invariant
  is `LedgerInductive`: types, `CallsCoherent`, `OnlyBornKnown` (no map, copy
  or decision knows a counter that is still to be created, so a fresh counter
  at zero has nothing outstanding), `FiniteUnits` (the charges on a counter are
  a finite set of units, so they can be counted) and the ledger. `UnitsAdd` and
  `UnitsRemove` are the two steps of counting; each action then has its lemma.
- `LoadStrategyProofs!DriftIsBounded`: `Spec => DriftBound`. One inequality is
  not inductive: a scan compares what it read, not what stands now. `Bounded`
  relates the minimum the scan keeps, the counter it has chosen and each
  counter it has passed, pairwise and up to the drift; any other call moves one
  of them by its charge and the drift by as much. `FlagsSeen` and `Knows` say
  that what the scan passed over was down, so that what is left is the bound.
- `LoadStrategyProofs!LoadImplementsSelection`: `Spec => ImplementsSelection`.
  A refusal needs that the scan saw the whole list, which is arithmetic: *n*
  steps of the remainder, from any ticket, come by each of *n* places
  (`RemainderComesByAll`, `RotationVisitsAll`).
- `LoadStrategyProofs!BurstsSpread`: `Spec => []BurstSpreads`. `BurstInTurn`
  says why: each of the first *n* calls has a backend of its own, the one its
  ticket points at, whose counter nobody else charges; so that counter still
  reads zero when the call comes to it, nothing later is smaller, and the call
  keeps it. That it reads zero comes from the ledger. `CalmScans` keeps all
  calls on one list with every flag up, and as its length is an `int`, so are
  the tickets of the burst.
- `LoadStrategyProofs!EarlyCallsScan`: `Spec => PanicsOnlyLate`. A ticket of the
  lower half is its own `int`, and the remainder of a natural number is an index
  of the list (`EarlyStart`).
- `PlainStrategyProofs!PlainTypeCorrect`, `PanicsAreLate` and
  `PlainImplementsSelection`: `TypeOK`, `PanicsOnlyLate` and
  `ImplementsSelection`, for any number of tickets. The invariants are
  `FlagsSeen` (a call has noted each flag as it stands), `ScanKnows` (where a
  scan started, that it only gets past its first backend from an index in
  range, and that all it looked at was down or is in `found`) and
  `NothingPicked`. The refusal needs arithmetic: from a start in range, *n*
  steps of the remainder come by each of *n* places (`ScanComesByAll`), so a
  scan that found nothing saw each backend down. A start that is not in range
  never gets that far: its first index is negative.
- `PlainStrategyProofs!TurnsTaken`: `Spec => []TurnsAreTaken`, if `CallsFit`:
  the calls are finitely many, and no more than there are tickets. A router
  serves 2^64 calls before that matters; after it, two calls may hold one
  ticket. `TicketsApart` counts: the dispenser is ahead of each ticket in use by
  no more than the calls that got past it, so it has not come round to it.
- `KVAwareProofs!KVTypeCorrect`, `KVLedgerBalances`, `KVImplementsSelection`:
  `KVTypeOK`, `LedgerBalance` and `ImplementsSelection` of `KVSpec`. All that a
  call of `kv_aware` does is a step of `LoadStrategy`, or none, but for `Join`
  (`StepUnderneath`). `Join` and `Acquire` are both a `Decide(r, t)`, a decision
  for counter *t* however it was found, so the lemmas about `Decide` in
  `LoadStrategyProofs` serve twice.
- `KVAwareProofs!WarmServes`: `KVSpec => WarmBackendServes`. The invariant is
  `Attempts`: a call scans only after its attempt has failed or without a key,
  and an attempt fails only on a backend that is not listed or was down.

**Stores.**

- `MemoryStoreProofs!StoreTypeCorrect`, `StoreImplementsAffinity`,
  `SteadyEntriesHit`. The refinement rests on `OffersSeen`: the live entry of a
  key is among what each lookup of it was offered, and so is what it read as
  long as it has not expired. `SteadyEntryHits` rests on `StandingEntry`: while
  an entry stands, the lookup finds it live, and what it read is that entry.
- `RedisStoreProofs!RedisTypeCorrect`, `RedisImplementsAffinity`, for any number
  of retries. The invariant is `RepliesOffered`: the entry of a key was offered
  to every lookup of it under way, and so was what a reply holds; without it, a
  reply that the client reads after the entry was overwritten would be unearned.

**Server.**

- `HealthProberProofs!TypeCorrect`, `FlagsSettle`, `ShutdownEndsRevival`:
  `TypeOK`, `TwoVerdictsSettle`, `NoRevivalAfterJoin`. `FlagsSettle` needs
  `VerdictIsCurrent`: after one verdict since the change, the answer the prober
  carries is not from before it. `ShutdownEndsRevival` needs `Joined`: a caller
  of `Shutdown` past the join, or one released by `Do`, has left the prober
  done, and only the prober raises a flag.
- `ChatServerProofs!TypeCorrect`, `LedgerPerInstance`, `BooksAlwaysBalance`:
  `TypeOK`, `InstanceLedger`, `BooksBalance`, from one invariant, `Ledgers`.
  No counter is a natural number by itself: a gauge stays above zero because
  the requests it counts exist. So `EveryCounterCounts` says which requests
  each counter of `metrics.State` has counted, and `HandlersCoherent` what a
  handler holds at each stage. The sum of a map of counters is the size of a
  set of units (`Total`), because a sum defined by recursion would need
  induction, which the prover does not offer.
- `ChatServerProofs!HitsAreEarned`: `Spec => []HitIsEarned`, with
  `StoreIsEarned`: also each hint taken from the store, and what is about to be
  stored, late or not, was earned.
- `ChatServerProofs!ReportsAlwaysAddUp`: `ReportsSpec => []ReportsAddUp`.
  `ReadInOrder` says what a half-made report has read; `SeenIsPast` that a
  counter that was read has not shrunk since (`CountersGrow`); `PartsFit` that a
  part that was read fits the whole, as far as it was read and as it stands
  where it was not. A map that was nil contributes zeros that are then still
  true.
- `ChatServerProofs!ReadyWhileOneStaysUp`: `ReportsSpec => []ReadyIfOneStaysUp`,
  with `ReadyScan`: the scan has found a flag up, or has still before it every
  backend that was up all along.

**Below the router.**

- `AdapterChainProofs!ChainTypeCorrect`, `WorkIsCharged`, `SuccessesAreEarned`:
  `TypeOK`, `ChargeCoversWork`, `SuccessIsEarned`. The invariants are
  `StagesInOrder` (the charge is held and the connection open in certain stages
  only, and the adapter works below an open link), which says why a charge is
  never given back above a connection that stands, and `AnswersInOrder` (an
  answer is the model server's at each place it passes, one that the adapter's
  client accepts, and its work is over).

Only model-checked: all liveness (`SelectReturns`, `KVSelectReturns`,
`CallsReturn`, `FlagsConverge`, `ShutdownReturns`, `EveryRequestAnswered`,
`UserHears`, `WorkStops`), as fairness and ENABLED are beyond the prover; and
the two violations, which are single behaviours.

## 5. Not modelled

- `server/config.go`: environment variables, read once, sequentially; they give
  the constants;
- `vllm.Client`: no program uses it (`cmd/vllm-adapter` builds an `llm.Client`);
- `cmd/mock-backend`: a backend that never fails, so part of what backends do in
  `HealthProber` and `AdapterChain`;
- the health checks of the model-server clients: one GET (llm) or two (triton) that
  must all succeed, one boolean of `HealthProber`;
- request decoding (a choice between accept and reject), response bodies,
  headers, tracing (empty spans), token estimates, the values of the moving
  average (`Reports` knows whether a backend has one);
- `/healthz`: one load of the requests in flight;
- growth of the memory store (`memory.go:57`): entries are deleted only by a
  lookup of the same key, so a store of keys that never return grows without
  bound; a bounded instance cannot tell this from a large one;
- deployment, load generator, charts and status page.

## 6. Plan

1. Pure functions: `estimateRequestCost`, `estimateTokens`, `splitAndTrim`,
   `buildCacheKey` (which texts collide), the moving average, against reference
   definitions.
2. Proofs: facts about the pure functions, once they are modelled; that the
   steps of `ChatServer`'s calls of `Select` are steps of `Selection`, which is
   so by construction today.
