---------------------------- MODULE HealthProber ----------------------------
(***************************************************************************)
(* The health flags of the backends and everyone who writes them: the      *)
(* prober goroutine, which asks each backend in turn and then stores the   *)
(* answer, and the request handlers, which clear the flag of a backend     *)
(* when a request to it failed for whatever reason.  Also Shutdown, which  *)
(* stops the prober, waits for it and then drains the HTTP server.         *)
(*                                                                         *)
(* A probe is two steps, so an answer can be out of date when it is        *)
(* stored; a request fails and clears the flag in two steps as well.       *)
(***************************************************************************)
EXTENDS Integers, Sequences

CONSTANTS
    Order,        \* cfg.Backends, in the order the prober visits them
    Requests,     \* chat requests
    Closers,      \* the goroutines that call Shutdown
    MaxChanges,   \* bound: how often a backend starts or stops answering
    None          \* no backend

Backends == {Order[i] : i \in 1..Len(Order)}

ASSUME OrderAssumption ==
    /\ Order \in Seq(Backends) \ {<< >>}
    /\ \A i, j \in 1..Len(Order) : Order[i] = Order[j] => i = j
ASSUME NoneAssumption == None \notin Backends
ASSUME ChangesAssumption == MaxChanges \in Nat

VARIABLES
    alive,        \* the backend answers /healthz within two seconds
    changes,      \* changes of alive so far
    healthy,      \* Backend.healthy
    prober,       \* the prober goroutine: ask, judge, select or done
    round,        \* the backends this round has still to visit
    verdict,      \* the answer of the last health check: err == nil
    ticking,      \* the ticker exists
    tick,         \* the ticker's channel holds a tick
    stopping,     \* stopCh is closed
    once,         \* stopOnce: open, running or done
    closer,       \* each caller of Shutdown
    serving,      \* the HTTP server accepts requests
    stage,        \* each request: idle, sent, failed or done
    target,       \* the backend a request was sent to
    fresh,        \* history: verdicts stored since alive[b] changed, up to two
    knocked       \* history: a request cleared the flag since the last verdict

proberVars == <<prober, round, verdict, ticking, tick>>
closeVars == <<stopping, once, closer, serving>>
requestVars == <<stage, target>>
vars == <<alive, changes, healthy, proberVars, closeVars, requestVars, fresh, knocked>>

TypeOK ==
    /\ alive \in [Backends -> BOOLEAN] /\ healthy \in [Backends -> BOOLEAN]
    /\ changes \in 0..MaxChanges
    /\ prober \in {"ask", "judge", "select", "done"}
    /\ round \in Seq(Backends)
    /\ round = << >> <=> prober \in {"select", "done"}
    /\ verdict \in BOOLEAN /\ ticking \in BOOLEAN /\ tick \in BOOLEAN
    /\ stopping \in BOOLEAN /\ serving \in BOOLEAN
    /\ once \in {"open", "running", "done"}
    /\ closer \in [Closers -> {"idle", "calling", "waiting", "joined", "draining", "done"}]
    /\ stage \in [Requests -> {"idle", "sent", "failed", "done"}]
    /\ target \in [Requests -> Backends \cup {None}]
    /\ fresh \in [Backends -> 0..2] /\ knocked \in [Backends -> BOOLEAN]

(* Every backend is taken for healthy until the first verdict. *)
Init ==
    /\ alive \in [Backends -> BOOLEAN] /\ changes = 0
    /\ healthy = [b \in Backends |-> TRUE]
    /\ prober = "ask" /\ round = Order /\ verdict = FALSE
    /\ ticking = FALSE /\ tick = FALSE
    /\ stopping = FALSE /\ once = "open" /\ closer = [c \in Closers |-> "idle"]
    /\ serving = TRUE
    /\ stage = [r \in Requests |-> "idle"] /\ target = [r \in Requests |-> None]
    /\ fresh = [b \in Backends |-> 0] /\ knocked = [b \in Backends |-> FALSE]

-----------------------------------------------------------------------------
(* A backend starts or stops answering. *)
Change(b) ==
    /\ changes < MaxChanges
    /\ changes' = changes + 1
    /\ alive' = [alive EXCEPT ![b] = ~@]
    /\ fresh' = [fresh EXCEPT ![b] = 0]
    /\ UNCHANGED <<healthy, proberVars, closeVars, requestVars, knocked>>

(* client.HealthCheck of the next backend of the round: an answer, or the  *)
(* error that stands for two seconds without one.                          *)
HealthCheck ==
    /\ prober = "ask"
    /\ verdict' = alive[Head(round)]
    /\ prober' = "judge"
    /\ UNCHANGED <<alive, changes, healthy, round, ticking, tick, closeVars,
                   requestVars, fresh, knocked>>

(* Mutants: a round ends with its first backend; the first round is the last. *)
AfterVerdictShort(rest) == "select"
AfterRoundDone(rest) == IF rest = << >> THEN "done" ELSE "ask"

(* Where the prober is when it has these backends left to visit. *)
AfterVerdict(rest) == IF rest = << >> THEN "select" ELSE "ask"

(* Mutant: a verdict can only take a backend out of service. *)
JudgedDown(b) == healthy[b] /\ verdict

(* The flag a verdict on b leaves: err == nil. *)
Judged(b) == verdict

(* backend.SetHealthy(err == nil); the ticker is made after the first round.*)
ApplyVerdict ==
    LET b == Head(round)
    IN  /\ prober = "judge"
        /\ healthy' = [healthy EXCEPT ![b] = Judged(b)]
        /\ round' = Tail(round)
        /\ prober' = AfterVerdict(Tail(round))
        /\ ticking' = (ticking \/ Tail(round) = << >>)
        /\ fresh' = [fresh EXCEPT ![b] = IF @ < 2 THEN @ + 1 ELSE 2]
        /\ knocked' = [knocked EXCEPT ![b] = FALSE]
        /\ UNCHANGED <<alive, changes, verdict, tick, closeVars, requestVars>>

(* The ticker's channel holds at most one tick. *)
Fire ==
    /\ ticking /\ prober # "done" /\ ~tick
    /\ tick' = TRUE
    /\ UNCHANGED <<alive, changes, healthy, prober, round, verdict, ticking,
                   closeVars, requestVars, fresh, knocked>>

(* select, case <-ticker.C: another round. *)
StartRound ==
    /\ prober = "select" /\ tick
    /\ tick' = FALSE
    /\ round' = Order
    /\ prober' = "ask"
    /\ UNCHANGED <<alive, changes, healthy, verdict, ticking, closeVars,
                   requestVars, fresh, knocked>>

(* Mutant: a pending tick goes before stopCh. *)
MayStopAfterTicks == prober = "select" /\ stopping /\ ~tick

(* select, case <-stopCh; ready cases are chosen between at random. *)
MayStop == prober = "select" /\ stopping

(* The goroutine returns: the ticker stops and probeDone is closed. *)
StopProber ==
    /\ MayStop
    /\ prober' = "done"
    /\ UNCHANGED <<alive, changes, healthy, round, verdict, ticking, tick,
                   closeVars, requestVars, fresh, knocked>>

-----------------------------------------------------------------------------
(* A signal arrives, or a test cleans up. *)
CallShutdown(c) ==
    /\ closer[c] = "idle"
    /\ closer' = [closer EXCEPT ![c] = "calling"]
    /\ UNCHANGED <<alive, changes, healthy, proberVars, stopping, once, serving,
                   requestVars, fresh, knocked>>

(* stopOnce.Do, first caller: close(stopCh). *)
CloseStop(c) ==
    /\ closer[c] = "calling" /\ once = "open"
    /\ once' = "running"
    /\ stopping' = TRUE
    /\ closer' = [closer EXCEPT ![c] = "waiting"]
    /\ UNCHANGED <<alive, changes, healthy, proberVars, serving, requestVars,
                   fresh, knocked>>

(* Mutant: Shutdown closes stopCh and goes on at once. *)
ProberGoneOrNot == stopping

(* <-probeDone *)
ProberGone == prober = "done"

(* The first caller has seen the prober end and leaves stopOnce.Do. *)
Join(c) ==
    /\ closer[c] = "waiting" /\ ProberGone
    /\ once' = "done"
    /\ closer' = [closer EXCEPT ![c] = "joined"]
    /\ UNCHANGED <<alive, changes, healthy, proberVars, stopping, serving,
                   requestVars, fresh, knocked>>

(* A later caller waits inside stopOnce.Do for the first, and does nothing.*)
Follow(c) ==
    /\ closer[c] = "calling" /\ once = "done"
    /\ closer' = [closer EXCEPT ![c] = "joined"]
    /\ UNCHANGED <<alive, changes, healthy, proberVars, stopping, once, serving,
                   requestVars, fresh, knocked>>

(* httpSrv.Shutdown closes the listener ... *)
StartDrain(c) ==
    /\ closer[c] = "joined"
    /\ serving' = FALSE
    /\ closer' = [closer EXCEPT ![c] = "draining"]
    /\ UNCHANGED <<alive, changes, healthy, proberVars, stopping, once,
                   requestVars, fresh, knocked>>

(* ... and returns when no request is left, or after five seconds. *)
EndDrain(c) ==
    /\ closer[c] = "draining"
    /\ closer' = [closer EXCEPT ![c] = "done"]
    /\ UNCHANGED <<alive, changes, healthy, proberVars, stopping, once, serving,
                   requestVars, fresh, knocked>>

-----------------------------------------------------------------------------
(* A request is sent to a backend whose flag its strategy saw up. *)
Send(r, b) ==
    /\ stage[r] = "idle" /\ serving /\ healthy[b]
    /\ stage' = [stage EXCEPT ![r] = "sent"]
    /\ target' = [target EXCEPT ![r] = b]
    /\ UNCHANGED <<alive, changes, healthy, proberVars, closeVars, fresh, knocked>>

(* A usable answer, whatever /healthz says at the moment. *)
Succeed(r) ==
    /\ stage[r] = "sent"
    /\ stage' = [stage EXCEPT ![r] = "done"]
    /\ UNCHANGED <<alive, changes, healthy, proberVars, closeVars, target, fresh,
                   knocked>>

(* An error: the backend is down, took longer than the client's timeout,   *)
(* answered 4xx or 5xx or not in JSON, or the user hung up.                *)
Fail(r) ==
    /\ stage[r] = "sent"
    /\ stage' = [stage EXCEPT ![r] = "failed"]
    /\ UNCHANGED <<alive, changes, healthy, proberVars, closeVars, target, fresh,
                   knocked>>

(* backend.SetHealthy(false) *)
KnockDown(r) ==
    /\ stage[r] = "failed"
    /\ stage' = [stage EXCEPT ![r] = "done"]
    /\ healthy' = [healthy EXCEPT ![target[r]] = FALSE]
    /\ knocked' = [knocked EXCEPT ![target[r]] = TRUE]
    /\ UNCHANGED <<alive, changes, proberVars, closeVars, target, fresh>>

Probing == HealthCheck \/ ApplyVerdict \/ StartRound
Closing(c) == CloseStop(c) \/ Join(c) \/ Follow(c) \/ StartDrain(c) \/ EndDrain(c)
Finishing(r) == Succeed(r) \/ Fail(r) \/ KnockDown(r)

Next ==
    \/ \E b \in Backends : Change(b)
    \/ Probing \/ Fire \/ StopProber
    \/ \E c \in Closers : CallShutdown(c) \/ Closing(c)
    \/ \E r \in Requests, b \in Backends : Send(r, b)
    \/ \E r \in Requests : Finishing(r)

Spec == Init /\ [][Next]_vars

(***************************************************************************)
(* The prober is never blocked for good: a health check ends within two    *)
(* seconds and the ticker ticks.  A request ends within the client's       *)
(* timeout, a drain within five seconds.  Go's select picks one of the     *)
(* ready cases at random, so a closed stopCh is not passed over for ever:  *)
(* that is the strong fairness of StopProber.                              *)
(***************************************************************************)
Fairness ==
    /\ WF_vars(Probing) /\ WF_vars(Fire) /\ SF_vars(StopProber)
    /\ \A c \in Closers : WF_vars(Closing(c))
    /\ \A r \in Requests : WF_vars(Finishing(r))

FairSpec == Spec /\ Fairness

-----------------------------------------------------------------------------
(* A verdict on a backend that has had one since it changed is current: it *)
(* was asked for after the change.                                         *)
VerdictIsCurrent ==
    prober = "judge" /\ fresh[Head(round)] > 0 => verdict = alive[Head(round)]

(* Nobody leaves stopOnce.Do while the prober runs. *)
JoinedAfterProber ==
    \/ prober = "done"
    \/ once # "done" /\ \A c \in Closers : closer[c] \in {"idle", "calling", "waiting"}

(***************************************************************************)
(* How stale a flag can be: one verdict stored after a backend changed may *)
(* still be the old answer, and may undo what a failed request just wrote; *)
(* the second is not.  From then on the flag tells the truth, except that  *)
(* a request which failed since the last verdict has cleared it            *)
(* (server.go:269-276 and 237).                                            *)
(***************************************************************************)
TwoVerdictsSettle ==
    \A b \in Backends : fresh[b] = 2 => healthy[b] = (alive[b] /\ ~knocked[b])

(***************************************************************************)
(* Unless the router shuts down, every flag is right in the end: a backend *)
(* that comes back is put in service again, whoever cleared its flag, and  *)
(* one that died is taken out even if no request ever reaches it.          *)
(***************************************************************************)
FlagsConverge ==
    [](~stopping) => \A b \in Backends : <>[](healthy[b] = alive[b])

(***************************************************************************)
(* Shutdown joins the prober: once its caller goes on to drain, nobody     *)
(* puts a backend into service any more (server.go:81-85).                 *)
(***************************************************************************)
NoRevivalAfterJoin ==
    [][(\E c \in Closers : closer[c] \in {"joined", "draining", "done"}) =>
           \A b \in Backends : healthy'[b] => healthy[b]]_vars

(* Whoever calls Shutdown returns from it, even in the middle of a round.  *)
ShutdownReturns ==
    \A c \in Closers : closer[c] = "calling" ~> closer[c] = "done"
=============================================================================
