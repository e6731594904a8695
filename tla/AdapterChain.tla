---------------------------- MODULE AdapterChain ----------------------------
(***************************************************************************)
(* One request across four programs: the user, the router's handler and    *)
(* its proxy.Client, the handler of adapter.NewHandler with the llm or the *)
(* triton client, and the model server.  Each program may give up, fail or *)
(* vanish on its own; a request that goes away closes its connection, and  *)
(* whoever reads at the other end may find out.                            *)
(*                                                                         *)
(* Timeouts are events that may come at any time: the router's ten seconds *)
(* (config.go:49) and the adapter's sixty are defaults.  One backend; what *)
(* concerns choosing one is in ChatServer.                                 *)
(***************************************************************************)
EXTENDS Integers

CONSTANTS
    Requests,   \* POST /v1/chat/completions that pass validation
    Clients     \* the clients an adapter may be built with

ASSUME ClientsAssumption == Clients \subseteq {"llm", "triton"}

VARIABLES
    user,       \* what each user sees
    handler,    \* where each request is in handleChatCompletions
    out,        \* local: what the handler will answer
    charged,    \* the requests whose decision is not released
    conn,       \* the connection from router to adapter of each request
    adapter,    \* where each request is in the adapter's /infer
    reply,      \* what the adapter wrote to the connection
    link,       \* the connection from adapter to model server
    model,      \* what the model server does, or did, for each request
    process,    \* the router's process
    healthy,    \* the backend's flag
    client      \* the adapter's client

router == <<user, handler, out, charged, process>>
below == <<adapter, reply, link, model>>
health == <<healthy, client>>
vars == <<router, conn, below, health>>

(* What a model server may send: a text or a blank text; under Triton also *)
(* an object {"b64": s}, s with something in it or of blanks alone; and    *)
(* what is an error in itself: no choices or outputs, an empty s, a body   *)
(* that does not decode, a status of 400 or more.                          *)
Outcomes == {"text", "blank", "encoded", "encodedBlank", "bad"}

(* Mutant: the client does not look at the text. *)
AcceptedAny == Outcomes \ {"bad"}

(* What Generate returns without an error: the Triton client looks for     *)
(* blanks in a text only, and passes s on as it is, not decoded.           *)
Accepted ==
    {"text"} \cup IF client = "triton" THEN {"encoded", "encodedBlank"} ELSE {}

Connection == {"none", "open", "closed"}

TypeOK ==
    /\ user \in [Requests -> {"away", "waiting", "gone", "cut", "refused", "error"} \cup Outcomes]
    /\ handler \in [Requests -> {"idle", "select", "send", "await", "failed", "release",
                                 "flush", "done"}]
    /\ out \in [Requests -> {"none", "refused", "error"} \cup Accepted]
    /\ charged \subseteq Requests
    /\ conn \in [Requests -> Connection] /\ link \in [Requests -> Connection]
    /\ adapter \in [Requests -> {"idle", "call", "generate", "done"}]
    /\ reply \in [Requests -> {"none", "error"} \cup Accepted]
    /\ model \in [Requests -> {"idle", "working"} \cup Outcomes]
    /\ process \in {"serving", "closing", "exited"}
    /\ healthy \in BOOLEAN /\ client \in Clients

Init ==
    /\ user = [r \in Requests |-> "away"] /\ handler = [r \in Requests |-> "idle"]
    /\ out = [r \in Requests |-> "none"] /\ charged = {}
    /\ conn = [r \in Requests |-> "none"] /\ link = [r \in Requests |-> "none"]
    /\ adapter = [r \in Requests |-> "idle"] /\ reply = [r \in Requests |-> "none"]
    /\ model = [r \in Requests |-> "idle"]
    /\ process = "serving" /\ healthy = TRUE /\ client \in Clients

-----------------------------------------------------------------------------
(* The user sends a request, and may hang up. *)
Submit(r) ==
    /\ user[r] = "away" /\ process = "serving"
    /\ user' = [user EXCEPT ![r] = "waiting"]
    /\ handler' = [handler EXCEPT ![r] = "select"]
    /\ UNCHANGED <<out, charged, process, conn, below, health>>

HangUp(r) ==
    /\ user[r] = "waiting"
    /\ user' = [user EXCEPT ![r] = "gone"]
    /\ UNCHANGED <<handler, out, charged, process, conn, below, health>>

-----------------------------------------------------------------------------
(* The router's handler moves on. *)
Handler(r, from, to) ==
    /\ handler[r] = from
    /\ handler' = [handler EXCEPT ![r] = to]

(* Mutant: the decision is released at once, the defer is missing. *)
SelectUndeferred(r) ==
    /\ healthy
    /\ Handler(r, "select", "send")
    /\ UNCHANGED <<user, out, charged, process, conn, below, health>>

(* Select: a decision is charged, or 503. *)
Select(r) ==
    /\ IF healthy
       THEN Handler(r, "select", "send") /\ charged' = charged \cup {r} /\ UNCHANGED out
       ELSE /\ Handler(r, "select", "flush")
            /\ out' = [out EXCEPT ![r] = "refused"]
            /\ UNCHANGED charged
    /\ UNCHANGED <<user, process, conn, below, health>>

(* httpClient.Do reaches the adapter, or does not. *)
Send(r) ==
    /\ \/ /\ Handler(r, "send", "await")
          /\ conn' = [conn EXCEPT ![r] = "open"]
          /\ adapter' = [adapter EXCEPT ![r] = "call"]
       \/ Handler(r, "send", "failed") /\ UNCHANGED <<conn, adapter>>
    /\ UNCHANGED <<user, out, charged, process, reply, link, model, health>>

(* SendChatCompletion returns, and closes the connection (its transport    *)
(* may keep it, but no request is under way on it).                        *)
Receive(r) ==
    /\ conn[r] = "open" /\ reply[r] # "none"
    /\ IF reply[r] = "error"
       THEN Handler(r, "await", "failed") /\ UNCHANGED out
       ELSE Handler(r, "await", "release") /\ out' = [out EXCEPT ![r] = reply[r]]
    /\ conn' = [conn EXCEPT ![r] = "closed"]
    /\ UNCHANGED <<user, charged, process, below, health>>

(* Mutant: the client is built without a timeout. *)
RouterTimeoutNever(r) == FALSE

(* http.Client.Timeout, which covers the reading of the body and closes    *)
(* the connection.                                                         *)
RouterTimeout(r) ==
    /\ Handler(r, "await", "failed")
    /\ conn' = [conn EXCEPT ![r] = "closed"]
    /\ UNCHANGED <<user, out, charged, process, below, health>>

(* The request's context ends with its user; an error like any other.      *)
NoticeHangUp(r) ==
    /\ user[r] = "gone"
    /\ Handler(r, "send", "failed") \/ Handler(r, "await", "failed")
    /\ conn' = [conn EXCEPT ![r] = "closed"]
    /\ UNCHANGED <<user, out, charged, process, below, health>>

(* The connection is lost, also in the middle of the answer. *)
Lose(r) ==
    /\ conn[r] = "open"
    /\ conn' = [conn EXCEPT ![r] = "closed"]
    /\ UNCHANGED <<router, below, health>>

NoticeLoss(r) ==
    /\ conn[r] = "closed"
    /\ Handler(r, "await", "failed")
    /\ UNCHANGED <<user, out, charged, process, conn, below, health>>

(* backend.SetHealthy(false): 502. *)
Fail(r) ==
    /\ Handler(r, "failed", "release")
    /\ healthy' = FALSE
    /\ out' = [out EXCEPT ![r] = "error"]
    /\ UNCHANGED <<user, charged, process, conn, below, client>>

Release(r) ==
    /\ Handler(r, "release", "flush")
    /\ charged' = charged \ {r}
    /\ UNCHANGED <<user, out, process, conn, below, health>>

(* What was written is sent when the handler has returned. *)
Flush(r) ==
    /\ Handler(r, "flush", "done")
    /\ user' = [user EXCEPT ![r] = IF @ = "waiting" THEN out[r] ELSE @]
    /\ UNCHANGED <<out, charged, process, conn, below, health>>

-----------------------------------------------------------------------------
(* The adapter's handler ends with an answer, and with it the call it made;*)
(* written to a connection that is closed, the answer is lost.             *)
Respond(r, answer) ==
    /\ adapter' = [adapter EXCEPT ![r] = "done"]
    /\ link' = [link EXCEPT ![r] = "closed"]
    /\ reply' = [reply EXCEPT ![r] = IF conn[r] = "open" THEN answer ELSE @]
    /\ UNCHANGED <<router, conn, model, health>>

(* Generate reaches the model server, or does not: 502. *)
Call(r) ==
    /\ adapter[r] = "call"
    /\ \/ /\ adapter' = [adapter EXCEPT ![r] = "generate"]
          /\ link' = [link EXCEPT ![r] = "open"]
          /\ model' = [model EXCEPT ![r] = "working"]
          /\ UNCHANGED <<router, conn, reply, health>>
       \/ Respond(r, "error")

(* Mutant: what the model server sent is passed on as it is. *)
GenerateRaw(r) ==
    /\ adapter[r] = "generate" /\ model[r] \in Outcomes
    /\ Respond(r, model[r])

(* The model server's answer is taken, or is an error: 502. *)
Generate(r) ==
    /\ adapter[r] = "generate" /\ model[r] \in Outcomes
    /\ Respond(r, IF model[r] \in Accepted THEN model[r] ELSE "error")

(* Mutant: the client is built without a timeout. *)
TimesOutNever == FALSE

TimesOut == TRUE

AdapterTimeout(r) ==
    /\ adapter[r] = "generate" /\ TimesOut
    /\ Respond(r, "error")

(* The context of a request ends when its connection closes. *)
ContextDone(r) ==
    /\ adapter[r] \in {"call", "generate"} /\ conn[r] = "closed"
    /\ Respond(r, "error")

(* The adapter's process dies; another takes its place. *)
AdapterCrash ==
    /\ \E r \in Requests : adapter[r] \in {"call", "generate"}
    /\ adapter' = [r \in Requests |-> IF adapter[r] = "idle" THEN "idle" ELSE "done"]
    /\ link' = [r \in Requests |-> IF link[r] = "open" THEN "closed" ELSE link[r]]
    /\ conn' = [r \in Requests |-> IF conn[r] = "open" THEN "closed" ELSE conn[r]]
    /\ UNCHANGED <<router, reply, model, health>>

(* The model server ends its work; what it sends to nobody is lost.  Only  *)
(* Triton knows b64 values.                                                *)
Work(r, outcome) ==
    /\ model[r] = "working"
    /\ outcome \in {"encoded", "encodedBlank"} => client = "triton"
    /\ model' = [model EXCEPT ![r] = IF link[r] = "open" THEN outcome ELSE "idle"]
    /\ UNCHANGED <<router, conn, adapter, reply, link, health>>

-----------------------------------------------------------------------------
(* The prober stores a verdict (see HealthProber). *)
Probe(value) ==
    /\ process = "serving"
    /\ healthy' = value
    /\ UNCHANGED <<router, conn, below, client>>

-----------------------------------------------------------------------------
(* Shutdown has joined the prober and closes the listener. *)
CloseListener ==
    /\ process = "serving"
    /\ process' = "closing"
    /\ UNCHANGED <<user, handler, out, charged, conn, below, health>>

(* ListenAndServe has returned, so main returns, whatever Shutdown still   *)
(* waits for: the process ends and takes its connections with it.          *)
Exit ==
    /\ process = "closing"
    /\ process' = "exited" /\ charged' = {}
    /\ handler' = [r \in Requests |-> "done"]
    /\ conn' = [r \in Requests |-> IF conn[r] = "open" THEN "closed" ELSE conn[r]]
    /\ user' = [r \in Requests |-> IF user[r] = "waiting" THEN "cut" ELSE user[r]]
    /\ UNCHANGED <<out, below, health>>

Handle(r) ==
    \/ Select(r) \/ Send(r) \/ Receive(r) \/ RouterTimeout(r) \/ Fail(r)
    \/ Release(r) \/ Flush(r)
Adapt(r) == Call(r) \/ AdapterTimeout(r)

Next ==
    \/ \E r \in Requests :
        \/ Submit(r) \/ HangUp(r) \/ Handle(r) \/ NoticeHangUp(r) \/ Lose(r)
        \/ NoticeLoss(r) \/ Adapt(r) \/ Generate(r) \/ ContextDone(r)
        \/ \E outcome \in Outcomes : Work(r, outcome)
    \/ AdapterCrash
    \/ \E value \in BOOLEAN : Probe(value)
    \/ CloseListener \/ Exit

(* Goroutines run and timers fire.  Nothing is assumed of the model        *)
(* server, of the network, or of hang-ups being noticed.                   *)
Spec == Init /\ [][Next]_vars /\ \A r \in Requests : WF_vars(Handle(r)) /\ WF_vars(Adapt(r))

-----------------------------------------------------------------------------
(***************************************************************************)
(* Work is charged for while anyone waits for it: a request that the model *)
(* server works for and whose charge is gone has a closed connection, so   *)
(* that the adapter is told to stop; the counters of least_pending ignore  *)
(* only work that was given up (server.go:208, client.go:110).             *)
(***************************************************************************)
ChargeCoversWork ==
    \A r \in Requests : link[r] = "open" /\ r \notin charged => conn[r] = "closed"

(***************************************************************************)
(* No success is reported that the model server did not give: a user who   *)
(* is told 200 gets what the model server sent at the end of its work for  *)
(* this request, whole, and that was no error and no blank text            *)
(* (llm/client.go:91-114, triton/client.go:122-141).  It is not always the *)
(* text that was generated: a Triton b64 value is handed on in base64, and *)
(* may be blank, as triton/client.go:135 only compares it with "".         *)
(***************************************************************************)
SuccessIsEarned ==
    \A r \in Requests :
        user[r] \in Outcomes =>
            /\ user[r] = model[r] /\ user[r] \notin {"blank", "bad"}
            /\ client = "llm" => user[r] = "text"

(* What ChargeCoversWork rests on: the charge is held, and the connection  *)
(* open, in certain stages only, and below an open link the adapter works. *)
StagesInOrder ==
    \A r \in Requests :
        /\ user[r] = "away" => handler[r] = "idle" \/ process = "exited"
        /\ r \in charged <=> handler[r] \in {"send", "await", "failed", "release"}
        /\ conn[r] = "open" => handler[r] = "await"
        /\ handler[r] \in {"idle", "select", "send"} => conn[r] = "none"
        /\ conn[r] = "none" => adapter[r] = "idle"
        /\ link[r] = "open" => adapter[r] = "generate"

(* What SuccessIsEarned rests on: an answer is the model server's, which   *)
(* has ended its work, at each place it passes.                            *)
AnswersInOrder ==
    \A r \in Requests :
        /\ handler[r] \in {"release", "flush"} => out[r] # "none"
        /\ \A answer \in {reply[r], out[r], user[r]} :
             answer \in Outcomes =>
                adapter[r] = "done" /\ answer = model[r] /\ answer \in Accepted

(***************************************************************************)
(* A user who waits gets an answer, or sees the connection end with the    *)
(* router, whatever adapter, network and model server do (client.go:68).   *)
(***************************************************************************)
UserHears == \A r \in Requests : user[r] = "waiting" ~> user[r] # "waiting"

(***************************************************************************)
(* A request that the router is done with, because it was answered, given  *)
(* up or taken down by the router's exit, does not occupy the adapter for  *)
(* ever, even if nobody tells it (vllm-adapter/main.go:17).                *)
(***************************************************************************)
WorkStops ==
    \A r \in Requests :
        handler[r] = "done" ~> adapter[r] \in {"idle", "done"} /\ link[r] # "open"
=============================================================================
