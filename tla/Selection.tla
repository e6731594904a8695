----------------------------- MODULE Selection -----------------------------
(***************************************************************************)
(* What router.Strategy.Select promises its caller, whatever the strategy. *)
(*                                                                         *)
(* A call looks at one list of backends, the list installed when it began. *)
(* It may return a backend of that list which was healthy at some instant  *)
(* of the call, and it may fail with ErrNoHealthyBackend only when every   *)
(* backend of that list was unhealthy at some instant of the call (not     *)
(* necessarily the same one: nothing freezes the health flags).            *)
(***************************************************************************)
CONSTANTS
    Backends,    \* the *Backend objects
    Requests,    \* the calls of Select, one per request
    Lists        \* the backend sets a strategy may be given

VARIABLES
    healthy,     \* Backend.healthy
    listed,      \* the set of backends the strategy holds
    stage,       \* idle -> selecting -> routed (-> released) or refused
    offered,     \* the list a call looks at
    wasUp,       \* history: backends seen healthy at an instant of the call
    wasDown,     \* history: backends seen unhealthy at an instant of the call
    pick         \* the backends returned to a call: none or one

vars == <<healthy, listed, stage, offered, wasUp, wasDown, pick>>

Stages == {"idle", "selecting", "routed", "released", "refused"}

TypeOK ==
    /\ healthy \in [Backends -> BOOLEAN]
    /\ listed \in SUBSET Backends
    /\ stage \in [Requests -> Stages]
    /\ offered \in [Requests -> SUBSET Backends]
    /\ wasUp \in [Requests -> SUBSET Backends]
    /\ wasDown \in [Requests -> SUBSET Backends]
    /\ pick \in [Requests -> SUBSET Backends]

Up   == {b \in Backends : healthy[b]}
Down == {b \in Backends : ~healthy[b]}

Init ==
    /\ healthy = [b \in Backends |-> TRUE]
    /\ listed \in Lists
    /\ stage = [r \in Requests |-> "idle"]
    /\ offered = [r \in Requests |-> {}]
    /\ wasUp = [r \in Requests |-> {}]
    /\ wasDown = [r \in Requests |-> {}]
    /\ pick = [r \in Requests |-> {}]

-----------------------------------------------------------------------------
(* What one flag change adds to the histories of the calls under way. *)
Seen(history, b) ==
    [r \in Requests |-> IF stage[r] = "selecting" THEN history[r] \cup {b}
                                                  ELSE history[r]]

(* The health prober or a failed request writes the flag of b. *)
SetHealthy(b, value) ==
    /\ healthy' = [healthy EXCEPT ![b] = value]
    /\ wasUp'   = IF value THEN Seen(wasUp, b) ELSE wasUp
    /\ wasDown' = IF value THEN wasDown ELSE Seen(wasDown, b)
    /\ UNCHANGED <<listed, stage, offered, pick>>

SetBackends(list) ==
    /\ listed' = list
    /\ UNCHANGED <<healthy, stage, offered, wasUp, wasDown, pick>>

(* A call returns, and with it ends what it was offered and has seen. *)
Return(r, to) ==
    /\ stage'   = [stage EXCEPT ![r] = to]
    /\ offered' = [offered EXCEPT ![r] = {}]
    /\ wasUp'   = [wasUp EXCEPT ![r] = {}]
    /\ wasDown' = [wasDown EXCEPT ![r] = {}]

(* A call of Select begins: it reads the list. *)
Begin(r) ==
    /\ stage[r] = "idle"
    /\ stage'   = [stage EXCEPT ![r] = "selecting"]
    /\ offered' = [offered EXCEPT ![r] = listed]
    /\ wasUp'   = [wasUp EXCEPT ![r] = Up]
    /\ wasDown' = [wasDown EXCEPT ![r] = Down]
    /\ UNCHANGED <<healthy, listed, pick>>

(* It returns a decision for b. *)
Route(r, b) ==
    /\ stage[r] = "selecting"
    /\ b \in offered[r] \cap wasUp[r]
    /\ Return(r, "routed")
    /\ pick' = [pick EXCEPT ![r] = {b}]
    /\ UNCHANGED <<healthy, listed>>

(* It returns ErrNoHealthyBackend. *)
Refuse(r) ==
    /\ stage[r] = "selecting"
    /\ offered[r] \subseteq wasDown[r]
    /\ Return(r, "refused")
    /\ UNCHANGED <<healthy, listed, pick>>

(* The caller releases the decision. *)
Release(r) ==
    /\ stage[r] = "routed"
    /\ stage' = [stage EXCEPT ![r] = "released"]
    /\ UNCHANGED <<healthy, listed, offered, wasUp, wasDown, pick>>

Next ==
    \/ \E b \in Backends, value \in BOOLEAN : SetHealthy(b, value)
    \/ \E list \in Lists : SetBackends(list)
    \/ \E r \in Requests :
        \/ Begin(r)
        \/ \E b \in Backends : Route(r, b)
        \/ Refuse(r)
        \/ Release(r)

Spec == Init /\ [][Next]_vars
=============================================================================
