------------------------------ MODULE KVAware ------------------------------
(***************************************************************************)
(* The strategy kv_aware: a call first asks the affinity store which       *)
(* backend answered its prompt before, and goes there if that backend is   *)
(* listed and up; else it falls back to the scan of least_pending, over    *)
(* the list and the map it copied before the lookup.                       *)
(*                                                                         *)
(* The scan, the counters and SetBackends are LoadStrategy's (a call that  *)
(* has entered and is still to take a ticket is at pc "ticket" there); the *)
(* store is AffinityStore, so whatever implements that will do.  Backends  *)
(* have distinct names, and a backend stands for its name.                 *)
(***************************************************************************)
EXTENDS LoadStrategy

CONSTANTS
    Keys,         \* the cache keys
    CacheKey      \* SelectionInput.CacheKey of each call; None: empty, or no store

ASSUME KeysAssumption == CacheKey \in [Requests -> Keys \cup {None}] /\ None \notin Keys
ASSUME UnitCharge == ~Weighted

VARIABLES
    pref,         \* the store: the preference of each key
    lookup,       \* the call of PreferredBackend in each call of Select
    key,          \* its key
    answer,       \* local: backendName
    offered,      \* history: preferences of the key during the lookup
    tried,        \* how the attempt at the preferred backend went
    cacheHit      \* Decision.CacheHit

store == <<pref, lookup, key, answer, offered>>
kvVars == <<vars, store, tried, cacheHit>>

Store == INSTANCE AffinityStore WITH
    Callers <- Requests, Names <- Backends, stage <- lookup

(* A call that goes to its preferred backend has its counter in its map,   *)
(* and only a decision is a cache hit.                                     *)
KVTypeOK ==
    /\ TypeOK
    /\ Store!TypeOK
    /\ tried \in [Requests -> {"not yet", "warm", "cold"}]
    /\ cacheHit \in [Requests -> BOOLEAN]
    /\ \A r \in Requests :
        /\ tried[r] = "warm" => answer[r] \in DOMAIN snap[r]
        /\ cacheHit[r] => pc[r] \in {"routed", "released"}

KVInit ==
    /\ Init
    /\ Store!Init
    /\ tried = [r \in Requests |-> "not yet"]
    /\ cacheHit = [r \in Requests |-> FALSE]

-----------------------------------------------------------------------------
(* Other requests succeed, here or at another router, and entries expire.  *)
Affinity ==
    /\ \/ \E k \in Keys, b \in Backends : Store!Remember(k, b)
       \/ \E ks \in SUBSET Keys : Store!Forget(ks)
    /\ UNCHANGED <<vars, tried, cacheHit>>

(* What surrounds a call: flags, new lists, releases.                      *)
Surroundings ==
    /\ \/ \E b \in Flaky, value \in BOOLEAN : SetHealthy(b, value)
       \/ \E l \in Lists : SetBackends(l)
       \/ \E r \in Requests : Release(r)
    /\ UNCHANGED <<store, tried, cacheHit>>

(* Select reads the list and the map; an empty list is an error at once.   *)
KVEnter(r) ==
    /\ Enter(r) \/ RefuseEmpty(r)
    /\ UNCHANGED <<store, tried, cacheHit>>

(* PreferredBackend is called, for a call that has a key. *)
Ask(r) ==
    /\ pc[r] = "ticket" /\ list[r] # << >>
    /\ CacheKey[r] # None /\ tried[r] = "not yet"
    /\ Store!Lookup(r, CacheKey[r])
    /\ UNCHANGED <<vars, tried, cacheHit>>

(* It names a backend. *)
Named(r) ==
    /\ \E b \in Backends : Store!Hit(r, b)
    /\ UNCHANGED <<vars, tried, cacheHit>>

(* It misses, or fails: an error counts as a miss. *)
Unnamed(r) ==
    /\ Store!Miss(r)
    /\ tried' = [tried EXCEPT ![r] = "cold"]
    /\ UNCHANGED <<vars, cacheHit>>

(* Mutants: the name is looked up in the map of all backends there ever    *)
(* were; the loop breaks at the first name that differs; the flag is not   *)
(* consulted.                                                              *)
FitUnlisted(r) == healthy[answer[r]]
FitFirst(r)    == answer[r] = Head(list[r]) /\ healthy[answer[r]]
FitDown(r)     == answer[r] \in Listed(list[r]) \cap DOMAIN snap[r]

(* The backend of that name is in the copied list, is up, has a counter. *)
Fit(r) == answer[r] \in Listed(list[r]) \cap DOMAIN snap[r] /\ healthy[answer[r]]

(* Mutant: the call waits for its preferred backend to come up. *)
CheckPreferredWaits(r) ==
    /\ lookup[r] = "hit" /\ tried[r] = "not yet" /\ Fit(r)
    /\ tried' = [tried EXCEPT ![r] = "warm"]
    /\ UNCHANGED <<vars, store, cacheHit>>

(* The loop that looks for the preferred backend. *)
CheckPreferred(r) ==
    /\ lookup[r] = "hit" /\ tried[r] = "not yet"
    /\ tried' = [tried EXCEPT ![r] = IF Fit(r) THEN "warm" ELSE "cold"]
    /\ UNCHANGED <<vars, store, cacheHit>>

(* The call returns: the locals of its lookup die. *)
Leave(r) ==
    /\ tried' = [tried EXCEPT ![r] = "not yet"]
    /\ IF lookup[r] = "idle" THEN UNCHANGED store ELSE Store!Leave(r)

Preferred(r) == <<answer[r], snap[r][answer[r]]>>

(* Mutant: a cache hit is not charged. *)
JoinFree(r) ==
    /\ pc[r] = "ticket" /\ tried[r] = "warm"
    /\ held' = [held EXCEPT ![r] = Preferred(r)]
    /\ Return(r, "routed") /\ Leave(r)
    /\ drift' = [Moved(r) EXCEPT ![r] = 0]
    /\ cacheHit' = [cacheHit EXCEPT ![r] = TRUE]
    /\ UNCHANGED <<healthy, strategy, count, calm>>

(* load.Add(1) on the preferred backend's counter: no ticket, no scan.     *)
Join(r) ==
    /\ pc[r] = "ticket" /\ tried[r] = "warm"
    /\ count' = [count EXCEPT ![Preferred(r)] = @ + Charge(r)]
    /\ held' = [held EXCEPT ![r] = Preferred(r)]
    /\ Return(r, "routed") /\ Leave(r)
    /\ drift' = [Moved(r) EXCEPT ![r] = 0]
    /\ cacheHit' = [cacheHit EXCEPT ![r] = TRUE]
    /\ UNCHANGED <<healthy, strategy, calm>>

(* selectLeastPending starts, with a ticket of its own. *)
FallBack(r) ==
    /\ tried[r] = "cold" \/ CacheKey[r] = None
    /\ TakeTicket(r) \/ Panic(r)
    /\ UNCHANGED <<store, tried, cacheHit>>

Scan(r) ==
    /\ CheckHealth(r) \/ Weigh(r)
    /\ UNCHANGED <<store, tried, cacheHit>>

(* The scan's decision, or its error. *)
EndScan(r) ==
    /\ Acquire(r) \/ Refuse(r)
    /\ Leave(r)
    /\ UNCHANGED cacheHit

KVStep(r) == \/ KVEnter(r)
             \/ Ask(r)
             \/ Named(r)
             \/ Unnamed(r)
             \/ CheckPreferred(r)
             \/ Join(r)
             \/ FallBack(r)
             \/ Scan(r)
             \/ EndScan(r)

KVNext == Affinity \/ Surroundings \/ \E r \in Requests : KVStep(r)

KVSpec == KVInit /\ [][KVNext]_kvVars

(* A goroutine in Select runs on; a store answers or gives up: the one in  *)
(* memory takes no lock for long, and the Redis client has a timeout.      *)
KVFairSpec == KVSpec /\ \A r \in Requests : WF_kvVars(KVStep(r))

-----------------------------------------------------------------------------
(***************************************************************************)
(* The warm backend serves: if the store named a backend which was in the  *)
(* call's list and up for the whole of the call, the decision goes there   *)
(* and says it is a cache hit; and a cache hit always goes to the backend  *)
(* that was named, which was up during the call (kvaware.go:57-76).        *)
(***************************************************************************)
WarmBackendServes ==
    [][\A r \in Requests : pc[r] \in Working /\ pc'[r] \notin Working =>
        LET warm == answer[r] \in Listed(list[r]) \ wasDown[r]
        IN  /\ warm => cacheHit'[r]
            /\ cacheHit'[r] => answer[r] \in wasUp[r] /\ held'[r][1] = answer[r]]_kvVars

(***************************************************************************)
(* What makes that inductive.  A lookup belongs to a call under way, and   *)
(* an answer to a lookup that hit.  A call starts to scan only once its    *)
(* attempt has failed, or when it has no key; an attempt succeeds on a     *)
(* listed backend that was up, and fails on one that is not listed or was  *)
(* down.                                                                   *)
(***************************************************************************)
Attempt(r) ==
    /\ lookup[r] # "idle" =>
        pc[r] \in Working /\ list[r] # << >> /\ CacheKey[r] # None
    /\ lookup[r] \in {"idle", "looking"} => tried[r] = "not yet"
    /\ lookup[r] = "hit" <=> answer[r] # None
    /\ tried[r] = "not yet" =>
        pc[r] \notin {"check", "weigh", "panicked"} \/ CacheKey[r] = None
    /\ tried[r] = "warm" =>
        /\ pc[r] = "ticket" /\ lookup[r] = "hit"
        /\ answer[r] \in Listed(list[r]) \cap wasUp[r]
    /\ tried[r] = "cold" => answer[r] \notin Listed(list[r]) \ wasDown[r]

Attempts == \A r \in Requests : Attempt(r)

(***************************************************************************)
(* Every call returns or panics, whatever the store answers and however    *)
(* the flags flip (kvaware.go:54-82).                                      *)
(***************************************************************************)
KVSelectReturns ==
    \A r \in Requests :
        pc[r] = "ticket" ~> pc[r] \in {"routed", "refused", "released", "panicked"}
=============================================================================
