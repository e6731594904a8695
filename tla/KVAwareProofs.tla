--------------------------- MODULE KVAwareProofs ---------------------------
(***************************************************************************)
(* Theorems about KVAware, for any backends, lists, calls and keys, and    *)
(* whatever the affinity store answers.  All a call does is a step of      *)
(* LoadStrategy or nothing there, but for the decision of a cache hit.     *)
(***************************************************************************)
EXTENDS KVAware, LoadStrategyProofs

(* The types that are KVAware's own. *)
KVTypes ==
    /\ Store!TypeOK
    /\ tried \in [Requests -> {"not yet", "warm", "cold"}]
    /\ cacheHit \in [Requests -> BOOLEAN]
    /\ \A r \in Requests : cacheHit[r] => pc[r] \in {"routed", "released"}

(* A hit is a decision, on the counter that the call's map has for the     *)
(* preferred backend.                                                      *)
LEMMA JoinDecides ==
  ASSUME Coherent, MapsListed, Attempts, NEW r \in Requests, Join(r)
  PROVE  /\ Preferred(r) \in Counters /\ Decide(r, Preferred(r))
         /\ Preferred(r)[1] = answer[r]
         /\ answer[r] \in Listed(list[r]) \cap wasUp[r] /\ answer[r] \in DOMAIN snap[r]
<1>1. pc[r] \in Working /\ answer[r] \in Listed(list[r]) \cap wasUp[r]
  BY DEF Join, Attempts, Attempt, Working
<1>2. answer[r] \in DOMAIN snap[r]
  BY <1>1 DEF MapsListed
<1>3. Preferred(r) \in Counters
  BY <1>2 DEF Coherent, TypeOK, Maps, Counters, Preferred
<1>4. Decide(r, Preferred(r))
  BY <1>1 DEF Join, Decide
<1>5. QED
  BY <1>1, <1>2, <1>3, <1>4 DEF Preferred

(* The other steps are steps of LoadStrategy, or none. *)
LEMMA StepUnderneath ==
  ASSUME [KVNext]_kvVars
  PROVE  [Next]_vars \/ \E r \in Requests : Join(r)
<1>1. CASE Affinity
  BY <1>1 DEF Affinity
<1>2. CASE Surroundings
  BY <1>2 DEF Surroundings, Next
<1>3. ASSUME NEW r \in Requests, KVEnter(r)
      PROVE  Next
  BY <1>3 DEF KVEnter, Next, Step
<1>4. ASSUME NEW r \in Requests, Ask(r) \/ Named(r) \/ Unnamed(r) \/ CheckPreferred(r)
      PROVE  UNCHANGED vars
  BY <1>4 DEF Ask, Named, Unnamed, CheckPreferred
<1>5. ASSUME NEW r \in Requests, FallBack(r)
      PROVE  Next
  BY <1>5 DEF FallBack, Next, Step
<1>6. ASSUME NEW r \in Requests, Scan(r)
      PROVE  Next
  BY <1>6 DEF Scan, Next, Step
<1>7. ASSUME NEW r \in Requests, EndScan(r)
      PROVE  Next
  BY <1>7 DEF EndScan, Next, Step
<1>8. CASE UNCHANGED kvVars
  BY <1>8 DEF kvVars
<1>9. QED
  BY <1>1, <1>2, <1>3, <1>4, <1>5, <1>6, <1>7, <1>8 DEF KVNext, KVStep

(* What LoadStrategy proves of its steps holds of a cache hit too. *)
LEMMA JoinScanning ==
  ASSUME Scanning, Attempts, NEW r \in Requests, Join(r)
  PROVE  Scanning'
<1>1. Coherent /\ OnlyBornKnown /\ FlagsSeen /\ MapsListed /\ ScanKnows /\ ScanBounded
  BY DEF Scanning, ScansTrue
<1>2. PICK t \in Counters : Decide(r, t) /\ t = Preferred(r) /\ answer[r] \in DOMAIN snap[r]
  BY <1>1, JoinDecides
<1>3. Return(r, "routed") /\ "routed" \in Stages \ Working /\ UNCHANGED <<healthy, backends, loads>>
  BY <1>2 DEF Decide, Stages, Working, strategy
<1>4. Coherent'
  BY <1>1, <1>2, DecideCoherent
<1>5. OnlyBornKnown'
  <2>1. t[2] <= born[t[1]]
    BY <1>1, <1>2 DEF OnlyBornKnown, Preferred
  <2>2. QED
    BY <1>1, <1>2, <2>1, DecideOnlyBornKnown
<1>6. FlagsSeen' /\ MapsListed'
  BY <1>1, <1>3, ReturnFlagsSeen, ReturnMapsListed DEF Coherent
<1>7. ScanKnows' /\ ScanBounded'
  <2> SUFFICES ASSUME NEW q \in Requests PROVE Scans(q)'
    BY DEF ScanKnows, ScanBounded, Scans
  <2>1. Scans(q)
    BY <1>1 DEF ScanKnows, ScanBounded, Scans
  <2>2. QED
    BY <1>1, <1>2, <2>1, DecideScans
<1>8. QED
  BY <1>4, <1>5, <1>6, <1>7 DEF Scanning, ScansTrue

LEMMA KVStepScanning == Scanning /\ Attempts /\ [KVNext]_kvVars => Scanning'
BY StepUnderneath, StepScanning, JoinScanning

LEMMA KVStepLedger == Scanning /\ Attempts /\ Ledger /\ [KVNext]_kvVars => Ledger'
<1> SUFFICES ASSUME Scanning, Attempts, Ledger, [KVNext]_kvVars PROVE Ledger'
  OBVIOUS
<1>1. ASSUME NEW r \in Requests, Join(r)
      PROVE  Ledger'
  BY <1>1, JoinDecides, DecideLedger DEF Scanning, ScansTrue
<1>2. QED
  BY <1>1, StepUnderneath, StepLedger DEF Scanning

-----------------------------------------------------------------------------
LEMMA KVInitTyped == KVInit => KVTypes /\ Attempts
<1>1. KVInit => KVTypes
  BY DEF KVInit, KVTypes, Store!Init, Store!TypeOK
<1>2. KVInit => Attempts
  BY NoneAssumption, ListedNothing DEF KVInit, Init, Store!Init, Attempts, Attempt
<1>3. QED
  BY <1>1, <1>2

(* The store keeps its types. *)
LEMMA StoreTyped ==
  ASSUME Store!TypeOK,
         \/ \E k \in Keys, b \in Backends : Store!Remember(k, b)
         \/ \E ks \in SUBSET Keys : Store!Forget(ks)
         \/ \E r \in Requests, k \in Keys : Store!Lookup(r, k)
         \/ \E r \in Requests, b \in Backends : Store!Hit(r, b)
         \/ \E r \in Requests : Store!Miss(r) \/ Store!Leave(r)
         \/ UNCHANGED store
  PROVE  Store!TypeOK'
<1>1. ASSUME NEW k \in Keys, NEW b \in Backends, Store!Remember(k, b)
      PROVE  Store!TypeOK'
  BY <1>1 DEF Store!TypeOK, Store!Remember
<1>2. ASSUME NEW ks \in SUBSET Keys, Store!Forget(ks)
      PROVE  Store!TypeOK'
  BY <1>2 DEF Store!TypeOK, Store!Forget
<1>3. ASSUME NEW r \in Requests, NEW k \in Keys, Store!Lookup(r, k)
      PROVE  Store!TypeOK'
  BY <1>3 DEF Store!TypeOK, Store!Lookup
<1>4. ASSUME NEW r \in Requests, NEW b \in Backends, Store!Hit(r, b)
      PROVE  Store!TypeOK'
  BY <1>4 DEF Store!TypeOK, Store!Hit
<1>5. ASSUME NEW r \in Requests, Store!Miss(r)
      PROVE  Store!TypeOK'
  BY <1>5 DEF Store!TypeOK, Store!Miss
<1>6. ASSUME NEW r \in Requests, Store!Leave(r)
      PROVE  Store!TypeOK'
  BY <1>6 DEF Store!TypeOK, Store!Leave
<1>7. CASE UNCHANGED store
  BY <1>7 DEF Store!TypeOK, store
<1>8. QED
  BY <1>1, <1>2, <1>3, <1>4, <1>5, <1>6, <1>7

(* The locals of a lookup die with the call. *)
LEMMA LeaveClears ==
  ASSUME KVTypes, Attempts, NEW r \in Requests, Leave(r)
  PROVE  /\ Store!TypeOK' /\ tried' \in [Requests -> {"not yet", "warm", "cold"}]
         /\ lookup'[r] = "idle" /\ answer'[r] = None /\ tried'[r] = "not yet"
         /\ \A q \in Requests \ {r} : /\ lookup'[q] = lookup[q] /\ answer'[q] = answer[q]
                                      /\ tried'[q] = tried[q]
<1>1. tried' = [tried EXCEPT ![r] = "not yet"]
  BY DEF Leave
<1>2. CASE lookup[r] = "idle"
  <2>1. UNCHANGED store
    BY <1>2 DEF Leave
  <2>2. answer[r] = None
    BY <1>2 DEF Attempts, Attempt
  <2>3. QED
    BY <1>1, <1>2, <2>1, <2>2, StoreTyped DEF KVTypes, store
<1>3. CASE lookup[r] # "idle"
  <2>1. Store!Leave(r)
    BY <1>3 DEF Leave
  <2>2. QED
    BY <1>1, <2>1, StoreTyped DEF KVTypes, Store!TypeOK, Store!Leave
<1>4. QED
  BY <1>2, <1>3

-----------------------------------------------------------------------------
(* The attempt of a call that neither moves nor asks. *)
LEMMA AttemptFrame ==
  ASSUME NEW q \in Requests, Attempt(q), pc'[q] = pc[q], list'[q] = list[q],
         lookup'[q] = lookup[q], answer'[q] = answer[q], tried'[q] = tried[q],
         wasUp[q] \subseteq wasUp'[q], wasDown[q] \subseteq wasDown'[q]
  PROVE  Attempt(q)'
BY DEF Attempt

(* A call without a lookup, before its scan or after its return. *)
LEMMA AttemptOver ==
  ASSUME NEW q \in Requests, lookup'[q] = "idle", answer'[q] = None,
         tried'[q] = "not yet", pc'[q] \notin {"check", "weigh", "panicked"}
  PROVE  Attempt(q)'
BY DEF Attempt

(* The types and the attempts, across the steps that touch no call. *)
KVCoherent == KVTypes /\ Attempts

LEMMA AffinityCoherent ==
  ASSUME KVCoherent, Affinity
  PROVE  KVCoherent'
<1>1. UNCHANGED <<vars, tried, cacheHit, lookup, answer>>
  BY DEF Affinity, Store!Remember, Store!Forget
<1>2. Store!TypeOK'
  BY StoreTyped DEF Affinity, KVCoherent, KVTypes
<1>3. KVTypes'
  BY <1>1, <1>2 DEF KVCoherent, KVTypes, vars
<1>4. Attempts'
  BY <1>1, AttemptFrame DEF KVCoherent, Attempts, vars, locals, seen
<1>5. QED
  BY <1>3, <1>4 DEF KVCoherent

(* What a flag, a new list or a release leaves of a call. *)
Undisturbed(q) ==
    /\ list'[q] = list[q]
    /\ pc'[q] = pc[q] \/ (pc[q] = "routed" /\ pc'[q] = "released")
    /\ wasUp[q] \subseteq wasUp'[q] /\ wasDown[q] \subseteq wasDown'[q]

LEMMA SurroundingsCoherent ==
  ASSUME Coherent, KVCoherent, Surroundings
  PROVE  KVCoherent'
<1>1. UNCHANGED <<store, tried, cacheHit>>
  BY DEF Surroundings
<1>2. \A q \in Requests : Undisturbed(q)
  <2>1. ASSUME NEW b \in Flaky, NEW value \in BOOLEAN, SetHealthy(b, value)
        PROVE  \A q \in Requests : Undisturbed(q)
    BY <2>1 DEF SetHealthy, Seen, locals, Undisturbed, Coherent, TypeOK
  <2>2. ASSUME NEW l \in Lists, SetBackends(l)
        PROVE  \A q \in Requests : Undisturbed(q)
    BY <2>2 DEF SetBackends, seen, locals, Undisturbed
  <2>3. ASSUME NEW r \in Requests, Release(r)
        PROVE  \A q \in Requests : Undisturbed(q)
    BY <2>3 DEF Release, Unreleased, seen, locals, Coherent, TypeOK, Undisturbed
  <2>4. QED
    BY <2>1, <2>2, <2>3 DEF Surroundings
<1>3. KVTypes'
  <2>1. Store!TypeOK'
    BY <1>1, StoreTyped DEF KVCoherent, KVTypes
  <2>2. \A q \in Requests : cacheHit'[q] => pc'[q] \in {"routed", "released"}
    BY <1>1, <1>2 DEF KVCoherent, KVTypes, Undisturbed
  <2>3. QED
    BY <1>1, <2>1, <2>2 DEF KVCoherent, KVTypes
<1>4. ASSUME NEW q \in Requests
      PROVE  Attempt(q)'
  <2>1. Attempt(q) /\ Undisturbed(q)
    BY <1>2 DEF KVCoherent, Attempts
  <2>2. lookup'[q] = lookup[q] /\ answer'[q] = answer[q] /\ tried'[q] = tried[q]
    BY <1>1 DEF store
  <2>3. CASE pc'[q] = pc[q]
    BY <2>1, <2>2, <2>3, AttemptFrame DEF Undisturbed
  <2>4. CASE pc[q] = "routed" /\ pc'[q] = "released"
    <3>1. lookup[q] = "idle"
      BY <2>1, <2>4 DEF Attempt, Working
    <3>2. answer[q] = None /\ tried[q] = "not yet"
      BY <2>1, <3>1 DEF Attempt
    <3>3. QED
      BY <2>2, <2>4, <3>1, <3>2, AttemptOver
  <2>5. QED
    BY <2>1, <2>3, <2>4 DEF Undisturbed
<1>5. QED
  BY <1>3, <1>4 DEF KVCoherent, Attempts

-----------------------------------------------------------------------------
(* The steps of one call leave the attempts of the others alone. *)
Aside(q) ==
    /\ pc'[q] = pc[q] /\ list'[q] = list[q]
    /\ wasUp'[q] = wasUp[q] /\ wasDown'[q] = wasDown[q]
    /\ lookup'[q] = lookup[q] /\ answer'[q] = answer[q] /\ tried'[q] = tried[q]

LEMMA AttemptsKept ==
  ASSUME Attempts, NEW r \in Requests, Attempt(r)',
         \A q \in Requests \ {r} : Aside(q)
  PROVE  Attempts'
<1> SUFFICES ASSUME NEW q \in Requests \ {r} PROVE Attempt(q)'
  BY DEF Attempts
<1>1. Attempt(q) /\ Aside(q)
  BY DEF Attempts
<1>2. QED
  BY <1>1, AttemptFrame DEF Aside

LEMMA EnterKVCoherent ==
  ASSUME Coherent, KVCoherent, NEW r \in Requests, KVEnter(r)
  PROVE  KVCoherent'
<1>1. UNCHANGED <<store, tried, cacheHit>>
  BY DEF KVEnter
<1>2. lookup[r] = "idle" /\ answer[r] = None /\ tried[r] = "not yet"
  <2>1. lookup[r] = "idle"
    BY DEF KVCoherent, Attempts, Attempt, KVEnter, Enter, RefuseEmpty, Working
  <2>2. QED
    BY <2>1 DEF KVCoherent, Attempts, Attempt
<1>3. /\ pc[r] \notin {"routed", "released"} /\ pc'[r] \in {"ticket", "refused"}
      /\ \A q \in Requests \ {r} : /\ pc'[q] = pc[q] /\ list'[q] = list[q]
                                   /\ wasUp'[q] = wasUp[q] /\ wasDown'[q] = wasDown[q]
  BY DEF KVEnter, Enter, RefuseEmpty, Return, Coherent, TypeOK
<1>4. KVTypes'
  <2>1. Store!TypeOK'
    BY <1>1, StoreTyped DEF KVCoherent, KVTypes
  <2>2. \A q \in Requests : cacheHit'[q] => pc'[q] \in {"routed", "released"}
    BY <1>1, <1>3 DEF KVCoherent, KVTypes
  <2>3. QED
    BY <1>1, <2>1, <2>2 DEF KVCoherent, KVTypes
<1>5. Attempt(r)'
  BY <1>1, <1>2, <1>3, AttemptOver DEF store
<1>6. \A q \in Requests \ {r} : Aside(q)
  BY <1>1, <1>3 DEF Aside, store
<1>7. QED
  BY <1>4, <1>5, <1>6, AttemptsKept DEF KVCoherent

LEMMA AskKVCoherent ==
  ASSUME KVCoherent, NEW r \in Requests, Ask(r)
  PROVE  KVCoherent'
<1>1. /\ pc[r] = "ticket" /\ list[r] # << >> /\ CacheKey[r] # None /\ tried[r] = "not yet"
      /\ lookup[r] = "idle" /\ lookup' = [lookup EXCEPT ![r] = "looking"]
      /\ UNCHANGED <<vars, tried, cacheHit, answer>> /\ CacheKey[r] \in Keys
  BY KeysAssumption DEF Ask, Store!Lookup
<1>2. lookup'[r] = "looking" /\ \A q \in Requests \ {r} : lookup'[q] = lookup[q]
  BY <1>1 DEF KVCoherent, KVTypes, Store!TypeOK
<1>3. KVTypes'
  <2>1. Store!TypeOK'
    BY <1>1, StoreTyped DEF Ask, KVCoherent, KVTypes
  <2>2. QED
    BY <1>1, <2>1 DEF KVCoherent, KVTypes, vars
<1>4. Attempt(r)'
  BY <1>1, <1>2 DEF KVCoherent, Attempts, Attempt, Working, vars, locals
<1>5. \A q \in Requests \ {r} : Aside(q)
  BY <1>1, <1>2 DEF Aside, vars, locals, seen
<1>6. QED
  BY <1>3, <1>4, <1>5, AttemptsKept DEF KVCoherent

LEMMA NamedKVCoherent ==
  ASSUME KVCoherent, NEW r \in Requests, Named(r)
  PROVE  KVCoherent'
<1>1. PICK b \in Backends : Store!Hit(r, b)
  BY DEF Named
<1>2. /\ lookup[r] = "looking" /\ UNCHANGED <<vars, tried, cacheHit>>
      /\ lookup' = [lookup EXCEPT ![r] = "hit"] /\ answer' = [answer EXCEPT ![r] = b]
  BY <1>1 DEF Named, Store!Hit
<1>3. /\ lookup'[r] = "hit" /\ answer'[r] = b /\ b # None
      /\ \A q \in Requests \ {r} : lookup'[q] = lookup[q] /\ answer'[q] = answer[q]
  BY <1>2, NoneAssumption DEF KVCoherent, KVTypes, Store!TypeOK
<1>4. KVTypes'
  <2>1. Store!TypeOK'
    BY <1>1, StoreTyped DEF KVCoherent, KVTypes
  <2>2. QED
    BY <1>2, <2>1 DEF KVCoherent, KVTypes, vars
<1>5. Attempt(r)'
  BY <1>2, <1>3 DEF KVCoherent, Attempts, Attempt, vars, locals
<1>6. \A q \in Requests \ {r} : Aside(q)
  BY <1>2, <1>3 DEF Aside, vars, locals, seen
<1>7. QED
  BY <1>4, <1>5, <1>6, AttemptsKept DEF KVCoherent

LEMMA UnnamedKVCoherent ==
  ASSUME TypeOK, KVCoherent, NEW r \in Requests, Unnamed(r)
  PROVE  KVCoherent'
<1>1. /\ lookup[r] = "looking" /\ UNCHANGED <<vars, cacheHit, answer>>
      /\ lookup' = [lookup EXCEPT ![r] = "missed"] /\ tried' = [tried EXCEPT ![r] = "cold"]
  BY DEF Unnamed, Store!Miss
<1>2. /\ lookup'[r] = "missed" /\ tried'[r] = "cold"
      /\ \A q \in Requests \ {r} : lookup'[q] = lookup[q] /\ tried'[q] = tried[q]
  BY <1>1 DEF KVCoherent, KVTypes, Store!TypeOK
<1>3. KVTypes'
  <2>1. Store!TypeOK'
    BY StoreTyped DEF Unnamed, KVCoherent, KVTypes
  <2>2. QED
    BY <1>1, <2>1 DEF KVCoherent, KVTypes, vars
<1>4. Attempt(r)'
  <2>1. answer[r] = None /\ answer[r] \notin Listed(list[r])
    <3>1. answer[r] = None
      BY <1>1 DEF KVCoherent, Attempts, Attempt
    <3>2. Listed(list[r]) \subseteq Backends
      BY ListedIsBackends DEF TypeOK
    <3>3. QED
      BY <3>1, <3>2, NoneAssumption
  <2>2. QED
    BY <1>1, <1>2, <2>1 DEF KVCoherent, Attempts, Attempt, vars, locals
<1>5. \A q \in Requests \ {r} : Aside(q)
  BY <1>1, <1>2 DEF Aside, vars, locals, seen
<1>6. QED
  BY <1>3, <1>4, <1>5, AttemptsKept DEF KVCoherent

(* An attempt succeeds where the flag is up and fails where it is down, or *)
(* where the backend is not in the list.                                   *)
LEMMA CheckPreferredKVCoherent ==
  ASSUME Scanning, KVCoherent, NEW r \in Requests, CheckPreferred(r)
  PROVE  KVCoherent'
<1>1. /\ lookup[r] = "hit" /\ tried[r] = "not yet" /\ UNCHANGED <<vars, store, cacheHit>>
      /\ tried' = [tried EXCEPT ![r] = IF Fit(r) THEN "warm" ELSE "cold"]
  BY DEF CheckPreferred
<1>2. /\ tried'[r] = IF Fit(r) THEN "warm" ELSE "cold"
      /\ \A q \in Requests \ {r} : tried'[q] = tried[q]
  BY <1>1 DEF KVCoherent, KVTypes
<1>3. KVTypes'
  <2>1. Store!TypeOK'
    BY <1>1, StoreTyped DEF KVCoherent, KVTypes
  <2>2. QED
    BY <1>1, <2>1 DEF KVCoherent, KVTypes, vars
<1>4. pc[r] \in Working /\ CacheKey[r] # None /\ answer[r] # None
  BY <1>1 DEF KVCoherent, Attempts, Attempt
<1>5. pc[r] = "ticket"
  BY <1>1, <1>4 DEF KVCoherent, Attempts, Attempt, Working
<1>6. DOMAIN snap[r] = Listed(list[r]) /\ Listed(list[r]) \subseteq Backends
  BY <1>4, ListedIsBackends DEF Scanning, ScansTrue, MapsListed, Coherent, TypeOK
<1>7. /\ Fit(r) => answer[r] \in Listed(list[r]) \cap wasUp[r]
      /\ ~Fit(r) => answer[r] \notin Listed(list[r]) \ wasDown[r]
  BY <1>4, <1>6 DEF Fit, Scanning, ScansTrue, FlagsSeen
<1>8. Attempt(r)'
  <2>1. Attempt(r)
    BY DEF KVCoherent, Attempts
  <2>2. /\ pc'[r] = pc[r] /\ list'[r] = list[r] /\ wasUp'[r] = wasUp[r]
        /\ wasDown'[r] = wasDown[r] /\ lookup'[r] = lookup[r] /\ answer'[r] = answer[r]
    BY <1>1 DEF vars, locals, seen, store
  <2>3. Listed(list[r])' = Listed(list[r])
    BY <2>2 DEF Listed
  <2>4. /\ lookup[r] = "hit" /\ answer[r] # None /\ pc[r] = "ticket"
        /\ list[r] # << >> /\ CacheKey[r] # None /\ pc[r] \in Working
    BY <1>1, <1>4, <1>5, <2>1 DEF Attempt
  <2>5. tried'[r] # "not yet"
    BY <1>2
  <2>6. tried'[r] = "warm" => answer[r] \in Listed(list[r]) \cap wasUp[r]
    BY <1>2, <1>7
  <2>7. tried'[r] = "cold" => answer[r] \notin Listed(list[r]) \ wasDown[r]
    BY <1>2, <1>7
  <2>8. QED
    BY <2>2, <2>3, <2>4, <2>5, <2>6, <2>7 DEF Attempt, Working
<1>9. \A q \in Requests \ {r} : Aside(q)
  BY <1>1, <1>2 DEF Aside, vars, locals, seen, store
<1>10. QED
  BY <1>3, <1>8, <1>9, AttemptsKept DEF KVCoherent

(* A call that returns, by a hit or by its scan. *)
LEMMA LeaveKVCoherent ==
  ASSUME Coherent, KVCoherent, NEW r \in Requests, pc[r] \in Working, Leave(r),
         NEW to \in {"routed", "refused"}, Return(r, to),
         cacheHit' \in {cacheHit, [cacheHit EXCEPT ![r] = TRUE]},
         to = "routed" \/ cacheHit' = cacheHit
  PROVE  KVCoherent'
<1>1. to \in Stages \ Working
  BY DEF Stages, Working
<1>2. /\ pc'[r] = to
      /\ \A q \in Requests \ {r} : /\ pc'[q] = pc[q] /\ list'[q] = list[q]
                                   /\ wasUp'[q] = wasUp[q] /\ wasDown'[q] = wasDown[q]
  BY DEF Return, Coherent, TypeOK
<1>3. ~cacheHit[r]
  BY DEF KVCoherent, KVTypes, Working
<1>4. KVTypes'
  <2>1. cacheHit' \in [Requests -> BOOLEAN]
    BY DEF KVCoherent, KVTypes
  <2>2. \A q \in Requests : cacheHit'[q] => pc'[q] \in {"routed", "released"}
    BY <1>2, <1>3 DEF KVCoherent, KVTypes
  <2>3. QED
    BY <2>1, <2>2, LeaveClears DEF KVCoherent, KVTypes
<1>5. Attempt(r)'
  BY <1>2, LeaveClears, AttemptOver DEF KVCoherent
<1>6. \A q \in Requests \ {r} : Aside(q)
  BY <1>2, LeaveClears DEF KVCoherent, Aside
<1>7. QED
  BY <1>4, <1>5, <1>6, AttemptsKept DEF KVCoherent

(* A call that scans or panics: its attempt is over, or it makes none. *)
LEMMA ScanKVCoherent ==
  ASSUME Coherent, KVCoherent, NEW r \in Requests, FallBack(r) \/ Scan(r)
  PROVE  KVCoherent'
<1>1. UNCHANGED <<store, tried, cacheHit>>
  BY DEF FallBack, Scan
<1>2. /\ pc[r] \in Working /\ pc'[r] \in {"check", "weigh", "panicked"}
      /\ list' = list /\ wasUp' = wasUp /\ wasDown' = wasDown
      /\ \A q \in Requests \ {r} : pc'[q] = pc[q]
  BY DEF FallBack, TakeTicket, Panic, Draw, Scan, CheckHealth, Weigh, Working, seen,
     Coherent, TypeOK
<1>3. tried[r] # "not yet" \/ CacheKey[r] = None
  BY DEF KVCoherent, Attempts, Attempt, FallBack, Scan, CheckHealth, Weigh
<1>4. tried[r] # "warm"
  BY DEF KVCoherent, Attempts, Attempt, FallBack, Scan, CheckHealth, Weigh, Working
<1>5. KVTypes'
  <2>1. Store!TypeOK'
    BY <1>1, StoreTyped DEF KVCoherent, KVTypes
  <2>2. \A q \in Requests : cacheHit'[q] => pc'[q] \in {"routed", "released"}
    BY <1>1, <1>2 DEF KVCoherent, KVTypes, Working
  <2>3. QED
    BY <1>1, <2>1, <2>2 DEF KVCoherent, KVTypes
<1>6. Attempt(r)'
  BY <1>1, <1>2, <1>3, <1>4 DEF KVCoherent, Attempts, Attempt, Working, store
<1>7. \A q \in Requests \ {r} : Aside(q)
  BY <1>1, <1>2 DEF Aside, store
<1>8. QED
  BY <1>5, <1>6, <1>7, AttemptsKept DEF KVCoherent

(* The invariant of kv_aware: that of LoadStrategy, and the attempts. *)
KVScanning == Scanning /\ KVCoherent

LEMMA StepKVScanning == KVScanning /\ [KVNext]_kvVars => KVScanning'
<1> SUFFICES ASSUME Scanning, Coherent, TypeOK, KVCoherent, [KVNext]_kvVars
             PROVE  KVCoherent'
  BY KVStepScanning DEF KVScanning, KVCoherent, Scanning, Coherent
<1>1. ASSUME NEW r \in Requests, Join(r)
      PROVE  KVCoherent'
  BY <1>1, LeaveKVCoherent DEF Join, Working
<1>2. ASSUME NEW r \in Requests, EndScan(r)
      PROVE  KVCoherent'
  BY <1>2, LeaveKVCoherent DEF EndScan, Acquire, Refuse, Working
<1>3. ASSUME NEW r \in Requests, KVStep(r)
      PROVE  KVCoherent'
  BY <1>1, <1>2, <1>3, EnterKVCoherent, AskKVCoherent, NamedKVCoherent, UnnamedKVCoherent,
     CheckPreferredKVCoherent, ScanKVCoherent DEF KVStep
<1>4. CASE UNCHANGED kvVars
  <2>1. UNCHANGED <<vars, store, tried, cacheHit>>
    BY <1>4 DEF kvVars
  <2>2. KVTypes'
    BY <2>1, StoreTyped DEF KVCoherent, KVTypes, vars
  <2>3. Attempts'
    BY <2>1, AttemptFrame DEF KVCoherent, Attempts, vars, locals, seen, store
  <2>4. QED
    BY <2>2, <2>3 DEF KVCoherent
<1>5. QED
  BY <1>3, <1>4, AffinityCoherent, SurroundingsCoherent DEF KVNext

LEMMA InitKVScanning == KVInit => KVScanning
BY KVInitTyped, InitScanning DEF KVInit, KVScanning, KVCoherent

-----------------------------------------------------------------------------
(***************************************************************************)
(* The types are correct; the map of a call that goes to its preferred     *)
(* backend has its counter, and only a decision is a cache hit.            *)
(***************************************************************************)
THEOREM KVTypeCorrect == KVSpec => []KVTypeOK
<1>1. KVScanning => KVTypeOK
  <2> SUFFICES ASSUME KVScanning PROVE KVTypeOK
    OBVIOUS
  <2>1. TypeOK /\ KVTypes /\ Attempts /\ MapsListed
    BY DEF KVScanning, Scanning, ScansTrue, Coherent, KVCoherent
  <2>2. \A r \in Requests : tried[r] = "warm" => answer[r] \in DOMAIN snap[r]
    BY <2>1 DEF Attempts, Attempt, MapsListed, Working
  <2>3. QED
    BY <2>1, <2>2 DEF KVTypeOK, KVTypes
<1>2. QED
  BY <1>1, InitKVScanning, StepKVScanning, PTL DEF KVSpec

(***************************************************************************)
(* The ledger balances with cache hits among the decisions.                *)
(***************************************************************************)
THEOREM KVLedgerBalances == KVSpec => []LedgerBalance
<1> DEFINE IInv == KVScanning /\ Ledger
<1>1. KVInit => IInv
  BY InitKVScanning, InitLedger DEF KVInit
<1>2. IInv /\ [KVNext]_kvVars => IInv'
  BY StepKVScanning, KVStepLedger DEF KVScanning, KVCoherent
<1>3. IInv => LedgerBalance
  BY DEF Ledger
<1>4. QED
  BY <1>1, <1>2, <1>3, PTL DEF KVSpec

(***************************************************************************)
(* A routed backend was listed and up at an instant of the call, also when *)
(* it is the preferred one; a refusal still means that each listed backend *)
(* was down at an instant of the call.                                     *)
(***************************************************************************)
THEOREM KVImplementsSelection == KVSpec => ImplementsSelection
<1>1. KVInit => Abstraction!Init
  BY InitRefines DEF KVInit
<1>2. KVScanning /\ [KVNext]_kvVars => [Abstraction!Next]_Abstraction!vars
  <2> SUFFICES ASSUME KVScanning, [KVNext]_kvVars
               PROVE  [Abstraction!Next]_Abstraction!vars
    OBVIOUS
  <2>1. Scanning /\ Coherent /\ TypeOK /\ MapsListed /\ Attempts
    BY DEF KVScanning, Scanning, ScansTrue, Coherent, KVCoherent
  <2>2. ASSUME NEW r \in Requests, Join(r)
        PROVE  Abstraction!Next
    BY <2>1, <2>2, JoinDecides, DecisionRefines
  <2>3. QED
    BY <2>1, <2>2, StepUnderneath, StepRefines
<1>3. QED
  BY <1>1, <1>2, InitKVScanning, StepKVScanning, PTL
     DEF KVSpec, ImplementsSelection, Abstraction!Spec

(* What the promise says of a call that returns. *)
Warm(r) == answer[r] \in Listed(list[r]) \ wasDown[r]

Serves(r) ==
    /\ Warm(r) => cacheHit'[r]
    /\ cacheHit'[r] => answer[r] \in wasUp[r] /\ held'[r][1] = answer[r]

LEMMA HitServes ==
  ASSUME KVScanning, NEW r \in Requests, Join(r)
  PROVE  Serves(r)
<1>1. Coherent /\ TypeOK /\ MapsListed /\ Attempts /\ KVTypes
  BY DEF KVScanning, Scanning, ScansTrue, Coherent, KVCoherent
<1>2. cacheHit'[r] /\ held'[r] = Preferred(r)
  BY <1>1 DEF Join, KVTypes, TypeOK
<1>3. QED
  BY <1>1, <1>2, JoinDecides DEF Serves

LEMMA NoHitServes ==
  ASSUME KVScanning, NEW r \in Requests, RefuseEmpty(r) \/ Acquire(r) \/ Refuse(r),
         UNCHANGED cacheHit
  PROVE  Serves(r)
<1>1. TypeOK /\ Attempt(r) /\ KVTypes
  BY DEF KVScanning, Scanning, Coherent, KVCoherent, Attempts
<1>2. ~cacheHit'[r]
  BY <1>1 DEF KVTypes, RefuseEmpty, Acquire, Refuse
<1>3. ~Warm(r)
  <2>1. Listed(list[r]) \subseteq Backends
    BY <1>1, ListedIsBackends DEF TypeOK
  <2>2. answer[r] = None => ~Warm(r)
    BY <2>1, NoneAssumption DEF Warm
  <2>3. CASE RefuseEmpty(r)
    BY <2>3, ListedNothing DEF Warm, RefuseEmpty
  <2>4. CASE Acquire(r) \/ Refuse(r)
    <3>1. pc[r] = "check"
      BY <2>4 DEF Acquire, Refuse
    <3>2. CASE tried[r] = "not yet"
      <4>1. lookup[r] = "idle"
        BY <1>1, <3>1, <3>2 DEF Attempt
      <4>2. QED
        BY <1>1, <2>2, <4>1 DEF Attempt
    <3>3. CASE tried[r] # "not yet"
      BY <1>1, <3>1, <3>3 DEF Attempt, KVTypes, Warm
    <3>4. QED
      BY <3>2, <3>3
  <2>5. QED
    BY <2>3, <2>4
<1>4. QED
  BY <1>2, <1>3 DEF Serves

(* No other step ends a call. *)
LEMMA EndOfCall ==
  ASSUME TypeOK, [KVNext]_kvVars, NEW r \in Requests, pc[r] \in Working, pc'[r] \notin Working
  PROVE  Join(r) \/ ((RefuseEmpty(r) \/ Acquire(r) \/ Refuse(r)) /\ UNCHANGED cacheHit)
<1>1. ~Affinity /\ ~UNCHANGED kvVars
  BY DEF Affinity, kvVars, vars
<1>2. ~Surroundings
  <2>1. ASSUME NEW b \in Flaky, NEW value \in BOOLEAN, SetHealthy(b, value)
        PROVE  FALSE
    BY <2>1 DEF SetHealthy
  <2>2. ASSUME NEW l \in Lists, SetBackends(l)
        PROVE  FALSE
    BY <2>2 DEF SetBackends
  <2>3. ASSUME NEW q \in Requests, Release(q)
        PROVE  FALSE
    BY <2>3 DEF Release, Unreleased, TypeOK, Working
  <2>4. QED
    BY <2>1, <2>2, <2>3 DEF Surroundings
<1>3. PICK q \in Requests : KVStep(q)
  BY <1>1, <1>2 DEF KVNext
<1>4. q = r
  BY <1>3 DEF KVStep, KVEnter, Enter, RefuseEmpty, Ask, Named, Unnamed, CheckPreferred, Join,
     FallBack, TakeTicket, Panic, Draw, Scan, CheckHealth, Weigh, EndScan, Acquire, Refuse,
     Return, vars, TypeOK
<1>5. QED
  BY <1>3, <1>4 DEF KVStep, KVEnter, Enter, Ask, Named, Unnamed, CheckPreferred,
     FallBack, TakeTicket, Panic, Draw, Scan, CheckHealth, Weigh, EndScan, Working, vars,
     TypeOK

(***************************************************************************)
(* The warm backend serves, whatever the store answers and whatever the    *)
(* flags and the other calls do: a named backend that was listed and up    *)
(* for the whole call gets it, and a hit goes to the backend named.        *)
(***************************************************************************)
THEOREM WarmServes == KVSpec => WarmBackendServes
<1>1. KVScanning /\ [KVNext]_kvVars =>
        [\A r \in Requests : pc[r] \in Working /\ pc'[r] \notin Working =>
            LET warm == answer[r] \in Listed(list[r]) \ wasDown[r]
            IN  /\ warm => cacheHit'[r]
                /\ cacheHit'[r] => answer[r] \in wasUp[r] /\ held'[r][1] = answer[r]]_kvVars
  <2> SUFFICES ASSUME KVScanning, [KVNext]_kvVars, NEW r \in Requests,
                      pc[r] \in Working, pc'[r] \notin Working
               PROVE  Serves(r)
    BY DEF Serves, Warm
  <2>1. TypeOK
    BY DEF KVScanning, Scanning, Coherent
  <2>2. QED
    BY <2>1, EndOfCall, HitServes, NoHitServes
<1>2. QED
  BY <1>1, InitKVScanning, StepKVScanning, PTL DEF KVSpec, WarmBackendServes
=============================================================================
