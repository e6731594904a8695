-------------------------- MODULE ChatServerProofs --------------------------
(* Theorems about ChatServer and Reports, for any backends, requests, keys *)
(* and strategies, and any number of switches.                             *)
EXTENDS Reports, FiniteSetTheorems, TLAPS

(* A status that is not counted is one of two numbers throughout.          *)
USE DEF Rejections

(* A set that gains or loses one member. *)
LEMMA Joins ==
  ASSUME NEW X, NEW Y, NEW r, IsFiniteSet(X), r \notin X, Y = X \cup {r}
  PROVE  IsFiniteSet(Y) /\ Cardinality(Y) = Cardinality(X) + 1
BY FS_AddElement

LEMMA Leaves ==
  ASSUME NEW X, NEW Y, NEW r, IsFiniteSet(X), r \in X, Y = X \ {r}
  PROVE  IsFiniteSet(Y) /\ Cardinality(Y) = Cardinality(X) - 1 /\ Cardinality(X) > 0
<1>1. IsFiniteSet(Y) /\ Cardinality(Y) = Cardinality(X) - 1
  BY FS_RemoveElement
<1>2. Cardinality(X) \in Nat /\ Cardinality(X) # 0
  BY FS_CardinalityType, FS_EmptySet
<1>3. QED
  BY <1>1, <1>2

(* One more unit in one counter is one more in the sum. *)
LEMMA TotalPlusOne ==
  ASSUME NEW S, NEW f \in [S -> Nat], NEW x \in S, NEW g \in [S -> Nat],
         g[x] = f[x] + 1, \A y \in S : y # x => g[y] = f[y], IsFiniteSet(Units(f))
  PROVE  IsFiniteSet(Units(g)) /\ Total(g) = Total(f) + 1
<1> DEFINE u == <<x, f[x] + 1>>
<1>1. \A v : v \in Units(f) <=> \E y \in S : v \in {y} \X (1..f[y])
  BY DEF Units
<1>2. \A v : v \in Units(g) <=> \E y \in S : v \in {y} \X (1..g[y])
  BY DEF Units
<1>3. u \notin Units(f)
  BY <1>1
<1>4. \A v : v \in {x} \X (1..g[x]) <=> v \in {x} \X (1..f[x]) \/ v = u
  <2>1. 1..g[x] = (1..f[x]) \cup {f[x] + 1}
    OBVIOUS
  <2>2. QED
    BY <2>1
<1>5. \A y \in S : y # x => g[y] = f[y]
  OBVIOUS
<1>6. ASSUME NEW v PROVE v \in Units(g) <=> v \in Units(f) \/ v = u
  <2>1. CASE \E y \in S \ {x} : v \in {y} \X (1..g[y])
    BY <1>1, <1>2, <1>5, <2>1
  <2>2. CASE ~ \E y \in S \ {x} : v \in {y} \X (1..g[y])
    <3>1. v \in Units(g) <=> v \in {x} \X (1..g[x])
      BY <1>2, <2>2
    <3>2. v \in Units(f) <=> v \in {x} \X (1..f[x])
      BY <1>1, <1>5, <2>2
    <3>3. QED
      BY <1>4, <3>1, <3>2
  <2>3. QED
    BY <2>1, <2>2
<1>7. Units(g) = Units(f) \cup {u}
  BY <1>6
<1>8. QED
  BY <1>3, <1>7, Joins DEF Total

-----------------------------------------------------------------------------
(* What Select's contract does to the state it shares with the handler. *)
LEMMA SelCallTypes ==
  ASSUME Sel!TypeOK, NEW r \in Requests, Sel!Begin(r) \/ Sel!Refuse(r) \/ Sel!Release(r)
  PROVE  Sel!TypeOK'
<1> USE DEF Sel!TypeOK, Sel!Stages
<1>1. CASE Sel!Begin(r)
  BY <1>1 DEF Sel!Begin, Sel!Up, Sel!Down
<1>2. CASE Sel!Refuse(r)
  BY <1>2 DEF Sel!Refuse, Sel!Return
<1>3. CASE Sel!Release(r)
  BY <1>3 DEF Sel!Release
<1>4. QED
  BY <1>1, <1>2, <1>3

LEMMA SelRouteTypes ==
  ASSUME Sel!TypeOK, NEW r \in Requests, NEW b \in Backends, Sel!Route(r, b)
  PROVE  Sel!TypeOK'
BY DEF Sel!TypeOK, Sel!Stages, Sel!Route, Sel!Return

LEMMA SelFlagTypes ==
  ASSUME Sel!TypeOK, NEW b \in Backends, NEW value \in BOOLEAN, Sel!SetHealthy(b, value)
  PROVE  Sel!TypeOK'
BY DEF Sel!TypeOK, Sel!Stages, Sel!SetHealthy, Sel!Seen

LEMMA SelKept ==
  ASSUME Sel!TypeOK, UNCHANGED selection
  PROVE  Sel!TypeOK'
BY DEF Sel!TypeOK, selection

(* A request that holds a decision, or got an answer, has one backend. *)
LEMMA HasBackend ==
  ASSUME HandlersCoherent, NEW r \in Requests, pc[r] \in Inside \/ status[r] \in {200, 502}
  PROVE  BackendOf(r) \in Backends /\ pick[r] = {BackendOf(r)}
BY DEF HandlersCoherent, CallFits, BackendOf

(* Only accepted requests are counted or hold a decision. *)
LEMMA CountedAreAccepted ==
  ASSUME HandlersCoherent
  PROVE  /\ CountedStrategy \subseteq Accepted /\ CountedBackend \subseteq CountedStrategy
         /\ CountedLookup \subseteq CountedBackend /\ Timed \subseteq CountedLookup
         /\ UnderWay \subseteq CountedLookup /\ Failed \subseteq Timed
         /\ \A i \in Instances, b \in Backends : Holding(i, b) \subseteq Accepted
<1> USE DEF HandlersCoherent
<1>1. CountedStrategy \subseteq Accepted
  BY DEF StatusFits, CountedStrategy, Reached, Accepted
<1>2. /\ CountedBackend \subseteq CountedStrategy
      /\ CountedLookup \subseteq CountedBackend /\ Timed \subseteq CountedLookup
  BY DEF CountedBackend, CountedStrategy, CountedLookup, Timed, Reached
<1>3. UnderWay \subseteq CountedLookup
  BY DEF StatusFits, UnderWay, CountedLookup, Reached
<1>4. Failed \subseteq Timed
  BY DEF Failed, Timed, Reached
<1>5. ASSUME NEW i \in Instances, NEW b \in Backends PROVE Holding(i, b) \subseteq Accepted
  BY DEF StatusFits, CallFits, Inside, Holding, Accepted
<1>6. QED
  BY <1>1, <1>2, <1>3, <1>4, <1>5

LEMMA CountedAreFinite ==
  ASSUME HandlersCoherent, IsFiniteSet(Accepted)
  PROVE  /\ IsFiniteSet(CountedStrategy) /\ IsFiniteSet(CountedBackend)
         /\ IsFiniteSet(CountedLookup) /\ IsFiniteSet(Timed)
         /\ IsFiniteSet(UnderWay) /\ IsFiniteSet(Failed)
         /\ \A s : IsFiniteSet(Under(s, CountedStrategy)) /\ IsFiniteSet(Under(s, CountedLookup))
         /\ \A b : IsFiniteSet(To(b, CountedBackend)) /\ IsFiniteSet(To(b, Timed))
         /\ \A i \in Instances, b \in Backends : IsFiniteSet(Holding(i, b))
<1>1. IsFiniteSet(CountedStrategy)
  BY CountedAreAccepted, FS_Subset
<1>2. IsFiniteSet(CountedBackend)
  BY <1>1, CountedAreAccepted, FS_Subset
<1>3. IsFiniteSet(CountedLookup)
  BY <1>2, CountedAreAccepted, FS_Subset
<1>4. IsFiniteSet(Timed) /\ IsFiniteSet(UnderWay)
  BY <1>3, CountedAreAccepted, FS_Subset
<1>5. IsFiniteSet(Failed)
  BY <1>4, CountedAreAccepted, FS_Subset
<1>6. ASSUME NEW s
      PROVE  IsFiniteSet(Under(s, CountedStrategy)) /\ IsFiniteSet(Under(s, CountedLookup))
  <2>1. Under(s, CountedStrategy) \in SUBSET CountedStrategy
        /\ Under(s, CountedLookup) \in SUBSET CountedLookup
    BY DEF Under
  <2>2. QED
    BY <1>1, <1>3, <2>1, FS_Subset
<1>7. ASSUME NEW b
      PROVE  IsFiniteSet(To(b, CountedBackend)) /\ IsFiniteSet(To(b, Timed))
  <2>1. To(b, CountedBackend) \in SUBSET CountedBackend /\ To(b, Timed) \in SUBSET Timed
    BY DEF To
  <2>2. QED
    BY <1>2, <1>4, <2>1, FS_Subset
<1>8. ASSUME NEW i \in Instances, NEW b \in Backends PROVE IsFiniteSet(Holding(i, b))
  BY CountedAreAccepted, FS_Subset
<1>9. QED
  BY <1>1, <1>2, <1>3, <1>4, <1>5, <1>6, <1>7, <1>8

-----------------------------------------------------------------------------
(* The inductive invariant: the types, how a handler's locals fit together, *)
(* and what every counter has counted.                                     *)
Ledgers == TypeOK /\ HandlersCoherent /\ InstanceLedger /\ EveryCounterCounts

(* A step of r leaves what the other handlers hold alone. *)
OthersKept(r) == \A q \in Requests \ {r} :
    /\ pc'[q] = pc[q] /\ status'[q] = status[q] /\ using'[q] = using[q]
    /\ call'[q] = call[q] /\ pick'[q] = pick[q]

(* An accepted request that has asked for the strategy uses a real object. *)
LEMMA UsesObject ==
  ASSUME HandlersCoherent, NEW r \in Requests, pc[r] \notin {"receive", "strategy", "done"}
  PROVE  /\ using[r] \in Uses /\ using[r].name \in Strategies
         /\ using[r].instance \in Instances /\ TypeOf(r) = using[r].name
BY DEF HandlersCoherent, StatusFits, UsingFits, TypeOf, Uses

LEMMA CoherentStep ==
  ASSUME HandlersCoherent, UNCHANGED strategy, NEW r \in Requests, OthersKept(r),
         (StatusFits(r) /\ CallFits(r) /\ UsingFits(r))'
  PROVE  HandlersCoherent'
<1>1. active' = active /\ kind' = kind
  BY DEF strategy
<1>2. ASSUME NEW q \in Requests, q # r PROVE (StatusFits(q) /\ CallFits(q) /\ UsingFits(q))'
  BY <1>1, <1>2 DEF OthersKept, HandlersCoherent, StatusFits, CallFits, UsingFits, Named
<1>3. QED
  BY <1>1, <1>2 DEF HandlersCoherent

(* A counter that did not move has the same requests to count. *)
LEMMA CountersKept ==
  ASSUME EveryCounterCounts, UNCHANGED counters,
         Accepted' = Accepted, CountedStrategy' = CountedStrategy,
         CountedBackend' = CountedBackend, CountedLookup' = CountedLookup, Timed' = Timed,
         UnderWay' = UnderWay, Failed' = Failed,
         \A q \in CountedStrategy : using'[q] = using[q],
         \A q \in CountedBackend : using'[q] = using[q] /\ pick'[q] = pick[q],
         \A q \in CountedLookup : using'[q] = using[q],
         \A q \in Timed : pick'[q] = pick[q]
  PROVE  EveryCounterCounts'
<1>1. \A s : /\ Under(s, CountedStrategy)' = Under(s, CountedStrategy)
             /\ Under(s, CountedLookup)' = Under(s, CountedLookup)
  BY DEF Under, Named
<1>2. \A b : To(b, CountedBackend)' = To(b, CountedBackend) /\ To(b, Timed)' = To(b, Timed)
  BY DEF To
<1>3. QED
  BY <1>1, <1>2 DEF EveryCounterCounts, counters

(* A ledger that did not move has the same decisions to count. *)
LEMMA LedgerKept ==
  ASSUME InstanceLedger, load' = load,
         \A q \in Requests : /\ call'[q] = "routed" <=> call[q] = "routed"
                             /\ call[q] = "routed" => pick'[q] = pick[q] /\ using'[q] = using[q]
  PROVE  InstanceLedger'
<1>1. ASSUME NEW i \in Instances, NEW b \in Backends PROVE Holding(i, b)' = Holding(i, b)
  BY DEF Holding
<1>2. QED
  BY <1>1 DEF InstanceLedger

(* A step of r that counts nothing and moves r between stages in which it  *)
(* is counted for the same.                                                *)
LEMMA UncountedStep ==
  ASSUME Ledgers, TypeOK', UNCHANGED counters, NEW r \in Requests, OthersKept(r),
         /\ (r \in Accepted)' <=> r \in Accepted
         /\ (r \in CountedStrategy)' <=> r \in CountedStrategy
         /\ (r \in CountedBackend)' <=> r \in CountedBackend
         /\ (r \in CountedLookup)' <=> r \in CountedLookup
         /\ (r \in Timed)' <=> r \in Timed
         /\ (r \in UnderWay)' <=> r \in UnderWay
         /\ (r \in Failed)' <=> r \in Failed,
         r \in CountedStrategy => using'[r] = using[r] /\ pick'[r] = pick[r]
  PROVE  EveryCounterCounts'
<1>1. /\ Accepted' = Accepted /\ UnderWay' = UnderWay /\ Failed' = Failed
  BY DEF OthersKept, Accepted, UnderWay, Failed
<1>2. /\ CountedStrategy' = CountedStrategy /\ CountedBackend' = CountedBackend
  BY DEF OthersKept, CountedStrategy, CountedBackend, Reached
<1>3. CountedLookup' = CountedLookup /\ Timed' = Timed
  BY DEF OthersKept, CountedLookup, Timed, Reached
<1>4. /\ CountedBackend \subseteq CountedStrategy /\ CountedLookup \subseteq CountedStrategy
      /\ Timed \subseteq CountedStrategy /\ CountedStrategy \subseteq Requests
  BY CountedAreAccepted DEF Ledgers, CountedStrategy, Reached
<1>5. \A q \in CountedStrategy : using'[q] = using[q] /\ pick'[q] = pick[q]
  BY <1>4 DEF OthersKept
<1>6. QED
  BY <1>1, <1>2, <1>3, <1>4, <1>5, CountersKept DEF Ledgers

(* A refused body is never accepted. *)
LEMMA RejectStep ==
  ASSUME Ledgers, NEW r \in Requests, Reject(r)
  PROVE  Ledgers'
<1> USE DEF Ledgers
<1>1. OthersKept(r) /\ UNCHANGED <<strategy, counters, load>>
  BY DEF Reject, Goto, TypeOK, OthersKept, locals, selection, counters
<1>2. TypeOK'
  <2>1. Sel!TypeOK'
    BY SelKept DEF TypeOK, Reject
  <2>2. QED
    BY <1>1, <2>1 DEF Reject, Goto, TypeOK, Stages, Uses, locals, counters, strategy
<1>3. HandlersCoherent'
  <2>1. (StatusFits(r) /\ CallFits(r) /\ UsingFits(r))'
    BY <1>1 DEF Reject, Goto, TypeOK, HandlersCoherent, StatusFits, CallFits,
       UsingFits, Named, Inside, locals, selection, strategy
  <2>2. QED
    BY <1>1, <2>1, CoherentStep
<1>4. EveryCounterCounts'
  <2>1. /\ (r \in Accepted)' <=> r \in Accepted
        /\ (r \in UnderWay)' <=> r \in UnderWay
        /\ (r \in Failed)' <=> r \in Failed
    BY DEF Reject, Goto, TypeOK, HandlersCoherent, StatusFits, Accepted, UnderWay, Failed
  <2>2. /\ (r \in CountedStrategy)' <=> r \in CountedStrategy
        /\ (r \in CountedBackend)' <=> r \in CountedBackend
        /\ (r \in CountedLookup)' <=> r \in CountedLookup
        /\ (r \in Timed)' <=> r \in Timed
    BY DEF Reject, Goto, TypeOK, HandlersCoherent, StatusFits, CountedStrategy,
       CountedBackend, CountedLookup, Timed, Reached
  <2>3. r \in CountedStrategy => using'[r] = using[r] /\ pick'[r] = pick[r]
    BY DEF Reject, TypeOK, HandlersCoherent, StatusFits, CountedStrategy, Reached, locals,
       selection
  <2>4. QED
    BY <1>1, <1>2, <2>1, <2>2, <2>3, UncountedStep
<1>5. InstanceLedger'
  <2>1. \A q \in Requests : /\ call'[q] = "routed" <=> call[q] = "routed"
                            /\ call[q] = "routed" => pick'[q] = pick[q] /\ using'[q] = using[q]
    BY <1>1 DEF Reject, Goto, TypeOK, HandlersCoherent, CallFits, Inside,
       OthersKept, locals, selection
  <2>2. QED
    BY <1>1, <2>1, LedgerKept
<1>6. QED
  BY <1>2, <1>3, <1>4, <1>5

(* Name and object are taken together. *)
LEMMA ActiveStrategyStep ==
  ASSUME Ledgers, NEW r \in Requests, ActiveStrategy(r)
  PROVE  Ledgers'
<1> USE DEF Ledgers
<1>1. OthersKept(r) /\ UNCHANGED <<strategy, counters, load>>
  BY DEF ActiveStrategy, Goto, TypeOK, OthersKept, locals, selection, counters
<1>2. TypeOK'
  <2>1. Sel!TypeOK'
    BY SelKept DEF TypeOK, ActiveStrategy
  <2>2. QED
    BY <1>1, <2>1 DEF ActiveStrategy, Goto, TypeOK, Stages, Uses, locals, counters,
       strategy
<1>3. HandlersCoherent'
  <2>1. using'[r] = active /\ pc[r] = "strategy" /\ pc'[r] = "begin"
    BY DEF ActiveStrategy, Goto, TypeOK
  <2>2. /\ active \in Uses /\ active.name = kind[active.instance]
        /\ active.instance \in Int /\ active' = active /\ kind' = kind
    BY <1>1, SwitchesAssumption DEF TypeOK, Uses, Instances, HandlersCoherent, strategy
  <2>3. UsingFits(r)'
    BY <2>1, <2>2 DEF UsingFits
  <2>4. StatusFits(r)' /\ CallFits(r)'
    BY <2>1 DEF ActiveStrategy, HandlersCoherent, StatusFits, CallFits, Inside, selection
  <2>5. (StatusFits(r) /\ CallFits(r) /\ UsingFits(r))'
    BY <1>1, <2>3, <2>4 DEF ActiveStrategy, Goto, TypeOK, HandlersCoherent,
       StatusFits, CallFits, UsingFits, Named, Inside, locals, selection, strategy,
       Uses, Instances
  <2>6. QED
    BY <1>1, <2>5, CoherentStep
<1>4. EveryCounterCounts'
  <2>1. /\ (r \in Accepted)' <=> r \in Accepted
        /\ (r \in UnderWay)' <=> r \in UnderWay
        /\ (r \in Failed)' <=> r \in Failed
    BY DEF ActiveStrategy, Goto, TypeOK, HandlersCoherent, StatusFits, Accepted,
       UnderWay, Failed
  <2>2. /\ (r \in CountedStrategy)' <=> r \in CountedStrategy
        /\ (r \in CountedBackend)' <=> r \in CountedBackend
        /\ (r \in CountedLookup)' <=> r \in CountedLookup
        /\ (r \in Timed)' <=> r \in Timed
    BY DEF ActiveStrategy, Goto, TypeOK, HandlersCoherent, StatusFits,
       CountedStrategy, CountedBackend, CountedLookup, Timed, Reached
  <2>3. r \in CountedStrategy => using'[r] = using[r] /\ pick'[r] = pick[r]
    BY DEF ActiveStrategy, TypeOK, HandlersCoherent, StatusFits, CountedStrategy,
       Reached, locals, selection
  <2>4. QED
    BY <1>1, <1>2, <2>1, <2>2, <2>3, UncountedStep
<1>5. InstanceLedger'
  <2>1. \A q \in Requests : /\ call'[q] = "routed" <=> call[q] = "routed"
                            /\ call[q] = "routed" => pick'[q] = pick[q] /\ using'[q] = using[q]
    BY <1>1 DEF ActiveStrategy, Goto, TypeOK, HandlersCoherent, CallFits, Inside,
       OthersKept, locals, selection
  <2>2. QED
    BY <1>1, <2>1, LedgerKept
<1>6. QED
  BY <1>2, <1>3, <1>4, <1>5

(* Select begins. *)
LEMMA BeginStep ==
  ASSUME Ledgers, NEW r \in Requests, Begin(r)
  PROVE  Ledgers'
<1> USE DEF Ledgers
<1>1. OthersKept(r) /\ UNCHANGED <<strategy, counters, load>>
  BY DEF Begin, Goto, TypeOK, OthersKept, locals, selection, counters, Sel!Begin
<1>2. TypeOK'
  <2>1. Sel!TypeOK'
    BY SelCallTypes DEF TypeOK, Begin
  <2>2. QED
    BY <1>1, <2>1 DEF Begin, Goto, TypeOK, Stages, Uses, locals, counters, strategy
<1>3. HandlersCoherent'
  <2>1. (StatusFits(r) /\ CallFits(r) /\ UsingFits(r))'
    BY <1>1 DEF Begin, Goto, TypeOK, HandlersCoherent, StatusFits, CallFits,
       UsingFits, Named, Inside, locals, selection, strategy, Sel!Begin
  <2>2. QED
    BY <1>1, <2>1, CoherentStep
<1>4. EveryCounterCounts'
  <2>1. /\ (r \in Accepted)' <=> r \in Accepted
        /\ (r \in UnderWay)' <=> r \in UnderWay
        /\ (r \in Failed)' <=> r \in Failed
    BY DEF Begin, Goto, TypeOK, HandlersCoherent, StatusFits, Accepted, UnderWay, Failed
  <2>2. /\ (r \in CountedStrategy)' <=> r \in CountedStrategy
        /\ (r \in CountedBackend)' <=> r \in CountedBackend
        /\ (r \in CountedLookup)' <=> r \in CountedLookup
        /\ (r \in Timed)' <=> r \in Timed
    BY DEF Begin, Goto, TypeOK, HandlersCoherent, StatusFits, CountedStrategy,
       CountedBackend, CountedLookup, Timed, Reached
  <2>3. r \in CountedStrategy => using'[r] = using[r] /\ pick'[r] = pick[r]
    BY DEF Begin, TypeOK, HandlersCoherent, StatusFits, CountedStrategy, Reached, locals,
       selection, Sel!Begin
  <2>4. QED
    BY <1>1, <1>2, <2>1, <2>2, <2>3, UncountedStep
<1>5. InstanceLedger'
  <2>1. \A q \in Requests : /\ call'[q] = "routed" <=> call[q] = "routed"
                            /\ call[q] = "routed" => pick'[q] = pick[q] /\ using'[q] = using[q]
    BY <1>1 DEF Begin, Goto, TypeOK, HandlersCoherent, CallFits, Inside, OthersKept,
       locals, selection, Sel!Begin
  <2>2. QED
    BY <1>1, <2>1, LedgerKept
<1>6. QED
  BY <1>2, <1>3, <1>4, <1>5

(* The store is asked. *)
LEMMA LookupStep ==
  ASSUME Ledgers, NEW r \in Requests, Lookup(r)
  PROVE  Ledgers'
<1> USE DEF Ledgers
<1>1. OthersKept(r) /\ UNCHANGED <<strategy, counters, load>>
  BY DEF Lookup, Goto, TypeOK, OthersKept, locals, selection, counters
<1>2. TypeOK'
  <2>1. Sel!TypeOK'
    BY SelKept DEF TypeOK, Lookup
  <2>2. pref[KeyOf[r]] \in Backends \cup {None}
    BY KeyAssumption DEF TypeOK
  <2>3. hint' \in [Requests -> Backends \cup {None}]
    BY <2>2 DEF Lookup, TypeOK
  <2>4. pc' \in [Requests -> Stages]
    BY DEF Lookup, Goto, TypeOK, Stages
  <2>5. UNCHANGED <<using, hit, status, pref, served, load, active, kind>>
    BY DEF Lookup, strategy
  <2>6. QED
    BY <1>1, <2>1, <2>3, <2>4, <2>5 DEF TypeOK, counters
<1>3. HandlersCoherent'
  <2>1. (StatusFits(r) /\ CallFits(r) /\ UsingFits(r))'
    BY <1>1 DEF Lookup, Goto, TypeOK, HandlersCoherent, StatusFits, CallFits,
       UsingFits, Named, Inside, locals, selection, strategy
  <2>2. QED
    BY <1>1, <2>1, CoherentStep
<1>4. EveryCounterCounts'
  <2>1. /\ (r \in Accepted)' <=> r \in Accepted
        /\ (r \in UnderWay)' <=> r \in UnderWay
        /\ (r \in Failed)' <=> r \in Failed
    BY DEF Lookup, Goto, TypeOK, HandlersCoherent, StatusFits, Accepted, UnderWay, Failed
  <2>2. /\ (r \in CountedStrategy)' <=> r \in CountedStrategy
        /\ (r \in CountedBackend)' <=> r \in CountedBackend
        /\ (r \in CountedLookup)' <=> r \in CountedLookup
        /\ (r \in Timed)' <=> r \in Timed
    BY DEF Lookup, Goto, TypeOK, HandlersCoherent, StatusFits, CountedStrategy,
       CountedBackend, CountedLookup, Timed, Reached
  <2>3. r \in CountedStrategy => using'[r] = using[r] /\ pick'[r] = pick[r]
    BY DEF Lookup, TypeOK, HandlersCoherent, StatusFits, CountedStrategy, Reached, locals,
       selection
  <2>4. QED
    BY <1>1, <1>2, <2>1, <2>2, <2>3, UncountedStep
<1>5. InstanceLedger'
  <2>1. \A q \in Requests : /\ call'[q] = "routed" <=> call[q] = "routed"
                            /\ call[q] = "routed" => pick'[q] = pick[q] /\ using'[q] = using[q]
    BY <1>1 DEF Lookup, Goto, TypeOK, HandlersCoherent, CallFits, Inside,
       OthersKept, locals, selection
  <2>2. QED
    BY <1>1, <2>1, LedgerKept
<1>6. QED
  BY <1>2, <1>3, <1>4, <1>5

(* No backend. *)
LEMMA RefuseStep ==
  ASSUME Ledgers, NEW r \in Requests, Refuse(r)
  PROVE  Ledgers'
<1> USE DEF Ledgers
<1>1. OthersKept(r) /\ UNCHANGED <<strategy, counters, load>>
  BY DEF Refuse, Goto, TypeOK, OthersKept, locals, selection, counters, Sel!Refuse,
     Sel!Return
<1>2. TypeOK'
  <2>1. Sel!TypeOK'
    BY SelCallTypes DEF TypeOK, Refuse
  <2>2. QED
    BY <1>1, <2>1 DEF Refuse, Goto, TypeOK, Stages, Uses, locals, counters, strategy
<1>3. HandlersCoherent'
  <2>1. pc[r] = "select" /\ pc'[r] = "done" /\ status'[r] = 503 /\ call'[r] = "refused"
    BY DEF Refuse, Goto, TypeOK, Sel!TypeOK, Sel!Refuse, Sel!Return
  <2>2. StatusFits(r)' /\ CallFits(r)'
    BY <2>1 DEF StatusFits, CallFits, Inside
  <2>3. UsingFits(r)'
    BY <1>1, <2>1 DEF Refuse, HandlersCoherent, StatusFits, UsingFits, Named,
       locals, strategy
  <2>4. (StatusFits(r) /\ CallFits(r) /\ UsingFits(r))'
    BY <1>1, <2>2, <2>3 DEF Refuse, Goto, TypeOK, HandlersCoherent, StatusFits,
       CallFits, UsingFits, Named, Inside, locals, selection, strategy, Sel!Refuse,
       Sel!Return
  <2>5. QED
    BY <1>1, <2>4, CoherentStep
<1>4. EveryCounterCounts'
  <2>1. /\ (r \in Accepted)' <=> r \in Accepted
        /\ (r \in UnderWay)' <=> r \in UnderWay
        /\ (r \in Failed)' <=> r \in Failed
    BY DEF Refuse, Goto, TypeOK, HandlersCoherent, StatusFits, Accepted, UnderWay, Failed
  <2>2. /\ (r \in CountedStrategy)' <=> r \in CountedStrategy
        /\ (r \in CountedBackend)' <=> r \in CountedBackend
        /\ (r \in CountedLookup)' <=> r \in CountedLookup
        /\ (r \in Timed)' <=> r \in Timed
    BY DEF Refuse, Goto, TypeOK, HandlersCoherent, StatusFits, CountedStrategy,
       CountedBackend, CountedLookup, Timed, Reached
  <2>3. r \in CountedStrategy => using'[r] = using[r] /\ pick'[r] = pick[r]
    BY DEF Refuse, TypeOK, HandlersCoherent, StatusFits, CountedStrategy, Reached, locals,
       selection, Sel!Refuse, Sel!Return
  <2>4. QED
    BY <1>1, <1>2, <2>1, <2>2, <2>3, UncountedStep
<1>5. InstanceLedger'
  <2>1. \A q \in Requests : /\ call'[q] = "routed" <=> call[q] = "routed"
                            /\ call[q] = "routed" => pick'[q] = pick[q] /\ using'[q] = using[q]
    BY <1>1 DEF Refuse, Goto, TypeOK, HandlersCoherent, CallFits, Inside,
       OthersKept, locals, selection, Sel!Refuse, Sel!Return
  <2>2. QED
    BY <1>1, <2>1, LedgerKept
<1>6. QED
  BY <1>2, <1>3, <1>4, <1>5

(* The flag is cleared. *)
LEMMA KnockDownStep ==
  ASSUME Ledgers, NEW r \in Requests, KnockDown(r)
  PROVE  Ledgers'
<1> USE DEF Ledgers
<1>1. OthersKept(r) /\ UNCHANGED <<strategy, counters, load>>
  BY DEF KnockDown, Goto, TypeOK, OthersKept, locals, selection, counters, Sel!SetHealthy
<1>2. pc[r] \in Inside => BackendOf(r) \in Backends
  BY HasBackend
<1>3. TypeOK'
  <2>1. Sel!TypeOK'
    BY <1>2, SelFlagTypes DEF TypeOK, KnockDown, Inside
  <2>2. QED
    BY <1>1, <2>1 DEF KnockDown, Goto, TypeOK, Stages, Uses, locals, counters, strategy
<1>4. HandlersCoherent'
  <2>1. (StatusFits(r) /\ CallFits(r) /\ UsingFits(r))'
    BY <1>1 DEF KnockDown, Goto, TypeOK, HandlersCoherent, StatusFits, CallFits,
       UsingFits, Named, Inside, locals, selection, strategy, Sel!SetHealthy
  <2>2. QED
    BY <1>1, <2>1, CoherentStep
<1>5. EveryCounterCounts'
  <2>1. /\ (r \in Accepted)' <=> r \in Accepted
        /\ (r \in UnderWay)' <=> r \in UnderWay
        /\ (r \in Failed)' <=> r \in Failed
    BY DEF KnockDown, Goto, TypeOK, HandlersCoherent, StatusFits, Accepted,
       UnderWay, Failed
  <2>2. /\ (r \in CountedStrategy)' <=> r \in CountedStrategy
        /\ (r \in CountedBackend)' <=> r \in CountedBackend
        /\ (r \in CountedLookup)' <=> r \in CountedLookup
        /\ (r \in Timed)' <=> r \in Timed
    BY DEF KnockDown, Goto, TypeOK, HandlersCoherent, StatusFits, CountedStrategy,
       CountedBackend, CountedLookup, Timed, Reached
  <2>3. r \in CountedStrategy => using'[r] = using[r] /\ pick'[r] = pick[r]
    BY DEF KnockDown, TypeOK, HandlersCoherent, StatusFits, CountedStrategy,
       Reached, locals, selection, Sel!SetHealthy
  <2>4. QED
    BY <1>1, <1>3, <2>1, <2>2, <2>3, UncountedStep
<1>6. InstanceLedger'
  <2>1. \A q \in Requests : /\ call'[q] = "routed" <=> call[q] = "routed"
                            /\ call[q] = "routed" => pick'[q] = pick[q] /\ using'[q] = using[q]
    BY <1>1 DEF KnockDown, Goto, TypeOK, HandlersCoherent, CallFits, Inside,
       OthersKept, locals, selection, Sel!SetHealthy
  <2>2. QED
    BY <1>1, <2>1, LedgerKept
<1>7. QED
  BY <1>3, <1>4, <1>5, <1>6

(* The affinity is stored, or not. *)
LEMMA RecordAffinityStep ==
  ASSUME Ledgers, NEW r \in Requests, RecordAffinity(r)
  PROVE  Ledgers'
<1> USE DEF Ledgers
<1>1. OthersKept(r) /\ UNCHANGED <<strategy, counters, load>>
  BY DEF RecordAffinity, Goto, TypeOK, OthersKept, locals, selection, counters
<1>2. pc[r] \in Inside => BackendOf(r) \in Backends
  BY HasBackend
<1>3. TypeOK'
  <2>1. Sel!TypeOK'
    BY SelKept DEF TypeOK, RecordAffinity
  <2>2. QED
    BY <1>1, <2>1, <1>2, KeyAssumption DEF RecordAffinity, Goto, TypeOK, Stages,
       Uses, locals, counters, strategy, Inside
<1>4. HandlersCoherent'
  <2>1. StatusFits(r)' /\ CallFits(r)'
    BY DEF RecordAffinity, Goto, TypeOK, HandlersCoherent, StatusFits, CallFits,
       Inside, locals, selection
  <2>2. UsingFits(r)'
    BY DEF RecordAffinity, Goto, TypeOK, HandlersCoherent, StatusFits, UsingFits,
       Named, locals, strategy
  <2>3. QED
    BY <1>1, <2>1, <2>2, CoherentStep
<1>5. EveryCounterCounts'
  <2>1. /\ (r \in Accepted)' <=> r \in Accepted
        /\ (r \in UnderWay)' <=> r \in UnderWay
        /\ (r \in Failed)' <=> r \in Failed
    BY DEF RecordAffinity, Goto, TypeOK, HandlersCoherent, StatusFits, Accepted,
       UnderWay, Failed
  <2>2. /\ (r \in CountedStrategy)' <=> r \in CountedStrategy
        /\ (r \in CountedBackend)' <=> r \in CountedBackend
        /\ (r \in CountedLookup)' <=> r \in CountedLookup
        /\ (r \in Timed)' <=> r \in Timed
    BY DEF RecordAffinity, Goto, TypeOK, HandlersCoherent, StatusFits,
       CountedStrategy, CountedBackend, CountedLookup, Timed, Reached
  <2>3. r \in CountedStrategy => using'[r] = using[r] /\ pick'[r] = pick[r]
    BY DEF RecordAffinity, TypeOK, HandlersCoherent, StatusFits, CountedStrategy,
       Reached, locals, selection
  <2>4. QED
    BY <1>1, <1>3, <2>1, <2>2, <2>3, UncountedStep
<1>6. InstanceLedger'
  <2>1. \A q \in Requests : /\ call'[q] = "routed" <=> call[q] = "routed"
                            /\ call[q] = "routed" => pick'[q] = pick[q] /\ using'[q] = using[q]
    BY <1>1 DEF RecordAffinity, Goto, TypeOK, HandlersCoherent, CallFits, Inside,
       OthersKept, locals, selection
  <2>2. QED
    BY <1>1, <2>1, LedgerKept
<1>7. QED
  BY <1>3, <1>4, <1>5, <1>6

(* What a step of r does to a set of counted requests. *)
LEMMA SetsFollow ==
  ASSUME NEW r \in Requests, OthersKept(r)
  PROVE  /\ ((r \in Accepted)' <=> r \in Accepted) => Accepted' = Accepted
         /\ (r \in Accepted)' => Accepted' = Accepted \cup {r}
         /\ ((r \in CountedStrategy)' <=> r \in CountedStrategy) => CountedStrategy' = CountedStrategy
         /\ (r \in CountedStrategy)' => CountedStrategy' = CountedStrategy \cup {r}
         /\ ((r \in CountedBackend)' <=> r \in CountedBackend) => CountedBackend' = CountedBackend
         /\ (r \in CountedBackend)' => CountedBackend' = CountedBackend \cup {r}
         /\ ((r \in CountedLookup)' <=> r \in CountedLookup) => CountedLookup' = CountedLookup
         /\ (r \in CountedLookup)' => CountedLookup' = CountedLookup \cup {r}
         /\ ((r \in Timed)' <=> r \in Timed) => Timed' = Timed
         /\ (r \in Timed)' => Timed' = Timed \cup {r}
         /\ ((r \in UnderWay)' <=> r \in UnderWay) => UnderWay' = UnderWay
         /\ (r \in UnderWay)' => UnderWay' = UnderWay \cup {r}
         /\ ~(r \in UnderWay)' => UnderWay' = UnderWay \ {r}
         /\ ((r \in Failed)' <=> r \in Failed) => Failed' = Failed
         /\ (r \in Failed)' => Failed' = Failed \cup {r}
<1>1. /\ ((r \in Accepted)' <=> r \in Accepted) => Accepted' = Accepted
      /\ (r \in Accepted)' => Accepted' = Accepted \cup {r}
  BY DEF OthersKept, Accepted
<1>2. /\ ((r \in CountedStrategy)' <=> r \in CountedStrategy) => CountedStrategy' = CountedStrategy
      /\ (r \in CountedStrategy)' => CountedStrategy' = CountedStrategy \cup {r}
  BY DEF OthersKept, CountedStrategy, Reached
<1>3. /\ ((r \in CountedBackend)' <=> r \in CountedBackend) => CountedBackend' = CountedBackend
      /\ (r \in CountedBackend)' => CountedBackend' = CountedBackend \cup {r}
  BY DEF OthersKept, CountedBackend, Reached
<1>4. /\ ((r \in CountedLookup)' <=> r \in CountedLookup) => CountedLookup' = CountedLookup
      /\ (r \in CountedLookup)' => CountedLookup' = CountedLookup \cup {r}
  BY DEF OthersKept, CountedLookup, Reached
<1>5. /\ ((r \in Timed)' <=> r \in Timed) => Timed' = Timed
      /\ (r \in Timed)' => Timed' = Timed \cup {r}
  BY DEF OthersKept, Timed, Reached
<1>6. /\ ((r \in UnderWay)' <=> r \in UnderWay) => UnderWay' = UnderWay
      /\ (r \in UnderWay)' => UnderWay' = UnderWay \cup {r}
      /\ ~(r \in UnderWay)' => UnderWay' = UnderWay \ {r}
  BY DEF OthersKept, UnderWay
<1>7. /\ ((r \in Failed)' <=> r \in Failed) => Failed' = Failed
      /\ (r \in Failed)' => Failed' = Failed \cup {r}
  BY DEF OthersKept, Failed
<1>8. QED
  BY <1>1, <1>2, <1>3, <1>4, <1>5, <1>6, <1>7

(* A step that moves no decision keeps the ledger and Select's state. *)
LEMMA UnroutedStep ==
  ASSUME Ledgers, UNCHANGED <<selection, strategy, load, locals>>
  PROVE  InstanceLedger' /\ Sel!TypeOK'
<1>1. InstanceLedger'
  BY LedgerKept DEF Ledgers, selection, locals
<1>2. QED
  BY <1>1, SelKept DEF Ledgers, TypeOK

(* A step that moves no decision keeps how the counted requests are split. *)
LEMMA SplitsKept ==
  ASSUME UNCHANGED <<selection, strategy, load, locals>>
  PROVE  /\ CountedStrategy' = CountedStrategy =>
              \A s : Under(s, CountedStrategy)' = Under(s, CountedStrategy)
         /\ CountedLookup' = CountedLookup =>
              \A s : Under(s, CountedLookup)' = Under(s, CountedLookup)
         /\ CountedBackend' = CountedBackend =>
              \A b : To(b, CountedBackend)' = To(b, CountedBackend)
         /\ Timed' = Timed => \A b : To(b, Timed)' = To(b, Timed)
<1>1. using' = using /\ pick' = pick
  BY DEF selection, locals
<1>2. QED
  BY <1>1 DEF Under, Named, To

(* A request is accepted. *)
LEMMA ReceiveStep ==
  ASSUME Ledgers, NEW r \in Requests, Receive(r)
  PROVE  Ledgers'
<1> USE DEF Ledgers
<1>1. OthersKept(r) /\ UNCHANGED <<selection, strategy, load, locals>>
  BY DEF Receive, Goto, TypeOK, OthersKept, locals, selection
<1>2. InstanceLedger' /\ Sel!TypeOK'
  BY <1>1, UnroutedStep
<1>3. HandlersCoherent'
  <2>1. (StatusFits(r) /\ CallFits(r) /\ UsingFits(r))'
    BY <1>1 DEF Receive, Goto, TypeOK, HandlersCoherent, StatusFits, CallFits,
       UsingFits, Named, Inside, locals, selection, strategy
  <2>2. QED
    BY <1>1, <2>1, CoherentStep
<1>4. EveryCounterCounts'
  <2>1. /\ (r \in UnderWay)' <=> r \in UnderWay
        /\ (r \in Failed)' <=> r \in Failed
    BY DEF Receive, Goto, TypeOK, HandlersCoherent, StatusFits, UnderWay, Failed
  <2>2. /\ (r \in CountedStrategy)' <=> r \in CountedStrategy
        /\ (r \in CountedBackend)' <=> r \in CountedBackend
        /\ (r \in CountedLookup)' <=> r \in CountedLookup
        /\ (r \in Timed)' <=> r \in Timed
    BY DEF Receive, Goto, TypeOK, HandlersCoherent, StatusFits, CountedStrategy,
       CountedBackend, CountedLookup, Timed, Reached
  <2>3. /\ r \notin Accepted /\ (r \in Accepted)'
    BY DEF Receive, Goto, TypeOK, HandlersCoherent, StatusFits, Accepted
  <2>4. /\ CountedStrategy' = CountedStrategy
        /\ CountedBackend' = CountedBackend
        /\ CountedLookup' = CountedLookup
        /\ Timed' = Timed
        /\ UnderWay' = UnderWay
        /\ Failed' = Failed
        /\ Accepted' = Accepted \cup {r}
    BY <1>1, <2>1, <2>2, <2>3, SetsFollow
  <2>5. /\ \A s : Under(s, CountedStrategy)' = Under(s, CountedStrategy)
        /\ \A s : Under(s, CountedLookup)' = Under(s, CountedLookup)
        /\ \A b : To(b, CountedBackend)' = To(b, CountedBackend)
        /\ \A b : To(b, Timed)' = To(b, Timed)
    BY <1>1, <2>4, SplitsKept
  <2>6. IsFiniteSet(Accepted') /\ Cardinality(Accepted') = Cardinality(Accepted) + 1
    BY <2>3, <2>4, Joins DEF EveryCounterCounts
  <2>7. QED
    BY <2>4, <2>5, <2>6 DEF Receive, EveryCounterCounts
<1>5. TypeOK'
  BY <1>1, <1>2, <1>4 DEF Receive, Goto, TypeOK, Stages, locals, strategy
<1>6. QED
  BY <1>2, <1>3, <1>4, <1>5

(* It is counted for the strategy under its name. *)
LEMMA RecordStrategyStep ==
  ASSUME Ledgers, NEW r \in Requests, RecordStrategy(r)
  PROVE  Ledgers'
<1> USE DEF Ledgers
<1>1. OthersKept(r) /\ UNCHANGED <<selection, strategy, load, locals>>
  BY DEF RecordStrategy, Goto, TypeOK, OthersKept, locals, selection
<1>2. InstanceLedger' /\ Sel!TypeOK'
  BY <1>1, UnroutedStep
<1>3. HandlersCoherent'
  <2>1. (StatusFits(r) /\ CallFits(r) /\ UsingFits(r))'
    BY <1>1 DEF RecordStrategy, Goto, TypeOK, HandlersCoherent, StatusFits,
       CallFits, UsingFits, Named, Inside, locals, selection, strategy
  <2>2. QED
    BY <1>1, <2>1, CoherentStep
<1>4. EveryCounterCounts'
  <2>1. /\ (r \in Accepted)' <=> r \in Accepted
        /\ (r \in UnderWay)' <=> r \in UnderWay
        /\ (r \in Failed)' <=> r \in Failed
    BY DEF RecordStrategy, Goto, TypeOK, HandlersCoherent, StatusFits, Accepted,
       UnderWay, Failed
  <2>2. /\ (r \in CountedBackend)' <=> r \in CountedBackend
        /\ (r \in CountedLookup)' <=> r \in CountedLookup
        /\ (r \in Timed)' <=> r \in Timed
    BY DEF RecordStrategy, Goto, TypeOK, HandlersCoherent, StatusFits,
       CountedBackend, CountedLookup, Timed, Reached
  <2>3. /\ r \notin CountedStrategy /\ (r \in CountedStrategy)'
    BY DEF RecordStrategy, Goto, TypeOK, HandlersCoherent, StatusFits,
       CountedStrategy, Reached
  <2>4. /\ Accepted' = Accepted
        /\ CountedBackend' = CountedBackend
        /\ CountedLookup' = CountedLookup
        /\ Timed' = Timed
        /\ UnderWay' = UnderWay
        /\ Failed' = Failed
        /\ CountedStrategy' = CountedStrategy \cup {r}
    BY <1>1, <2>1, <2>2, <2>3, SetsFollow
  <2>5. \A q \in Requests : using'[q] = using[q] /\ pick'[q] = pick[q]
    BY <1>1 DEF selection, locals
  <2>6. /\ \A s : Under(s, CountedLookup)' = Under(s, CountedLookup)
        /\ \A b : To(b, CountedBackend)' = To(b, CountedBackend)
        /\ \A b : To(b, Timed)' = To(b, Timed)
    BY <1>1, <2>4, SplitsKept
  <2>7. /\ IsFiniteSet(CountedStrategy)
        /\ \A s : IsFiniteSet(Under(s, CountedStrategy))
    BY CountedAreFinite DEF EveryCounterCounts
  <2>8. Cardinality(CountedStrategy') = Cardinality(CountedStrategy) + 1
    BY <2>3, <2>4, <2>7, Joins
  <2>9. strategyCounts \in [Strategies -> Nat] /\ using[r].name \in Strategies
    BY UsesObject DEF RecordStrategy, TypeOK
  <2>10. /\ IsFiniteSet(Units(strategyCounts'))
         /\ Total(strategyCounts') = Total(strategyCounts) + 1
    <3>1. /\ strategyCounts' \in [Strategies -> Nat]
          /\ strategyCounts'[using[r].name] = strategyCounts[using[r].name] + 1
          /\ \A s \in Strategies : s # using[r].name => strategyCounts'[s] = strategyCounts[s]
      BY <2>9 DEF RecordStrategy
    <3>2. IsFiniteSet(Units(strategyCounts))
      BY DEF EveryCounterCounts
    <3>3. QED
      BY <2>9, <3>1, <3>2, TotalPlusOne
  <2>11. ASSUME NEW s \in Strategies
         PROVE  strategyCounts'[s] = Cardinality(Under(s, CountedStrategy)')
    <3>1. CASE s = using[r].name
      <4>1. r \notin Under(s, CountedStrategy)
        BY <2>3 DEF Under
      <4>2. Under(s, CountedStrategy)' = Under(s, CountedStrategy) \cup {r}
        BY <2>4, <2>5, <3>1 DEF Under, Named, CountedStrategy, Reached
      <4>3. Cardinality(Under(s, CountedStrategy)') = Cardinality(Under(s, CountedStrategy)) + 1
        BY <2>7, <4>1, <4>2, Joins
      <4>4. QED
        BY <2>9, <3>1, <4>3 DEF RecordStrategy, EveryCounterCounts
    <3>2. CASE s # using[r].name
      <4>1. Under(s, CountedStrategy)' = Under(s, CountedStrategy)
        BY <2>4, <2>5, <3>2 DEF Under, Named, CountedStrategy, Reached
      <4>2. QED
        BY <2>9, <3>2, <4>1 DEF RecordStrategy, EveryCounterCounts
    <3>3. QED
      BY <3>1, <3>2
  <2>12. QED
    BY <2>4, <2>6, <2>8, <2>10, <2>11 DEF RecordStrategy, EveryCounterCounts
<1>5. TypeOK'
  <2>1. strategyCounts' \in [Strategies -> Nat]
    BY UsesObject DEF RecordStrategy, TypeOK
  <2>2. pc' \in [Requests -> Stages]
    BY DEF RecordStrategy, Goto, TypeOK, Stages
  <2>3. QED
    BY <1>1, <1>2, <2>1, <2>2 DEF RecordStrategy, TypeOK, locals, strategy
<1>6. QED
  BY <1>2, <1>3, <1>4, <1>5

(* It is in flight. *)
LEMMA IncInFlightStep ==
  ASSUME Ledgers, NEW r \in Requests, IncInFlight(r)
  PROVE  Ledgers'
<1> USE DEF Ledgers
<1>1. OthersKept(r) /\ UNCHANGED <<selection, strategy, load, locals>>
  BY DEF IncInFlight, Goto, TypeOK, OthersKept, locals, selection
<1>2. InstanceLedger' /\ Sel!TypeOK'
  BY <1>1, UnroutedStep
<1>3. HandlersCoherent'
  <2>1. (StatusFits(r) /\ CallFits(r) /\ UsingFits(r))'
    BY <1>1 DEF IncInFlight, Goto, TypeOK, HandlersCoherent, StatusFits, CallFits,
       UsingFits, Named, Inside, locals, selection, strategy
  <2>2. QED
    BY <1>1, <2>1, CoherentStep
<1>4. EveryCounterCounts'
  <2>1. /\ (r \in Accepted)' <=> r \in Accepted
        /\ (r \in Failed)' <=> r \in Failed
    BY DEF IncInFlight, Goto, TypeOK, HandlersCoherent, StatusFits, Accepted, Failed
  <2>2. /\ (r \in CountedStrategy)' <=> r \in CountedStrategy
        /\ (r \in CountedBackend)' <=> r \in CountedBackend
        /\ (r \in CountedLookup)' <=> r \in CountedLookup
        /\ (r \in Timed)' <=> r \in Timed
    BY DEF IncInFlight, Goto, TypeOK, HandlersCoherent, StatusFits, CountedStrategy,
       CountedBackend, CountedLookup, Timed, Reached
  <2>3. /\ r \notin UnderWay /\ (r \in UnderWay)'
    BY DEF IncInFlight, Goto, TypeOK, HandlersCoherent, StatusFits, UnderWay
  <2>4. /\ Accepted' = Accepted
        /\ CountedStrategy' = CountedStrategy
        /\ CountedBackend' = CountedBackend
        /\ CountedLookup' = CountedLookup
        /\ Timed' = Timed
        /\ Failed' = Failed
        /\ UnderWay' = UnderWay \cup {r}
    BY <1>1, <2>1, <2>2, <2>3, SetsFollow
  <2>5. /\ \A s : Under(s, CountedStrategy)' = Under(s, CountedStrategy)
        /\ \A s : Under(s, CountedLookup)' = Under(s, CountedLookup)
        /\ \A b : To(b, CountedBackend)' = To(b, CountedBackend)
        /\ \A b : To(b, Timed)' = To(b, Timed)
    BY <1>1, <2>4, SplitsKept
  <2>6. IsFiniteSet(UnderWay)
    BY CountedAreFinite DEF EveryCounterCounts
  <2>7. Cardinality(UnderWay') = Cardinality(UnderWay) + 1
    BY <2>3, <2>4, <2>6, Joins
  <2>8. QED
    BY <2>4, <2>5, <2>7 DEF IncInFlight, EveryCounterCounts
<1>5. TypeOK'
  BY <1>1, <1>2, <1>4 DEF IncInFlight, Goto, TypeOK, Stages, locals, strategy
<1>6. QED
  BY <1>2, <1>3, <1>4, <1>5

(* Its backend failed. *)
LEMMA CountErrorStep ==
  ASSUME Ledgers, NEW r \in Requests, CountError(r)
  PROVE  Ledgers'
<1> USE DEF Ledgers
<1>1. OthersKept(r) /\ UNCHANGED <<selection, strategy, load, locals>>
  BY DEF CountError, Goto, TypeOK, OthersKept, locals, selection
<1>2. InstanceLedger' /\ Sel!TypeOK'
  BY <1>1, UnroutedStep
<1>3. HandlersCoherent'
  <2>1. (StatusFits(r) /\ CallFits(r) /\ UsingFits(r))'
    BY <1>1 DEF CountError, Goto, TypeOK, HandlersCoherent, StatusFits, CallFits,
       UsingFits, Named, Inside, locals, selection, strategy, AfterError
  <2>2. QED
    BY <1>1, <2>1, CoherentStep
<1>4. EveryCounterCounts'
  <2>1. /\ (r \in Accepted)' <=> r \in Accepted
        /\ (r \in UnderWay)' <=> r \in UnderWay
    BY DEF CountError, Goto, TypeOK, HandlersCoherent, StatusFits, Accepted,
       UnderWay, AfterError
  <2>2. /\ (r \in CountedStrategy)' <=> r \in CountedStrategy
        /\ (r \in CountedBackend)' <=> r \in CountedBackend
        /\ (r \in CountedLookup)' <=> r \in CountedLookup
        /\ (r \in Timed)' <=> r \in Timed
    BY DEF CountError, Goto, TypeOK, HandlersCoherent, StatusFits, CountedStrategy,
       CountedBackend, CountedLookup, Timed, Reached, AfterError
  <2>3. /\ r \notin Failed /\ (r \in Failed)'
    BY DEF CountError, Goto, TypeOK, HandlersCoherent, StatusFits, Failed, AfterError
  <2>4. /\ Accepted' = Accepted
        /\ CountedStrategy' = CountedStrategy
        /\ CountedBackend' = CountedBackend
        /\ CountedLookup' = CountedLookup
        /\ Timed' = Timed
        /\ UnderWay' = UnderWay
        /\ Failed' = Failed \cup {r}
    BY <1>1, <2>1, <2>2, <2>3, SetsFollow
  <2>5. /\ \A s : Under(s, CountedStrategy)' = Under(s, CountedStrategy)
        /\ \A s : Under(s, CountedLookup)' = Under(s, CountedLookup)
        /\ \A b : To(b, CountedBackend)' = To(b, CountedBackend)
        /\ \A b : To(b, Timed)' = To(b, Timed)
    BY <1>1, <2>4, SplitsKept
  <2>6. IsFiniteSet(Failed)
    BY CountedAreFinite DEF EveryCounterCounts
  <2>7. Cardinality(Failed') = Cardinality(Failed) + 1
    BY <2>3, <2>4, <2>6, Joins
  <2>8. QED
    BY <2>4, <2>5, <2>7 DEF CountError, EveryCounterCounts
<1>5. TypeOK'
  BY <1>1, <1>2, <1>4 DEF CountError, Goto, TypeOK, Stages, locals, strategy, AfterError
<1>6. QED
  BY <1>2, <1>3, <1>4, <1>5

(* It is in flight no more. *)
LEMMA DecInFlightStep ==
  ASSUME Ledgers, NEW r \in Requests, DecInFlight(r)
  PROVE  Ledgers'
<1> USE DEF Ledgers
<1>1. OthersKept(r) /\ UNCHANGED <<selection, strategy, load, locals>>
  BY DEF DecInFlight, Goto, TypeOK, OthersKept, locals, selection
<1>2. InstanceLedger' /\ Sel!TypeOK'
  BY <1>1, UnroutedStep
<1>3. HandlersCoherent'
  <2>1. (StatusFits(r) /\ CallFits(r) /\ UsingFits(r))'
    BY <1>1 DEF DecInFlight, Goto, TypeOK, HandlersCoherent, StatusFits, CallFits,
       UsingFits, Named, Inside, locals, selection, strategy
  <2>2. QED
    BY <1>1, <2>1, CoherentStep
<1>4. EveryCounterCounts'
  <2>1. /\ (r \in Accepted)' <=> r \in Accepted
        /\ (r \in Failed)' <=> r \in Failed
    BY DEF DecInFlight, Goto, TypeOK, HandlersCoherent, StatusFits, Accepted, Failed
  <2>2. /\ (r \in CountedStrategy)' <=> r \in CountedStrategy
        /\ (r \in CountedBackend)' <=> r \in CountedBackend
        /\ (r \in CountedLookup)' <=> r \in CountedLookup
        /\ (r \in Timed)' <=> r \in Timed
    BY DEF DecInFlight, Goto, TypeOK, HandlersCoherent, StatusFits, CountedStrategy,
       CountedBackend, CountedLookup, Timed, Reached
  <2>3. /\ r \in UnderWay /\ ~(r \in UnderWay)'
    BY DEF DecInFlight, Goto, TypeOK, HandlersCoherent, StatusFits, UnderWay
  <2>4. /\ Accepted' = Accepted
        /\ CountedStrategy' = CountedStrategy
        /\ CountedBackend' = CountedBackend
        /\ CountedLookup' = CountedLookup
        /\ Timed' = Timed
        /\ Failed' = Failed
        /\ UnderWay' = UnderWay \ {r}
    BY <1>1, <2>1, <2>2, <2>3, SetsFollow
  <2>5. /\ \A s : Under(s, CountedStrategy)' = Under(s, CountedStrategy)
        /\ \A s : Under(s, CountedLookup)' = Under(s, CountedLookup)
        /\ \A b : To(b, CountedBackend)' = To(b, CountedBackend)
        /\ \A b : To(b, Timed)' = To(b, Timed)
    BY <1>1, <2>4, SplitsKept
  <2>6. IsFiniteSet(UnderWay)
    BY CountedAreFinite DEF EveryCounterCounts
  <2>7. Cardinality(UnderWay') = Cardinality(UnderWay) - 1 /\ Cardinality(UnderWay) > 0
    BY <2>3, <2>4, <2>6, Leaves
  <2>8. QED
    BY <2>4, <2>5, <2>7 DEF DecInFlight, EveryCounterCounts
<1>5. TypeOK'
  <2>1. r \in UnderWay /\ IsFiniteSet(UnderWay)
    BY CountedAreFinite DEF DecInFlight, UnderWay, EveryCounterCounts
  <2>2. Cardinality(UnderWay) > 0 /\ Cardinality(UnderWay) \in Nat
    BY <2>1, Leaves, FS_CardinalityType
  <2>3. inFlight' \in Nat
    BY <2>2 DEF DecInFlight, EveryCounterCounts
  <2>4. pc' \in [Requests -> Stages]
    BY DEF DecInFlight, Goto, TypeOK, Stages
  <2>5. QED
    BY <1>1, <1>2, <2>3, <2>4 DEF DecInFlight, TypeOK, locals, strategy
<1>6. QED
  BY <1>2, <1>3, <1>4, <1>5

(* Its backend answers or fails, and the time it took is kept. *)
LEMMA AnswerStep ==
  ASSUME Ledgers, NEW r \in Requests, NEW ok \in BOOLEAN, Answer(r, ok)
  PROVE  Ledgers'
<1> USE DEF Ledgers
<1>1. OthersKept(r) /\ UNCHANGED <<selection, strategy, load, locals>>
  BY DEF Answer, Goto, TypeOK, OthersKept, locals, selection
<1>2. InstanceLedger' /\ Sel!TypeOK'
  BY <1>1, UnroutedStep
<1>3. HandlersCoherent'
  <2>1. (StatusFits(r) /\ CallFits(r) /\ UsingFits(r))'
    BY <1>1 DEF Answer, Goto, TypeOK, HandlersCoherent, StatusFits, CallFits,
       UsingFits, Named, Inside, locals, selection, strategy, AfterFailure
  <2>2. QED
    BY <1>1, <2>1, CoherentStep
<1>4. EveryCounterCounts'
  <2>1. pc[r] = "send" /\ pc'[r] \in {"remember", "knockDown"} /\ status[r] = 0
    BY DEF Answer, Goto, TypeOK, AfterFailure, HandlersCoherent, StatusFits
  <2>2. /\ (r \in Accepted)' <=> r \in Accepted
        /\ (r \in UnderWay)' <=> r \in UnderWay
        /\ (r \in Failed)' <=> r \in Failed
    BY DEF Answer, Goto, TypeOK, HandlersCoherent, StatusFits, Accepted, UnderWay,
       Failed, AfterFailure
  <2>3. /\ (r \in CountedStrategy)' <=> r \in CountedStrategy
        /\ (r \in CountedBackend)' <=> r \in CountedBackend
        /\ (r \in CountedLookup)' <=> r \in CountedLookup
    BY DEF Answer, Goto, TypeOK, HandlersCoherent, StatusFits, CountedStrategy,
       CountedBackend, CountedLookup, Reached, AfterFailure
  <2>4. /\ r \notin Timed /\ (r \in Timed)'
    BY <2>1 DEF Timed, Reached
  <2>5. /\ Accepted' = Accepted
        /\ CountedStrategy' = CountedStrategy
        /\ CountedBackend' = CountedBackend
        /\ CountedLookup' = CountedLookup
        /\ UnderWay' = UnderWay
        /\ Failed' = Failed
        /\ Timed' = Timed \cup {r}
    BY <1>1, <2>2, <2>3, <2>4, SetsFollow
  <2>6. \A q \in Requests : using'[q] = using[q] /\ pick'[q] = pick[q]
    BY <1>1 DEF selection, locals
  <2>7. /\ \A s : Under(s, CountedStrategy)' = Under(s, CountedStrategy)
        /\ \A s : Under(s, CountedLookup)' = Under(s, CountedLookup)
        /\ \A b : To(b, CountedBackend)' = To(b, CountedBackend)
    BY <1>1, <2>5, SplitsKept
  <2>8. \A b : IsFiniteSet(To(b, Timed))
    BY CountedAreFinite DEF EveryCounterCounts
  <2>9. BackendOf(r) \in Backends /\ pick[r] = {BackendOf(r)}
    BY HasBackend DEF Answer, Inside
  <2>10. ASSUME NEW b \in Backends PROVE measured'[b] = Cardinality(To(b, Timed)')
    <3>1. CASE b = BackendOf(r)
      <4>1. r \notin To(b, Timed)
        BY <2>4 DEF To
      <4>2. To(b, Timed)' = To(b, Timed) \cup {r}
        BY <2>5, <2>6, <2>9, <3>1 DEF To, Timed, Reached
      <4>3. Cardinality(To(b, Timed)') = Cardinality(To(b, Timed)) + 1
        BY <2>8, <4>1, <4>2, Joins
      <4>4. QED
        BY <2>9, <3>1, <4>3 DEF Answer, EveryCounterCounts, TypeOK
    <3>2. CASE b # BackendOf(r)
      <4>1. To(b, Timed)' = To(b, Timed)
        BY <2>5, <2>6, <2>9, <3>2 DEF To, Timed, Reached
      <4>2. QED
        BY <2>9, <3>2, <4>1 DEF Answer, EveryCounterCounts, TypeOK
    <3>3. QED
      BY <3>1, <3>2
  <2>11. QED
    BY <2>5, <2>7, <2>10 DEF Answer, EveryCounterCounts
<1>5. TypeOK'
  <2>1. BackendOf(r) \in Backends
    BY HasBackend DEF Answer, Inside
  <2>2. served' \subseteq Keys \X Backends
    BY <2>1, KeyAssumption DEF Answer, TypeOK
  <2>3. measured' \in [Backends -> Nat]
    BY <2>1 DEF Answer, TypeOK
  <2>4. pc' \in [Requests -> Stages]
    BY DEF Answer, Goto, TypeOK, Stages, AfterFailure
  <2>5. QED
    BY <1>1, <1>2, <2>2, <2>3, <2>4 DEF Answer, TypeOK, locals, strategy
<1>6. QED
  BY <1>2, <1>3, <1>4, <1>5

(* It is counted for its backend; the lookups of kv_aware come after. *)
LEMMA RecordBackendStep ==
  ASSUME Ledgers, NEW r \in Requests, RecordBackend(r)
  PROVE  Ledgers'
<1> USE DEF Ledgers
<1>1. OthersKept(r) /\ UNCHANGED <<selection, strategy, load, locals>>
  BY DEF RecordBackend, Goto, TypeOK, OthersKept, locals, selection
<1>2. InstanceLedger' /\ Sel!TypeOK'
  BY <1>1, UnroutedStep
<1>3. HandlersCoherent'
  <2>1. /\ pc[r] = "countBackend" /\ pc'[r] \in {"countLookup", "enter"}
        /\ pc'[r] = "countLookup" => Named(r, "kv_aware")
        /\ status' = status
    BY DEF RecordBackend, Goto, TypeOK
  <2>2. StatusFits(r)'
    BY <2>1 DEF HandlersCoherent, StatusFits
  <2>3. CallFits(r)'
    BY <1>1, <2>1 DEF HandlersCoherent, CallFits, Inside, selection
  <2>4. UsingFits(r)'
    BY <1>1, <2>1 DEF HandlersCoherent, UsingFits, Named, locals, strategy
  <2>5. (StatusFits(r) /\ CallFits(r) /\ UsingFits(r))'
    BY <1>1, <2>2, <2>3, <2>4 DEF RecordBackend, Goto, TypeOK, HandlersCoherent,
       StatusFits, CallFits, UsingFits, Named, Inside, locals, selection, strategy
  <2>6. QED
    BY <1>1, <2>5, CoherentStep
<1>4. EveryCounterCounts'
  <2>1. /\ (r \in Accepted)' <=> r \in Accepted
        /\ (r \in UnderWay)' <=> r \in UnderWay
        /\ (r \in Failed)' <=> r \in Failed
    BY DEF RecordBackend, Goto, TypeOK, HandlersCoherent, StatusFits, Accepted,
       UnderWay, Failed
  <2>2. /\ (r \in CountedStrategy)' <=> r \in CountedStrategy
        /\ (r \in Timed)' <=> r \in Timed
    BY DEF RecordBackend, Goto, TypeOK, HandlersCoherent, StatusFits,
       CountedStrategy, Timed, Reached
  <2>3. /\ r \notin CountedBackend /\ (r \in CountedBackend)'
    BY DEF RecordBackend, Goto, TypeOK, HandlersCoherent, StatusFits,
       CountedBackend, Reached
  <2>4. /\ Accepted' = Accepted
        /\ CountedStrategy' = CountedStrategy
        /\ Timed' = Timed
        /\ UnderWay' = UnderWay
        /\ Failed' = Failed
        /\ CountedBackend' = CountedBackend \cup {r}
    BY <1>1, <2>1, <2>2, <2>3, SetsFollow
  <2>5. \A q \in Requests : using'[q] = using[q] /\ pick'[q] = pick[q]
    BY <1>1 DEF selection, locals
  <2>6. /\ \A s : Under(s, CountedStrategy)' = Under(s, CountedStrategy)
        /\ \A b : To(b, Timed)' = To(b, Timed)
    BY <1>1, <2>4, SplitsKept
  <2>7. Under("kv_aware", CountedLookup)' = Under("kv_aware", CountedLookup)
    <3>1. Named(r, "kv_aware") => pc'[r] = "countLookup"
      BY DEF RecordBackend, Goto, TypeOK
    <3>2. status[r] = 0 /\ status'[r] = 0
      BY DEF RecordBackend, HandlersCoherent, StatusFits
    <3>3. r \notin Under("kv_aware", CountedLookup)' /\ r \notin Under("kv_aware", CountedLookup)
      BY <2>5, <3>1, <3>2 DEF RecordBackend, Under, Named, CountedLookup, Reached
    <3>4. CountedLookup \ {r} = CountedLookup' \ {r}
      BY <1>1 DEF OthersKept, CountedLookup, Reached
    <3>5. \A q \in CountedLookup \cup CountedLookup' : using'[q] = using[q]
      BY <2>5 DEF CountedLookup, Reached
    <3>6. QED
      BY <3>3, <3>4, <3>5 DEF Under, Named
  <2>8. IsFiniteSet(CountedBackend) /\ \A b : IsFiniteSet(To(b, CountedBackend))
    BY CountedAreFinite DEF EveryCounterCounts
  <2>9. Cardinality(CountedBackend') = Cardinality(CountedBackend) + 1
    BY <2>3, <2>4, <2>8, Joins
  <2>10. /\ backendCounts \in [Backends -> Nat]
         /\ BackendOf(r) \in Backends /\ pick[r] = {BackendOf(r)}
    BY HasBackend DEF RecordBackend, TypeOK, Inside
  <2>11. /\ IsFiniteSet(Units(backendCounts'))
         /\ Total(backendCounts') = Total(backendCounts) + 1
    <3>1. /\ backendCounts' \in [Backends -> Nat]
          /\ backendCounts'[BackendOf(r)] = backendCounts[BackendOf(r)] + 1
          /\ \A b \in Backends : b # BackendOf(r) => backendCounts'[b] = backendCounts[b]
      BY <2>10 DEF RecordBackend
    <3>2. IsFiniteSet(Units(backendCounts))
      BY DEF EveryCounterCounts
    <3>3. QED
      BY <2>10, <3>1, <3>2, TotalPlusOne
  <2>12. ASSUME NEW b \in Backends
         PROVE  backendCounts'[b] = Cardinality(To(b, CountedBackend)')
    <3>1. CASE b = BackendOf(r)
      <4>1. r \notin To(b, CountedBackend)
        BY <2>3 DEF To
      <4>2. To(b, CountedBackend)' = To(b, CountedBackend) \cup {r}
        BY <2>4, <2>5, <2>10, <3>1 DEF To, CountedBackend, Reached
      <4>3. Cardinality(To(b, CountedBackend)') = Cardinality(To(b, CountedBackend)) + 1
        BY <2>8, <4>1, <4>2, Joins
      <4>4. QED
        BY <2>10, <3>1, <4>3 DEF RecordBackend, EveryCounterCounts
    <3>2. CASE b # BackendOf(r)
      <4>1. To(b, CountedBackend)' = To(b, CountedBackend)
        BY <2>4, <2>5, <2>10, <3>2 DEF To, CountedBackend, Reached
      <4>2. QED
        BY <2>10, <3>2, <4>1 DEF RecordBackend, EveryCounterCounts
    <3>3. QED
      BY <3>1, <3>2
  <2>13. QED
    BY <2>4, <2>6, <2>7, <2>9, <2>11, <2>12 DEF RecordBackend, EveryCounterCounts
<1>5. TypeOK'
  <2>1. backendCounts' \in [Backends -> Nat]
    BY HasBackend DEF RecordBackend, TypeOK, Inside
  <2>2. pc' \in [Requests -> Stages]
    BY DEF RecordBackend, Goto, TypeOK, Stages
  <2>3. QED
    BY <1>1, <1>2, <2>1, <2>2 DEF RecordBackend, TypeOK, locals, strategy
<1>6. QED
  BY <1>2, <1>3, <1>4, <1>5

(* A kv_aware decision is counted as a hit or as a miss. *)
LEMMA CountLookupStep ==
  ASSUME Ledgers, NEW r \in Requests, CountLookup(r)
  PROVE  Ledgers'
<1> USE DEF Ledgers
<1>1. OthersKept(r) /\ UNCHANGED <<selection, strategy, load, locals>>
  BY DEF CountLookup, Goto, TypeOK, OthersKept, locals, selection
<1>2. InstanceLedger' /\ Sel!TypeOK'
  BY <1>1, UnroutedStep
<1>3. HandlersCoherent'
  <2>1. (StatusFits(r) /\ CallFits(r) /\ UsingFits(r))'
    BY <1>1 DEF CountLookup, Goto, TypeOK, HandlersCoherent, StatusFits, CallFits,
       UsingFits, Named, Inside, locals, selection, strategy
  <2>2. QED
    BY <1>1, <2>1, CoherentStep
<1>4. EveryCounterCounts'
  <2>1. /\ (r \in Accepted)' <=> r \in Accepted
        /\ (r \in UnderWay)' <=> r \in UnderWay
        /\ (r \in Failed)' <=> r \in Failed
    BY DEF CountLookup, Goto, TypeOK, HandlersCoherent, StatusFits, Accepted,
       UnderWay, Failed
  <2>2. /\ (r \in CountedStrategy)' <=> r \in CountedStrategy
        /\ (r \in CountedBackend)' <=> r \in CountedBackend
        /\ (r \in Timed)' <=> r \in Timed
    BY DEF CountLookup, Goto, TypeOK, HandlersCoherent, StatusFits, CountedStrategy,
       CountedBackend, Timed, Reached
  <2>3. /\ r \notin CountedLookup /\ (r \in CountedLookup)'
    BY DEF CountLookup, Goto, TypeOK, HandlersCoherent, StatusFits, CountedLookup, Reached
  <2>4. /\ Accepted' = Accepted
        /\ CountedStrategy' = CountedStrategy
        /\ CountedBackend' = CountedBackend
        /\ Timed' = Timed
        /\ UnderWay' = UnderWay
        /\ Failed' = Failed
        /\ CountedLookup' = CountedLookup \cup {r}
    BY <1>1, <2>1, <2>2, <2>3, SetsFollow
  <2>5. \A q \in Requests : using'[q] = using[q] /\ pick'[q] = pick[q]
    BY <1>1 DEF selection, locals
  <2>6. /\ \A s : Under(s, CountedStrategy)' = Under(s, CountedStrategy)
        /\ \A b : To(b, CountedBackend)' = To(b, CountedBackend)
        /\ \A b : To(b, Timed)' = To(b, Timed)
    BY <1>1, <2>4, SplitsKept
  <2>7. IsFiniteSet(Under("kv_aware", CountedLookup))
    BY CountedAreFinite DEF EveryCounterCounts
  <2>8. Named(r, "kv_aware")
    BY DEF CountLookup, HandlersCoherent, StatusFits, UsingFits
  <2>9. Under("kv_aware", CountedLookup)' = Under("kv_aware", CountedLookup) \cup {r}
    BY <2>4, <2>5, <2>8 DEF Under, Named, CountedLookup, Reached
  <2>10. r \notin Under("kv_aware", CountedLookup)
    BY <2>3 DEF Under
  <2>11. Cardinality(Under("kv_aware", CountedLookup)') = Cardinality(Under("kv_aware", CountedLookup)) + 1
    BY <2>7, <2>9, <2>10, Joins
  <2>12. hits' + misses' = hits + misses + 1
    BY DEF CountLookup, TypeOK
  <2>13. QED
    BY <2>4, <2>6, <2>11, <2>12 DEF CountLookup, EveryCounterCounts
<1>5. TypeOK'
  BY <1>1, <1>2, <1>4 DEF CountLookup, Goto, TypeOK, Stages, locals, strategy
<1>6. QED
  BY <1>2, <1>3, <1>4, <1>5

(* Select returns a decision, and its instance is charged for it. *)
LEMMA RouteStep ==
  ASSUME Ledgers, NEW r \in Requests, NEW b \in Backends, Route(r, b)
  PROVE  Ledgers'
<1> USE DEF Ledgers
<1>1. OthersKept(r) /\ UNCHANGED <<strategy, counters>>
  BY DEF Route, Goto, TypeOK, OthersKept, Sel!TypeOK, Sel!Route, Sel!Return
<1>2. /\ pc[r] = "select" /\ pc'[r] = "countStrategy" /\ status'[r] = status[r] /\ status[r] = 0
      /\ call[r] = "selecting" /\ call'[r] = "routed" /\ pick'[r] = {b} /\ using' = using
  BY DEF Route, Goto, TypeOK, Sel!TypeOK, Sel!Route, Sel!Return, HandlersCoherent,
     StatusFits
<1>3. /\ using[r].instance \in Instances /\ TypeOf(r) = using[r].name
  BY <1>2, UsesObject
<1>4. TypeOK'
  <2>1. Sel!TypeOK'
    BY SelRouteTypes DEF TypeOK, Route
  <2>2. load' \in [Instances \X Backends -> Nat]
    BY <1>3 DEF Route, Charged, TypeOK
  <2>3. pc' \in [Requests -> Stages]
    BY DEF Route, Goto, TypeOK, Stages
  <2>4. hit' \in [Requests -> BOOLEAN]
    BY DEF Route, TypeOK
  <2>5. QED
    BY <1>1, <2>1, <2>2, <2>3, <2>4 DEF Route, TypeOK, counters, strategy
<1>5. HandlersCoherent'
  <2>1. (StatusFits(r) /\ CallFits(r) /\ UsingFits(r))'
    BY <1>1, <1>2 DEF HandlersCoherent, StatusFits, CallFits, UsingFits, Named,
       Inside, strategy
  <2>2. QED
    BY <1>1, <2>1, CoherentStep
<1>6. EveryCounterCounts'
  <2>1. /\ (r \in Accepted)' <=> r \in Accepted
        /\ (r \in UnderWay)' <=> r \in UnderWay
        /\ (r \in Failed)' <=> r \in Failed
    BY <1>2 DEF Accepted, UnderWay, Failed
  <2>2. /\ (r \in CountedStrategy)' <=> r \in CountedStrategy
        /\ (r \in CountedBackend)' <=> r \in CountedBackend
        /\ (r \in CountedLookup)' <=> r \in CountedLookup
        /\ (r \in Timed)' <=> r \in Timed
    BY <1>2 DEF CountedStrategy, CountedBackend, CountedLookup, Timed, Reached
  <2>3. r \notin CountedStrategy
    BY <1>2 DEF CountedStrategy, Reached
  <2>4. QED
    BY <1>1, <1>4, <2>1, <2>2, <2>3, UncountedStep
<1>7. InstanceLedger'
  <2>1. ASSUME NEW i \in Instances, NEW d \in Backends
        PROVE  load'[<<i, d>>] = Cardinality(Holding(i, d)')
    <3>1. r \notin Holding(i, d)
      BY <1>2 DEF Holding
    <3>2. load[<<i, d>>] = Cardinality(Holding(i, d))
      BY DEF InstanceLedger
    <3>3. CASE i = using[r].instance /\ d = b /\ using[r].name \in Counting
      <4>1. Holding(i, d)' = Holding(i, d) \cup {r}
        BY <1>1, <1>2, <3>3 DEF OthersKept, Holding
      <4>2. IsFiniteSet(Holding(i, d))
        BY CountedAreFinite DEF EveryCounterCounts
      <4>3. Cardinality(Holding(i, d)') = Cardinality(Holding(i, d)) + 1
        BY <3>1, <4>1, <4>2, Joins
      <4>4. load'[<<i, d>>] = load[<<i, d>>] + 1
        BY <1>3, <3>3 DEF Route, Charged, TypeOK
      <4>5. QED
        BY <3>2, <4>3, <4>4
    <3>4. CASE ~(i = using[r].instance /\ d = b /\ using[r].name \in Counting)
      <4>1. Holding(i, d)' = Holding(i, d)
        BY <1>1, <1>2, <3>1, <3>4 DEF OthersKept, Holding
      <4>2. load'[<<i, d>>] = load[<<i, d>>]
        BY <1>3, <3>4 DEF Route, Charged, TypeOK
      <4>3. QED
        BY <3>2, <4>1, <4>2
    <3>5. QED
      BY <3>3, <3>4
  <2>2. QED
    BY <2>1 DEF InstanceLedger
<1>8. QED
  BY <1>4, <1>5, <1>6, <1>7

(* The charge is taken off the object it was put on. *)
LEMMA ReleaseStep ==
  ASSUME Ledgers, NEW r \in Requests, Release(r)
  PROVE  Ledgers'
<1> USE DEF Ledgers
<1> DEFINE b == BackendOf(r)
<1>1. OthersKept(r) /\ UNCHANGED <<strategy, counters, locals>>
  BY DEF Release, Goto, TypeOK, OthersKept, Sel!TypeOK, Sel!Release, locals
<1>2. /\ pc[r] = "release" /\ pc'[r] = "done" /\ status'[r] = status[r] /\ status[r] \in {200, 502}
      /\ call[r] = "routed" /\ call'[r] = "released" /\ pick' = pick /\ using' = using
  BY DEF Release, Goto, TypeOK, Sel!TypeOK, Sel!Release, HandlersCoherent,
     StatusFits, locals
<1>3. /\ using[r].instance \in Instances /\ TypeOf(r) = using[r].name
  BY <1>2, UsesObject
<1>4. b \in Backends /\ pick[r] = {b}
  BY <1>2, HasBackend
<1>5. \A i \in Instances, d \in Backends : IsFiniteSet(Holding(i, d))
  BY CountedAreFinite DEF EveryCounterCounts
<1>6. ASSUME using[r].name \in Counting
      PROVE  /\ r \in Holding(using[r].instance, b)
             /\ load[<<using[r].instance, b>>] > 0
  <2>1. r \in Holding(using[r].instance, b)
    BY <1>2, <1>4, <1>6 DEF Holding
  <2>2. Cardinality(Holding(using[r].instance, b)) > 0
    BY <1>3, <1>4, <1>5, <2>1, Leaves
  <2>3. QED
    BY <1>3, <1>4, <2>1, <2>2 DEF InstanceLedger
<1>7. TypeOK'
  <2>1. Sel!TypeOK'
    BY SelCallTypes DEF TypeOK, Release
  <2>2. load' \in [Instances \X Backends -> Nat]
    <3>1. CASE using[r].name \in Counting
      <4>1. load[<<using[r].instance, b>>] + -1 \in Nat
        BY <1>3, <1>4, <1>6, <3>1 DEF TypeOK
      <4>2. load' = [load EXCEPT ![<<using[r].instance, b>>] = @ + -1]
        BY <1>3, <3>1 DEF Release, Discharged, Charged
      <4>3. QED
        BY <4>1, <4>2 DEF TypeOK
    <3>2. CASE using[r].name \notin Counting
      BY <1>3, <3>2 DEF Release, Discharged, Charged, TypeOK
    <3>3. QED
      BY <3>1, <3>2
  <2>3. pc' \in [Requests -> Stages]
    BY DEF Release, Goto, TypeOK, Stages
  <2>4. QED
    BY <1>1, <2>1, <2>2, <2>3 DEF Release, TypeOK, counters, strategy, locals
<1>8. HandlersCoherent'
  <2>1. (StatusFits(r) /\ CallFits(r) /\ UsingFits(r))'
    BY <1>1, <1>2, <1>4 DEF HandlersCoherent, StatusFits, CallFits, UsingFits,
       Named, Inside, strategy
  <2>2. QED
    BY <1>1, <2>1, CoherentStep
<1>9. EveryCounterCounts'
  <2>1. /\ (r \in Accepted)' <=> r \in Accepted
        /\ (r \in UnderWay)' <=> r \in UnderWay
        /\ (r \in Failed)' <=> r \in Failed
    BY <1>2 DEF Accepted, UnderWay, Failed
  <2>2. /\ (r \in CountedStrategy)' <=> r \in CountedStrategy
        /\ (r \in CountedBackend)' <=> r \in CountedBackend
        /\ (r \in CountedLookup)' <=> r \in CountedLookup
        /\ (r \in Timed)' <=> r \in Timed
    BY <1>2 DEF CountedStrategy, CountedBackend, CountedLookup, Timed, Reached
  <2>3. QED
    BY <1>1, <1>2, <1>7, <2>1, <2>2, UncountedStep
<1>10. InstanceLedger'
  <2>1. ASSUME NEW i \in Instances, NEW d \in Backends
        PROVE  load'[<<i, d>>] = Cardinality(Holding(i, d)')
    <3>1. r \notin Holding(i, d)'
      BY <1>2 DEF Holding
    <3>2. load[<<i, d>>] = Cardinality(Holding(i, d))
      BY DEF InstanceLedger
    <3>3. CASE i = using[r].instance /\ d = b /\ using[r].name \in Counting
      <4>1. Holding(i, d)' = Holding(i, d) \ {r}
        BY <1>1, <1>2, <3>1 DEF OthersKept, Holding
      <4>2. r \in Holding(i, d) /\ IsFiniteSet(Holding(i, d))
        BY <1>5, <1>6, <3>3
      <4>3. Cardinality(Holding(i, d)') = Cardinality(Holding(i, d)) - 1
        BY <4>1, <4>2, Leaves
      <4>4. load' = [load EXCEPT ![<<i, d>>] = @ + -1]
        BY <1>3, <3>3 DEF Release, Discharged, Charged
      <4>5. load'[<<i, d>>] = load[<<i, d>>] - 1
        BY <4>4 DEF TypeOK
      <4>6. QED
        BY <3>2, <4>3, <4>5
    <3>4. CASE ~(i = using[r].instance /\ d = b /\ using[r].name \in Counting)
      <4>1. r \notin Holding(i, d)
        BY <1>4, <3>4 DEF Holding
      <4>2. Holding(i, d)' = Holding(i, d)
        BY <1>1, <1>2, <3>1, <4>1 DEF OthersKept, Holding
      <4>3. load'[<<i, d>>] = load[<<i, d>>]
        BY <1>3, <1>4, <3>4 DEF Release, Discharged, Charged, TypeOK
      <4>4. QED
        BY <3>2, <4>2, <4>3
    <3>5. QED
      BY <3>3, <3>4
  <2>2. QED
    BY <2>1 DEF InstanceLedger
<1>11. QED
  BY <1>7, <1>8, <1>9, <1>10

-----------------------------------------------------------------------------
(* A step outside the handlers moves none of what is counted. *)
LEMMA OutsideStep ==
  ASSUME Ledgers, TypeOK', HandlersCoherent',
         UNCHANGED <<counters, load, pc, status, using, call, pick>>
  PROVE  Ledgers'
<1>1. /\ Accepted' = Accepted /\ CountedStrategy' = CountedStrategy
      /\ CountedBackend' = CountedBackend /\ CountedLookup' = CountedLookup
      /\ Timed' = Timed /\ UnderWay' = UnderWay /\ Failed' = Failed
  BY DEF Accepted, CountedStrategy, CountedBackend, CountedLookup, Timed, UnderWay,
     Failed, Reached
<1>2. EveryCounterCounts'
  BY <1>1, CountersKept DEF Ledgers
<1>3. InstanceLedger'
  BY LedgerKept DEF Ledgers
<1>4. QED
  BY <1>2, <1>3 DEF Ledgers

LEMMA SameHandlersCoherent ==
  ASSUME HandlersCoherent, UNCHANGED <<strategy, pc, status, using, call, pick>>
  PROVE  HandlersCoherent'
<1>1. active' = active /\ kind' = kind
  BY DEF strategy
<1>2. ASSUME NEW q \in Requests PROVE (StatusFits(q) /\ CallFits(q) /\ UsingFits(q))'
  BY <1>1 DEF HandlersCoherent, StatusFits, CallFits, UsingFits, Named
<1>3. QED
  BY <1>1, <1>2 DEF HandlersCoherent

LEMMA ProbeStep ==
  ASSUME Ledgers, NEW b \in Flaky, NEW value \in BOOLEAN, Probe(b, value)
  PROVE  Ledgers'
<1> USE DEF Ledgers
<1>1. UNCHANGED <<strategy, counters, load, pc, status, using, call, pick>>
  BY DEF Probe, Sel!SetHealthy, locals
<1>2. Sel!TypeOK'
  BY FlakyAssumption, SelFlagTypes DEF TypeOK, Probe
<1>3. TypeOK'
  BY <1>1, <1>2 DEF Probe, TypeOK, strategy, counters, locals
<1>4. QED
  BY <1>1, <1>3, SameHandlersCoherent, OutsideStep

(* PUT /strategy makes a new object, so the old names stay true. *)
LEMMA SetStrategyStep ==
  ASSUME Ledgers, NEW name \in Strategies, SetStrategy(name)
  PROVE  Ledgers'
<1> USE DEF Ledgers
<1> DEFINE next == active.instance + 1
<1>1. UNCHANGED <<selection, counters, load, pc, status, using, hint, hit, call, pick>>
  BY DEF SetStrategy, locals, selection
<1>2. active.instance \in Instances /\ next \in Instances /\ active.instance < next
  BY SwitchesAssumption DEF SetStrategy, TypeOK, Uses, Instances
<1>3. TypeOK'
  <2>1. Sel!TypeOK'
    BY <1>1, SelKept DEF TypeOK
  <2>2. active' \in Uses /\ kind' \in [Instances -> Strategies \cup {None}]
    BY <1>2 DEF SetStrategy, TypeOK, Uses
  <2>3. QED
    BY <1>1, <2>1, <2>2 DEF SetStrategy, TypeOK, counters
<1>4. HandlersCoherent'
  <2>1. kind'[next] = name /\ \A i \in Instances : i # next => kind'[i] = kind[i]
    BY <1>2 DEF SetStrategy, TypeOK
  <2>2. (active.name = kind[active.instance])'
    BY <2>1 DEF SetStrategy
  <2>3. ASSUME NEW q \in Requests PROVE (StatusFits(q) /\ CallFits(q))'
    BY <1>1 DEF HandlersCoherent, StatusFits, CallFits
  <2>4. ASSUME NEW q \in Requests PROVE UsingFits(q)'
    <3>1. SUFFICES ASSUME pc[q] \notin {"receive", "strategy"}, status[q] \notin Rejections
                   PROVE  /\ using[q] \in Uses
                          /\ using[q].name = kind'[using[q].instance]
                          /\ using[q].instance <= next
                          /\ pc[q] = "countLookup" => using[q].name = "kv_aware"
      BY <1>1 DEF UsingFits, SetStrategy, Named
    <3>2. /\ using[q] \in Uses /\ using[q].name = kind[using[q].instance]
          /\ using[q].instance <= active.instance
          /\ pc[q] = "countLookup" => using[q].name = "kv_aware"
      BY <3>1 DEF HandlersCoherent, UsingFits, Named
    <3>3. using[q].instance \in Instances /\ using[q].instance \in Int
      BY <3>2, SwitchesAssumption DEF Uses, Instances
    <3>4. using[q].instance # next /\ using[q].instance <= next
      BY <1>2, <3>2, <3>3, SwitchesAssumption DEF Instances
    <3>5. QED
      BY <2>1, <3>2, <3>3, <3>4
  <2>5. QED
    BY <2>2, <2>3, <2>4 DEF HandlersCoherent
<1>5. QED
  BY <1>1, <1>3, <1>4, OutsideStep

(* An affinity is lost, or a late write takes effect. *)
LEMMA StoreStep ==
  ASSUME Ledgers,
         \/ \E k \in Keys : Forget(k)
         \/ \E r \in Requests : RememberLate(r)
  PROVE  Ledgers'
<1> USE DEF Ledgers
<1>1. UNCHANGED <<selection, strategy, locals, counters, load, pc, status, using, hint, hit,
                  call, pick, served>>
  BY DEF Forget, RememberLate, selection, locals
<1>2. pref' \in [Keys -> Backends \cup {None}]
  <2>1. ASSUME NEW k \in Keys, Forget(k) PROVE pref' \in [Keys -> Backends \cup {None}]
    BY <2>1 DEF Forget, TypeOK
  <2>2. ASSUME NEW r \in Requests, RememberLate(r) PROVE pref' \in [Keys -> Backends \cup {None}]
    <3>1. BackendOf(r) \in Backends
      BY <2>2, HasBackend DEF RememberLate
    <3>2. QED
      BY <2>2, <3>1, KeyAssumption DEF RememberLate, TypeOK
  <2>3. QED
    BY <2>1, <2>2
<1>3. Sel!TypeOK'
  BY <1>1, SelKept DEF TypeOK
<1>4. TypeOK'
  BY <1>1, <1>2, <1>3 DEF TypeOK, strategy, counters
<1>5. QED
  BY <1>1, <1>4, SameHandlersCoherent, OutsideStep

LEMMA StutterLedgers == Ledgers /\ UNCHANGED vars => Ledgers'
<1> SUFFICES ASSUME Ledgers, UNCHANGED vars PROVE Ledgers'
  OBVIOUS
<1>1. UNCHANGED <<selection, strategy, locals, counters, load, pc, status, using, hint, hit,
                  call, pick, pref, served>>
  BY DEF vars, selection, locals
<1>2. Sel!TypeOK'
  BY <1>1, SelKept DEF Ledgers, TypeOK
<1>3. TypeOK'
  BY <1>1, <1>2 DEF Ledgers, TypeOK, strategy, counters
<1>4. QED
  BY <1>1, <1>3, SameHandlersCoherent, OutsideStep DEF Ledgers

LEMMA InitLedgers == Init => Ledgers
<1> SUFFICES ASSUME Init PROVE Ledgers
  OBVIOUS
<1>1. Sel!TypeOK
  BY DEF Init, Sel!Init, Sel!TypeOK, Sel!Stages
<1>2. active \in Uses /\ kind \in [Instances -> Strategies \cup {None}]
  BY SwitchesAssumption, StrategiesAssumption DEF Init, Uses, Instances
<1>3. TypeOK
  BY <1>1, <1>2 DEF Init, TypeOK, Stages
<1>4. HandlersCoherent
  <2>1. active.name = kind[active.instance]
    BY SwitchesAssumption DEF Init, Instances
  <2>2. ASSUME NEW r \in Requests PROVE StatusFits(r) /\ CallFits(r) /\ UsingFits(r)
    BY DEF Init, Sel!Init, StatusFits, CallFits, UsingFits, Inside
  <2>3. QED
    BY <2>1, <2>2 DEF HandlersCoherent
<1>5. \A i \in Instances, b \in Backends : Holding(i, b) = {}
  BY DEF Init, Sel!Init, Holding
<1>6. InstanceLedger
  BY <1>5, FS_EmptySet DEF Init, InstanceLedger
<1>7. /\ Accepted = {} /\ CountedStrategy = {} /\ CountedBackend = {} /\ CountedLookup = {}
      /\ Timed = {} /\ UnderWay = {} /\ Failed = {}
  BY DEF Init, Accepted, CountedStrategy, CountedBackend, CountedLookup, Timed, UnderWay,
     Failed, Reached
<1>8. /\ \A s : Under(s, CountedStrategy) = {} /\ Under(s, CountedLookup) = {}
      /\ \A b : To(b, CountedBackend) = {} /\ To(b, Timed) = {}
  BY <1>7 DEF Under, To
<1>9. Units(strategyCounts) = {} /\ Units(backendCounts) = {}
  BY DEF Init, Units
<1>10. EveryCounterCounts
  <2>1. IsFiniteSet({}) /\ Cardinality({}) = 0
    BY FS_EmptySet
  <2>2. /\ Total(strategyCounts) = 0 /\ IsFiniteSet(Units(strategyCounts))
        /\ Total(backendCounts) = 0 /\ IsFiniteSet(Units(backendCounts))
    BY <1>9, <2>1 DEF Total
  <2>3. /\ requestsTotal = 0 /\ hits + misses = 0 /\ inFlight = 0 /\ backendErrors = 0
        /\ \A s \in Strategies : strategyCounts[s] = 0
        /\ \A b \in Backends : backendCounts[b] = 0 /\ measured[b] = 0
    BY DEF Init
  <2>4. QED
    BY <1>7, <1>8, <2>1, <2>2, <2>3 DEF EveryCounterCounts
<1>11. QED
  BY <1>3, <1>4, <1>6, <1>10 DEF Ledgers

LEMMA HandleLedgers ==
  ASSUME Ledgers, NEW r \in Requests, Handle(r)
  PROVE  Ledgers'
<1>1. CASE \E b \in Backends : Route(r, b)
  BY <1>1, RouteStep
<1>2. CASE \E ok \in BOOLEAN : Answer(r, ok)
  BY <1>2, AnswerStep
<1>3. CASE Reject(r) \/ Receive(r) \/ ActiveStrategy(r) \/ Begin(r) \/ Lookup(r) \/ Refuse(r)
  BY <1>3, RejectStep, ReceiveStep, ActiveStrategyStep, BeginStep, LookupStep, RefuseStep
<1>4. CASE RecordStrategy(r) \/ RecordBackend(r) \/ CountLookup(r) \/ IncInFlight(r)
  BY <1>4, RecordStrategyStep, RecordBackendStep, CountLookupStep, IncInFlightStep
<1>5. CASE KnockDown(r) \/ CountError(r) \/ RecordAffinity(r) \/ DecInFlight(r) \/ Release(r)
  BY <1>5, KnockDownStep, CountErrorStep, RecordAffinityStep, DecInFlightStep, ReleaseStep
<1>6. QED
  BY <1>1, <1>2, <1>3, <1>4, <1>5 DEF Handle

LEMMA StepLedgers == Ledgers /\ [Next]_vars => Ledgers'
<1> SUFFICES ASSUME Ledgers, Next PROVE Ledgers'
  BY StutterLedgers
<1>1. CASE \E b \in Flaky, value \in BOOLEAN : Probe(b, value)
  BY <1>1, ProbeStep
<1>2. CASE \E name \in Strategies : SetStrategy(name)
  BY <1>2, SetStrategyStep
<1>3. CASE \E k \in Keys : Forget(k)
  BY <1>3, StoreStep
<1>4. CASE \E r \in Requests : Handle(r)
  BY <1>4, HandleLedgers
<1>5. CASE \E r \in Requests : RememberLate(r)
  BY <1>5, StoreStep
<1>6. QED
  BY <1>1, <1>2, <1>3, <1>4, <1>5 DEF Next

(***************************************************************************)
(* The handlers, PUT /strategy, the prober and the store keep every        *)
(* variable in its domain; in particular neither the gauge of requests in  *)
(* flight nor a strategy's counter is ever taken below zero.               *)
(***************************************************************************)
THEOREM TypeCorrect == Spec => []TypeOK
<1>1. Ledgers => TypeOK
  BY DEF Ledgers
<1>2. QED
  BY <1>1, InitLedgers, StepLedgers, PTL DEF Spec

(***************************************************************************)
(* However often PUT /strategy replaces the active object, each object's   *)
(* counters are the unreleased decisions it made itself: a request takes   *)
(* name and object together (server.go:205-209) and releases where it was  *)
(* charged.                                                                *)
(***************************************************************************)
THEOREM LedgerPerInstance == Spec => []InstanceLedger
<1>1. Ledgers => InstanceLedger
  BY DEF Ledgers
<1>2. QED
  BY <1>1, InitLedgers, StepLedgers, PTL DEF Spec

-----------------------------------------------------------------------------
(* When no request is under way, what the counters count coincides. *)
LEMMA RestBalances ==
  ASSUME Ledgers
  PROVE  BooksBalance
<1> SUFFICES ASSUME AtRest
             PROVE  /\ inFlight = 0 /\ \A x \in Instances \X Backends : load[x] = 0
                    /\ requestsTotal = Total(strategyCounts) + Cardinality(Answered(503))
                    /\ Total(strategyCounts) = Total(backendCounts)
                    /\ measured = backendCounts
                    /\ "kv_aware" \in Strategies => hits + misses = strategyCounts["kv_aware"]
                    /\ backendErrors = Cardinality(Answered(502))
  BY DEF BooksBalance
<1> USE DEF Ledgers
<1>1. CountedBackend = CountedStrategy /\ CountedLookup = CountedStrategy /\ Timed = CountedStrategy
  BY DEF AtRest, CountedStrategy, CountedBackend, CountedLookup, Timed, Reached
<1>2. UnderWay = {} /\ Failed = Answered(502)
  BY DEF AtRest, UnderWay, Failed, Answered, HandlersCoherent, StatusFits
<1>3. inFlight = 0 /\ backendErrors = Cardinality(Answered(502))
  BY <1>2, FS_EmptySet DEF EveryCounterCounts
<1>4. ASSUME NEW i \in Instances, NEW b \in Backends PROVE load[<<i, b>>] = 0
  <2>1. Holding(i, b) = {}
    BY DEF AtRest, Holding, HandlersCoherent, CallFits, Inside
  <2>2. QED
    BY <2>1, FS_EmptySet DEF InstanceLedger
<1>5. requestsTotal = Total(strategyCounts) + Cardinality(Answered(503))
  <2>1. Accepted = CountedStrategy \cup Answered(503)
    BY DEF AtRest, Accepted, CountedStrategy, Reached, Answered, HandlersCoherent,
       StatusFits, TypeOK
  <2>2. CountedStrategy \cap Answered(503) = {}
    BY DEF AtRest, CountedStrategy, Reached, Answered
  <2>3. IsFiniteSet(CountedStrategy) /\ IsFiniteSet(Answered(503))
    BY <2>1, FS_Subset DEF EveryCounterCounts
  <2>4. Cardinality(Accepted) = Cardinality(CountedStrategy) + Cardinality(Answered(503)) - 0
    BY <2>1, <2>2, <2>3, FS_Union, FS_EmptySet
  <2>5. Cardinality(CountedStrategy) \in Nat /\ Cardinality(Answered(503)) \in Nat
    BY <2>3, FS_CardinalityType
  <2>6. QED
    BY <2>4, <2>5 DEF EveryCounterCounts
<1>6. Total(strategyCounts) = Total(backendCounts)
  BY <1>1 DEF EveryCounterCounts
<1>7. measured = backendCounts
  <2>1. ASSUME NEW b \in Backends PROVE measured[b] = backendCounts[b]
    BY <1>1 DEF EveryCounterCounts
  <2>2. QED
    BY <2>1 DEF TypeOK
<1>8. "kv_aware" \in Strategies => hits + misses = strategyCounts["kv_aware"]
  BY <1>1 DEF EveryCounterCounts
<1>9. \A x \in Instances \X Backends : load[x] = 0
  BY <1>4
<1>10. QED
  BY <1>3, <1>5, <1>6, <1>7, <1>8, <1>9

(***************************************************************************)
(* The counters add up whenever no request is under way, on every path     *)
(* through the handler (server.go:180-247): refused, failed, answered, hit *)
(* or missed, and whichever strategies were active in between.             *)
(***************************************************************************)
THEOREM BooksAlwaysBalance == Spec => []BooksBalance
<1>1. Ledgers => BooksBalance
  BY RestBalances
<1>2. QED
  BY <1>1, InitLedgers, StepLedgers, PTL DEF Spec

-----------------------------------------------------------------------------
(* What the store names was earned, and so is every hit made of it. *)
Earned == StoreIsEarned /\ HitIsEarned

LEMMA InitEarned == Init => Earned
BY DEF Init, Sel!Init, Earned, StoreIsEarned, HitIsEarned

(* A step that takes nothing from the store and chooses no backend. *)
LEMMA EarnedKept ==
  ASSUME Earned, served \subseteq served', UNCHANGED <<hint, hit, pick>>,
         \A k \in Keys : pref'[k] \in {pref[k], None},
         \A r \in Requests : pc'[r] = "remember" \/ status'[r] = 200 =>
             pc[r] = "remember" \/ status[r] = 200 \/ <<KeyOf[r], BackendOf(r)>> \in served'
  PROVE  Earned'
<1>1. \A r \in Requests : BackendOf(r)' = BackendOf(r)
  BY DEF BackendOf
<1>2. StoreIsEarned'
  BY <1>1 DEF Earned, StoreIsEarned
<1>3. HitIsEarned'
  BY DEF Earned, HitIsEarned
<1>4. QED
  BY <1>2, <1>3 DEF Earned

LEMMA StepEarned == Ledgers /\ Earned /\ [Next]_vars => Earned'
<1> SUFFICES ASSUME Ledgers, Earned, [Next]_vars PROVE Earned'
  OBVIOUS
<1> USE DEF Ledgers
<1>1. ASSUME NEW r \in Requests, NEW b \in Backends, Route(r, b) PROVE Earned'
  <2>1. /\ pc[r] = "select" /\ pc'[r] = "countStrategy" /\ status' = status /\ status[r] = 0
        /\ \A q \in Requests \ {r} : pc'[q] = pc[q] /\ pick'[q] = pick[q] /\ hit'[q] = hit[q]
        /\ pick'[r] = {b} /\ (hit'[r] => hint[r] = b)
        /\ UNCHANGED <<hint, pref, served>>
    BY <1>1 DEF Route, Goto, TypeOK, Sel!TypeOK, Sel!Route, HandlersCoherent, StatusFits
  <2>2. \A q \in Requests \ {r} : BackendOf(q)' = BackendOf(q)
    BY <2>1 DEF BackendOf
  <2>3. StoreIsEarned'
    BY <2>1, <2>2 DEF Earned, StoreIsEarned
  <2>4. HitIsEarned'
    BY <2>1, NoneAssumption DEF Earned, StoreIsEarned, HitIsEarned
  <2>5. QED
    BY <2>3, <2>4 DEF Earned
<1>2. ASSUME NEW r \in Requests, Lookup(r) PROVE Earned'
  <2>1. /\ UNCHANGED <<hit, pick, pref, status, served>>
        /\ \A q \in Requests : pc'[q] = "remember" => pc[q] = "remember"
        /\ \A q \in Requests : hint'[q] = hint[q] \/ hint'[q] = pref[KeyOf[q]]
    BY <1>2 DEF Lookup, Goto, TypeOK, selection
  <2>2. \A q \in Requests : BackendOf(q)' = BackendOf(q) /\ KeyOf[q] \in Keys
    BY <2>1, KeyAssumption DEF BackendOf
  <2>3. StoreIsEarned' /\ HitIsEarned'
    BY <2>1, <2>2 DEF Earned, StoreIsEarned, HitIsEarned
  <2>4. QED
    BY <2>3 DEF Earned
<1>3. ASSUME NEW r \in Requests, RecordAffinity(r) \/ RememberLate(r) PROVE Earned'
  <2>1. /\ UNCHANGED <<hint, hit, pick, served>>
        /\ pc[r] = "remember" \/ status[r] = 200
        /\ \A q \in Requests : pc'[q] = "remember" => pc[q] = "remember"
        /\ \A q \in Requests : status'[q] = 200 => status[q] = 200 \/ q = r
        /\ \A k \in Keys : pref'[k] = pref[k] \/ (k = KeyOf[r] /\ pref'[k] = BackendOf(r))
    BY <1>3 DEF RecordAffinity, RememberLate, Goto, TypeOK, locals, selection
  <2>2. \A q \in Requests : BackendOf(q)' = BackendOf(q)
    BY <2>1 DEF BackendOf
  <2>3. StoreIsEarned' /\ HitIsEarned'
    BY <2>1, <2>2 DEF Earned, StoreIsEarned, HitIsEarned
  <2>4. QED
    BY <2>3 DEF Earned
<1>4. ASSUME NEW r \in Requests, NEW ok \in BOOLEAN, Answer(r, ok) PROVE Earned'
  <2>1. /\ UNCHANGED <<hint, hit, pick, pref, status>> /\ served \subseteq served'
        /\ \A q \in Requests \ {r} : pc'[q] = pc[q]
        /\ pc'[r] = "remember" => <<KeyOf[r], BackendOf(r)>> \in served'
        /\ pc[r] = "send"
    BY <1>4 DEF Answer, AfterFailure, Goto, TypeOK, locals, selection
  <2>2. QED
    BY <2>1, EarnedKept
<1>5. ASSUME NEW k \in Keys, Forget(k) PROVE Earned'
  <2>1. UNCHANGED <<hint, hit, pick, pc, status, served>>
    BY <1>5 DEF Forget, locals, selection
  <2>2. \A j \in Keys : pref'[j] \in {pref[j], None}
    BY <1>5 DEF Forget, TypeOK
  <2>3. QED
    BY <2>1, <2>2, EarnedKept
<1>6. ASSUME NEW r \in Requests,
             \/ Reject(r) \/ Receive(r) \/ ActiveStrategy(r) \/ Begin(r) \/ Refuse(r)
             \/ RecordStrategy(r) \/ RecordBackend(r) \/ CountLookup(r) \/ IncInFlight(r)
             \/ KnockDown(r) \/ CountError(r) \/ DecInFlight(r) \/ Release(r)
      PROVE  Earned'
  <2>1. UNCHANGED <<hint, hit, pick, pref, served>>
    BY <1>6 DEF Reject, Receive, ActiveStrategy, Begin, Refuse, RecordStrategy,
       RecordBackend, CountLookup, IncInFlight, KnockDown, CountError, DecInFlight,
       Release, locals, selection, Sel!Begin, Sel!Refuse, Sel!SetHealthy,
       Sel!Release
  <2>2. /\ \A q \in Requests : pc'[q] = "remember" => pc[q] = "remember"
        /\ \A q \in Requests : status'[q] = 200 => status[q] = 200
    <3>1. CASE Reject(r)
      BY <3>1 DEF Reject, Goto, TypeOK
    <3>2. CASE Receive(r)
      BY <3>2 DEF Receive, Goto, TypeOK
    <3>3. CASE ActiveStrategy(r)
      BY <3>3 DEF ActiveStrategy, Goto, TypeOK
    <3>4. CASE Begin(r)
      BY <3>4 DEF Begin, Goto, TypeOK
    <3>5. CASE Refuse(r)
      BY <3>5 DEF Refuse, Goto, TypeOK
    <3>6. CASE RecordStrategy(r)
      BY <3>6 DEF RecordStrategy, Goto, TypeOK
    <3>7. CASE RecordBackend(r)
      BY <3>7 DEF RecordBackend, Goto, TypeOK
    <3>8. CASE CountLookup(r)
      BY <3>8 DEF CountLookup, Goto, TypeOK
    <3>9. CASE IncInFlight(r)
      BY <3>9 DEF IncInFlight, Goto, TypeOK
    <3>10. CASE KnockDown(r)
      BY <3>10 DEF KnockDown, Goto, TypeOK
    <3>11. CASE CountError(r)
      BY <3>11 DEF CountError, Goto, TypeOK, AfterError
    <3>12. CASE DecInFlight(r)
      BY <3>12 DEF DecInFlight, Goto, TypeOK
    <3>13. CASE Release(r)
      BY <3>13 DEF Release, Goto, TypeOK
    <3>14. QED
      BY <1>6, <3>1, <3>2, <3>3, <3>4, <3>5, <3>6, <3>7, <3>8, <3>9, <3>10, <3>11,
         <3>12, <3>13
  <2>3. QED
    BY <2>1, <2>2, EarnedKept
<1>7. CASE \E b \in Flaky, value \in BOOLEAN : Probe(b, value)
  <2>1. UNCHANGED <<hint, hit, pick, pref, pc, status, served>>
    BY <1>7 DEF Probe, Sel!SetHealthy, locals
  <2>2. QED
    BY <2>1, EarnedKept
<1>8. CASE (\E name \in Strategies : SetStrategy(name)) \/ UNCHANGED vars
  <2>1. UNCHANGED <<hint, hit, pick, pref, pc, status, served>>
    BY <1>8 DEF SetStrategy, vars, locals, selection
  <2>2. QED
    BY <2>1, EarnedKept
<1>9. QED
  BY <1>1, <1>2, <1>3, <1>4, <1>5, <1>6, <1>7, <1>8 DEF Next, Handle

(***************************************************************************)
(* A cache hit reported to the client names a backend that has answered a  *)
(* request with that key (server.go:212-226, 243), through lost and late   *)
(* affinities and lookups that are stale when the decision is made.        *)
(***************************************************************************)
THEOREM HitsAreEarned == Spec => []HitIsEarned
<1>1. Earned => HitIsEarned
  BY DEF Earned
<1>2. QED
  BY <1>1, InitLedgers, StepLedgers, InitEarned, StepEarned, PTL DEF Spec

-----------------------------------------------------------------------------
(* Reports.  The theorems below are about ReportsSpec: ChatServer with a   *)
(* reader beside it.                                                       *)

(* The reader writes nothing of the server. *)
LEMMA ReaderOnlyReads == [ReportsNext]_<<vars, reader>> => [Next]_vars
BY DEF ReportsNext, Ask, Load, ReadField, LoadKey, CheckFlag, Reads, reader

LEMMA KeyedIs ==
  /\ DOMAIN Keyed = {"strategies", "backends"}
  /\ Keyed["strategies"] = Strategies /\ Keyed["backends"] = Backends
  /\ Counts["strategies"] = strategyCounts /\ Counts["backends"] = backendCounts
BY DEF Keyed, Counts

LEMMA LoadsIs ==
  /\ DOMAIN Loads = {"inFlight", "total", "errors", "hits", "misses", "latencies"}
  /\ Loads["inFlight"] = inFlight /\ Loads["total"] = requestsTotal
  /\ Loads["errors"] = backendErrors /\ Loads["hits"] = hits /\ Loads["misses"] = misses
  /\ Loads["latencies"] = {b \in Backends : measured[b] > 0}
BY DEF Loads

LEMMA PlanIs ==
  /\ DOMAIN Plan = {"metrics", "status", "readyz"}
  /\ Plan["metrics"] = Metrics /\ Plan["status"] = Status /\ Plan["readyz"] = Readyz
BY DEF Plan

LEMMA MetricsIs ==
  /\ Len(Metrics) = 7
  /\ Metrics[1] = {"inFlight"} /\ Metrics[2] = {"total"} /\ Metrics[3] = {"errors"}
  /\ Metrics[4] = {"strategies"} /\ Metrics[5] = Strategies
  /\ Metrics[6] = {"backends"} /\ Metrics[7] = Backends
BY DEF Metrics

LEMMA StatusIs ==
  /\ Len(Status) = 8
  /\ Status[1] = {"latencies"} /\ Status[2] = {"backends"} /\ Status[3] = Backends
  /\ Status[4] = {"hits"} /\ Status[5] = {"misses"} /\ Status[6] = {"total"}
  /\ Status[7] = {"inFlight"} /\ Status[8] = {"errors"}
BY DEF Status

(* The names of single counters, strategies and backends do not overlap. *)
LEMMA NamesApart ==
  /\ Strategies \cap Backends = {}
  /\ \A x \in DOMAIN Loads \cup DOMAIN Keyed : x \notin Strategies /\ x \notin Backends
  /\ DOMAIN Loads \cap DOMAIN Keyed = {}
BY NamesAssumption, StrategiesAssumption, KeyedIs, LoadsIs

LEMMA MetricsApart ==
  \A i, j \in 1..7 : i # j => Metrics[i] \cap Metrics[j] = {}
<1>1. \A i \in 1..7 : i = 1 \/ i = 2 \/ i = 3 \/ i = 4 \/ i = 5 \/ i = 6 \/ i = 7
  OBVIOUS
<1>2. QED
  BY <1>1, MetricsIs, NamesApart, LoadsIs, KeyedIs

LEMMA StatusApart ==
  \A i, j \in 1..8 : i # j => Status[i] \cap Status[j] = {}
<1>1. \A i \in 1..8 : i = 1 \/ i = 2 \/ i = 3 \/ i = 4 \/ i = 5 \/ i = 6 \/ i = 7 \/ i = 8
  OBVIOUS
<1>2. QED
  BY <1>1, StatusIs, NamesApart, LoadsIs, KeyedIs

(* A plan names everything once, and the field of a map before its keys. *)
LEMMA PlanNamesOnce ==
  ASSUME NEW k \in {"metrics", "status"}
  PROVE  /\ Len(Plan[k]) \in Nat /\ Plan[k] \in Seq(SUBSET UNION {Plan[k][i] : i \in 1..Len(Plan[k])})
         /\ \A i, j \in 1..Len(Plan[k]) : i # j => Plan[k][i] \cap Plan[k][j] = {}
         /\ \A m \in DOMAIN Keyed, i \in 1..Len(Plan[k]) :
              m \in Plan[k][i] => /\ Plan[k][i] = {m} /\ i + 1 \in 1..Len(Plan[k])
                                  /\ Plan[k][i + 1] = Keyed[m]
<1> DEFINE P == Plan[k]
           U == UNION {P[i] : i \in 1..Len(P)}
<1>1. CASE k = "metrics"
  <2>1. P = Metrics /\ Len(P) = 7
    BY <1>1, PlanIs, MetricsIs
  <2>2. \A i \in 1..7 : i = 1 \/ i = 2 \/ i = 3 \/ i = 4 \/ i = 5 \/ i = 6 \/ i = 7
    OBVIOUS
  <2>3. ASSUME NEW m \in DOMAIN Keyed, NEW i \in 1..7, m \in Metrics[i]
        PROVE  Metrics[i] = {m} /\ i + 1 \in 1..7 /\ Metrics[i + 1] = Keyed[m]
    BY <2>2, <2>3, MetricsIs, NamesApart, LoadsIs, KeyedIs
  <2>4. \A i \in 1..7 : P[i] \in SUBSET U
    BY <2>1
  <2>5. P \in Seq(SUBSET U)
    BY <2>1, <2>4 DEF Metrics
  <2>6. QED
    BY <2>1, <2>3, <2>5, MetricsApart
<1>2. CASE k = "status"
  <2>1. P = Status /\ Len(P) = 8
    BY <1>2, PlanIs, StatusIs
  <2>2. \A i \in 1..8 : i = 1 \/ i = 2 \/ i = 3 \/ i = 4 \/ i = 5 \/ i = 6 \/ i = 7 \/ i = 8
    OBVIOUS
  <2>3. ASSUME NEW m \in DOMAIN Keyed, NEW i \in 1..8, m \in Status[i]
        PROVE  Status[i] = {m} /\ i + 1 \in 1..8 /\ Status[i + 1] = Keyed[m]
    BY <2>2, <2>3, StatusIs, NamesApart, LoadsIs, KeyedIs
  <2>4. \A i \in 1..8 : P[i] \in SUBSET U
    BY <2>1
  <2>5. P \in Seq(SUBSET U)
    BY <2>1, <2>4 DEF Status
  <2>6. QED
    BY <2>1, <2>3, <2>5, StatusApart
<1>3. QED
  BY <1>1, <1>2

(* Sequences without their first element, or with another one. *)
LEMMA TailIs ==
  ASSUME NEW S, NEW s \in Seq(S), s # << >>
  PROVE  /\ Tail(s) \in Seq(S) /\ Len(Tail(s)) = Len(s) - 1 /\ Len(s) \in Nat \ {0}
         /\ Head(s) = s[1] /\ Head(s) \in S
         /\ \A j \in 1..Len(s) - 1 : Tail(s)[j] = s[j + 1]
OBVIOUS

LEMMA NotEmpty ==
  ASSUME NEW S, NEW s \in Seq(S), Len(s) > 0
  PROVE  s # << >>
OBVIOUS

LEMMA NewHeadIs ==
  ASSUME NEW S, NEW s \in Seq(S), s # << >>, NEW h \in S, NEW t, t = <<h>> \o Tail(s)
  PROVE  /\ t \in Seq(S) /\ Len(t) = Len(s) /\ Head(t) = h /\ t # << >>
         /\ \A j \in 2..Len(s) : t[j] = s[j]
OBVIOUS

-----------------------------------------------------------------------------
(* A plan in which every name occurs once. *)
Proper(plan) ==
    /\ Len(plan) \in Nat
    /\ \A i, j \in 1..Len(plan) : i # j => plan[i] \cap plan[j] = {}

(* The set at hand is the at-th of the plan. *)
Here(plan, l, read, at) ==
  /\ at \in 1..Len(plan) /\ Len(l) \in Nat \ {0}
  /\ l \in Seq(SUBSET UNION {plan[i] : i \in 1..Len(plan)}) /\ Head(l) = l[1]
  /\ \A j \in 2..Len(l) : l[j] = plan[at + j - 1]
  /\ \A i \in 1..Len(plan) : i < at => plan[i] \ DOMAIN Keyed \subseteq read
  /\ \A i \in 1..Len(plan) : i > at => plan[i] \cap read = {}
  /\ Head(l) \subseteq plan[at] /\ Head(l) \cap read = {}
  /\ (plan[at] \ Head(l)) \ DOMAIN Keyed \subseteq read
  /\ \A x \in plan[at] : \A i \in 1..Len(plan) : i # at => x \notin plan[i]

LEMMA InOrderHere ==
  ASSUME NEW plan, Proper(plan), NEW l, NEW read, InOrder(plan, l, read), l # << >>,
         NEW at, at = Len(plan) - Len(l) + 1
  PROVE  Here(plan, l, read, at)
<1>1. /\ l \in Seq(SUBSET UNION {plan[i] : i \in 1..Len(plan)})
      /\ at \in 1..Len(plan) + 1
      /\ \A j \in 2..Len(l) : l[j] = plan[at + j - 1]
      /\ \A i \in 1..Len(plan) :
          /\ i < at => plan[i] \ DOMAIN Keyed \subseteq read
          /\ i = at => /\ Head(l) \subseteq plan[i] /\ Head(l) \cap read = {}
                       /\ (plan[i] \ Head(l)) \ DOMAIN Keyed \subseteq read
          /\ i > at => plan[i] \cap read = {}
  BY DEF InOrder
<1>2. Len(l) \in Nat \ {0} /\ Head(l) = l[1]
  BY <1>1, TailIs
<1>3. at \in 1..Len(plan)
  BY <1>1, <1>2 DEF Proper
<1>4. \A x \in plan[at] : \A i \in 1..Len(plan) : i # at => x \notin plan[i]
  BY <1>3 DEF Proper
<1>5. QED
  BY <1>1, <1>2, <1>3, <1>4 DEF Here

(* Going on to the next set of the plan, or to the one after it. *)
LEMMA NextSetInOrder ==
  ASSUME NEW plan, Proper(plan), NEW l, NEW t, NEW read, NEW now, NEW d \in {1, 2},
         NEW at, at = Len(plan) - Len(l) + 1, at \in 1..Len(plan), Len(l) \in Nat,
         t \in Seq(SUBSET UNION {plan[i] : i \in 1..Len(plan)}), Len(t) = Len(l) - d,
         \A j \in 1..Len(t) : t[j] = l[j + d],
         \A j \in 2..Len(l) : l[j] = plan[at + j - 1],
         \A i \in 1..Len(plan) : i < at + d => plan[i] \ DOMAIN Keyed \subseteq now,
         \A i \in 1..Len(plan) : i >= at + d => plan[i] \cap now = {}
  PROVE  InOrder(plan, t, now)
<1> DEFINE to == Len(plan) - Len(t) + 1
<1>1. Len(plan) \in Nat /\ Len(t) \in Nat
  BY DEF Proper
<1>2. to = at + d /\ to \in 1..Len(plan) + 1
  BY <1>1
<1>3. ASSUME NEW j \in 1..Len(t) PROVE t[j] = plan[to + j - 1]
  <2>1. j + d \in 2..Len(l) /\ at + (j + d) - 1 = to + j - 1
    BY <1>1, <1>2
  <2>2. t[j] = l[j + d] /\ l[j + d] = plan[at + (j + d) - 1]
    BY <2>1
  <2>3. QED
    BY <2>1, <2>2
<1>4. \A j \in 2..Len(t) : t[j] = plan[to + j - 1]
  BY <1>1, <1>3
<1>5. ASSUME NEW i \in 1..Len(plan), i = to
      PROVE  Head(t) = plan[i] /\ plan[i] \cap now = {}
  <2>1. Len(t) > 0
    BY <1>1, <1>2, <1>5
  <2>2. Head(t) = t[1] /\ t[1] = plan[to + 1 - 1] /\ to + 1 - 1 = i
    BY <1>1, <1>2, <1>3, <1>5, <2>1
  <2>3. i >= at + d
    BY <1>2, <1>5
  <2>4. QED
    BY <2>2, <2>3
<1>6. ASSUME NEW i \in 1..Len(plan)
      PROVE  /\ i < to => plan[i] \ DOMAIN Keyed \subseteq now
             /\ i > to => plan[i] \cap now = {}
  <2>1. i > to => i >= at + d
    BY <1>1, <1>2
  <2>2. QED
    BY <1>2, <2>1
<1>7. QED
  BY <1>1, <1>2, <1>4, <1>5, <1>6 DEF InOrder

(* Reading one value of the set at hand keeps the order. *)
LEMMA OneReadInOrder ==
  ASSUME NEW plan, Proper(plan), NEW l, NEW read, InOrder(plan, l, read), l # << >>,
         NEW x \in Head(l), x \notin DOMAIN Keyed
  PROVE  InOrder(plan, IF Head(l) = {x} THEN Tail(l) ELSE <<Head(l) \ {x}>> \o Tail(l),
                 read \cup {x})
<1> DEFINE at == Len(plan) - Len(l) + 1
           U == UNION {plan[i] : i \in 1..Len(plan)}
           now == read \cup {x}
<1>1. at = Len(plan) - Len(l) + 1
  OBVIOUS
<1> HIDE DEF at
<1>2. /\ at \in 1..Len(plan) /\ Len(l) \in Nat \ {0} /\ l \in Seq(SUBSET U)
      /\ \A j \in 2..Len(l) : l[j] = plan[at + j - 1]
      /\ \A i \in 1..Len(plan) : i < at => plan[i] \ DOMAIN Keyed \subseteq read
      /\ \A i \in 1..Len(plan) : i > at => plan[i] \cap read = {}
      /\ Head(l) \subseteq plan[at] /\ Head(l) \cap read = {}
      /\ (plan[at] \ Head(l)) \ DOMAIN Keyed \subseteq read
      /\ \A i \in 1..Len(plan) : i # at => x \notin plan[i]
  <2>1. Here(plan, l, read, at)
    BY <1>1, InOrderHere
  <2>2. QED
    BY <2>1 DEF Here
<1>3. Len(plan) \in Nat
  BY DEF Proper
<1>4. \A i \in 1..Len(plan) : i > at => plan[i] \cap now = {}
  BY <1>2
<1>5. CASE Head(l) = {x}
  <2>1. /\ Tail(l) \in Seq(SUBSET U) /\ Len(Tail(l)) = Len(l) - 1
        /\ \A j \in 1..Len(l) - 1 : Tail(l)[j] = l[j + 1]
    BY <1>2, TailIs
  <2>2. ASSUME NEW i \in 1..Len(plan), i < at + 1
        PROVE  plan[i] \ DOMAIN Keyed \subseteq now
    <3>1. i < at \/ i = at
      BY <1>2, <1>3, <2>2
    <3>2. QED
      BY <1>2, <1>5, <3>1
  <2>3. \A i \in 1..Len(plan) : i >= at + 1 => plan[i] \cap now = {}
    BY <1>2, <1>3, <1>4
  <2>4. InOrder(plan, Tail(l), now)
    BY <1>2, <2>1, <2>2, <2>3, NextSetInOrder DEF at
  <2>5. QED
    BY <1>5, <2>4
<1>6. CASE Head(l) # {x}
  <2> DEFINE t == <<Head(l) \ {x}>> \o Tail(l)
  <2>1. Head(l) \ {x} \in SUBSET U
    BY <1>2, TailIs
  <2>2. /\ t \in Seq(SUBSET U) /\ Len(t) = Len(l) /\ Head(t) = Head(l) \ {x}
        /\ \A j \in 2..Len(l) : t[j] = l[j]
    BY <1>2, <2>1, NewHeadIs
  <2> HIDE DEF t
  <2>3. /\ Head(t) \subseteq plan[at] /\ Head(t) \cap now = {}
        /\ (plan[at] \ Head(t)) \ DOMAIN Keyed \subseteq now
    BY <1>2, <2>2
  <2>4. \A j \in 2..Len(t) : t[j] = plan[at + j - 1]
    BY <1>2, <2>2
  <2>5. \A i \in 1..Len(plan) : i < at => plan[i] \ DOMAIN Keyed \subseteq now
    BY <1>2
  <2>6. Len(plan) - Len(t) + 1 = at /\ at \in 1..Len(plan) + 1
    BY <1>2, <1>3, <2>2 DEF at
  <2>7. InOrder(plan, t, now)
    BY <1>4, <2>2, <2>3, <2>4, <2>5, <2>6 DEF InOrder
  <2>8. QED
    BY <1>6, <2>7 DEF t
<1>7. QED
  BY <1>5, <1>6

(* Reading the field of a map: its keys come next, or count as read. *)
LEMMA FieldReadInOrder ==
  ASSUME NEW k \in {"metrics", "status"}, NEW l, NEW read, InOrder(Plan[k], l, read),
         l # << >>, NEW m \in DOMAIN Keyed, m \in Head(l)
  PROVE  InOrder(Plan[k], Tail(l), read) /\ InOrder(Plan[k], Tail(Tail(l)), read \cup Keyed[m])
<1> DEFINE plan == Plan[k]
           at == Len(plan) - Len(l) + 1
           U == UNION {plan[i] : i \in 1..Len(plan)}
           now == read \cup Keyed[m]
<1>1. Proper(plan) /\ InOrder(plan, l, read)
  BY PlanNamesOnce DEF Proper
<1>2. at = Len(plan) - Len(l) + 1
  OBVIOUS
<1> HIDE DEF at, plan
<1>3. /\ at \in 1..Len(plan) /\ Len(l) \in Nat \ {0} /\ l \in Seq(SUBSET U)
      /\ \A j \in 2..Len(l) : l[j] = plan[at + j - 1]
      /\ \A i \in 1..Len(plan) : i < at => plan[i] \ DOMAIN Keyed \subseteq read
      /\ \A i \in 1..Len(plan) : i > at => plan[i] \cap read = {}
      /\ m \in plan[at]
  <2>1. Here(plan, l, read, at)
    BY <1>1, <1>2, InOrderHere
  <2>2. QED
    BY <2>1 DEF Here
<1>4. plan[at] = {m} /\ at + 1 \in 1..Len(plan) /\ plan[at + 1] = Keyed[m]
  BY <1>3, PlanNamesOnce DEF plan
<1>5. \A i \in 1..Len(plan) : i # at + 1 => plan[i] \cap Keyed[m] = {}
  BY <1>1, <1>4 DEF Proper
<1>6. Len(plan) \in Nat
  BY <1>1 DEF Proper
<1>7. Len(l) \in Nat /\ Len(l) >= 2
  <2>1. Len(l) \in Nat /\ at + 1 <= Len(plan)
    BY <1>3, <1>4, <1>6
  <2>2. QED
    BY <1>2, <1>6, <2>1
<1>8. at \in Int
  BY <1>3, <1>6
<1>9. /\ Tail(l) \in Seq(SUBSET U) /\ Len(Tail(l)) = Len(l) - 1
      /\ \A j \in 1..Len(l) - 1 : Tail(l)[j] = l[j + 1]
  BY <1>3, TailIs
<1>10. /\ Tail(Tail(l)) \in Seq(SUBSET U) /\ Len(Tail(Tail(l))) = Len(l) - 2
       /\ \A j \in 1..Len(l) - 2 : Tail(Tail(l))[j] = l[j + 2]
  <2>1. Tail(l) # << >>
    <3>1. Len(Tail(l)) > 0
      BY <1>7, <1>9
    <3>2. QED
      BY <1>9, <3>1, NotEmpty
  <2>2. /\ Tail(Tail(l)) \in Seq(SUBSET U) /\ Len(Tail(Tail(l))) = Len(Tail(l)) - 1
        /\ \A j \in 1..Len(Tail(l)) - 1 : Tail(Tail(l))[j] = Tail(l)[j + 1]
    BY <1>9, <2>1, TailIs
  <2>3. Len(Tail(Tail(l))) = Len(l) - 2
    BY <1>3, <1>9, <2>2
  <2>4. ASSUME NEW j \in 1..Len(l) - 2 PROVE Tail(Tail(l))[j] = l[j + 2]
    <3>1. j \in 1..Len(Tail(l)) - 1 /\ j + 1 \in 1..Len(l) - 1 /\ (j + 1) + 1 = j + 2
      BY <1>3, <1>9
    <3>2. Tail(Tail(l))[j] = Tail(l)[j + 1] /\ Tail(l)[j + 1] = l[(j + 1) + 1]
      BY <1>9, <2>2, <3>1
    <3>3. QED
      BY <3>1, <3>2
  <2>5. QED
    BY <2>2, <2>3, <2>4
<1>11. InOrder(plan, Tail(l), read)
  <2>1. ASSUME NEW i \in 1..Len(plan), i < at + 1
        PROVE  plan[i] \ DOMAIN Keyed \subseteq read
    <3>1. i < at \/ i = at
      BY <1>8, <2>1
    <3>2. QED
      BY <1>3, <1>4, <3>1
  <2>2. \A i \in 1..Len(plan) : i >= at + 1 => plan[i] \cap read = {}
    BY <1>3, <1>8
  <2>3. /\ Len(Tail(l)) = Len(l) - 1 /\ 1 \in {1, 2}
        /\ \A j \in 1..Len(Tail(l)) : Tail(l)[j] = l[j + 1]
    BY <1>7, <1>9
  <2> DEFINE t == Tail(l)
  <2>4. t \in Seq(SUBSET U)
    BY <1>9
  <2>5. QED
    BY <1>1, <1>3, <1>2, <1>7, <2>1, <2>2, <2>3, <2>4, NextSetInOrder
<1>12. InOrder(plan, Tail(Tail(l)), now)
  <2>1. ASSUME NEW i \in 1..Len(plan), i < at + 2
        PROVE  plan[i] \ DOMAIN Keyed \subseteq now
    <3>1. i < at \/ i = at \/ i = at + 1
      BY <1>8, <2>1
    <3>2. QED
      BY <1>3, <1>4, <3>1
  <2>2. ASSUME NEW i \in 1..Len(plan), i >= at + 2
        PROVE  plan[i] \cap now = {}
    <3>1. i > at /\ i # at + 1
      BY <1>8, <2>2
    <3>2. QED
      BY <1>3, <1>5, <3>1
  <2>3. QED
    BY <1>1, <1>3, <1>2, <1>7, <1>10, <2>1, <2>2, NextSetInOrder
<1>13. QED
  BY <1>11, <1>12 DEF plan

-----------------------------------------------------------------------------
(* What is still unread, or has been read, when a given value comes next. *)
LEMMA MetricsAt ==
  ASSUME InOrder(Metrics, todo, DOMAIN seen)
  PROVE  /\ IsNext("inFlight") =>
              "total" \notin DOMAIN seen /\ (Strategies \cup Backends) \cap DOMAIN seen = {}
         /\ IsNext("errors") => (Strategies \cup Backends) \cap DOMAIN seen = {}
         /\ todo = << >> =>
              {"inFlight", "total", "errors"} \cup Strategies \cup Backends \subseteq DOMAIN seen
<1> DEFINE at == 7 - Len(todo) + 1
<1>1. \A i \in 1..7 : i = 1 \/ i = 2 \/ i = 3 \/ i = 4 \/ i = 5 \/ i = 6 \/ i = 7
  OBVIOUS
<1>2. at = Len(Metrics) - Len(todo) + 1 /\ Len(Metrics) = 7
  BY MetricsIs
<1>3. Proper(Metrics)
  BY MetricsApart, <1>2 DEF Proper
<1>4. todo # << >> => Here(Metrics, todo, DOMAIN seen, at)
  BY <1>2, <1>3, InOrderHere
<1>5. todo = << >> => at = 8
  OBVIOUS
<1> HIDE DEF at
<1>6. /\ IsNext("inFlight") => at = 1
      /\ IsNext("errors") => at = 3
  <2>1. ASSUME NEW x, IsNext(x) PROVE at \in 1..7 /\ x \in Metrics[at]
    BY <1>2, <1>4, <2>1 DEF IsNext, Here
  <2>2. QED
    BY <1>1, <2>1, MetricsIs, NamesApart, LoadsIs, KeyedIs
<1>7. IsNext("inFlight") =>
        "total" \notin DOMAIN seen /\ (Strategies \cup Backends) \cap DOMAIN seen = {}
  <2>1. SUFFICES ASSUME IsNext("inFlight")
                 PROVE  \A i \in {2, 5, 7} : Metrics[i] \cap DOMAIN seen = {}
    BY MetricsIs
  <2>2. QED
    BY <1>2, <1>4, <1>6, <2>1 DEF IsNext, Here
<1>8. IsNext("errors") => (Strategies \cup Backends) \cap DOMAIN seen = {}
  <2>1. SUFFICES ASSUME IsNext("errors")
                 PROVE  \A i \in {5, 7} : Metrics[i] \cap DOMAIN seen = {}
    BY MetricsIs
  <2>2. QED
    BY <1>2, <1>4, <1>6, <2>1 DEF IsNext, Here
<1>9. todo = << >> =>
        {"inFlight", "total", "errors"} \cup Strategies \cup Backends \subseteq DOMAIN seen
  <2>1. SUFFICES ASSUME todo = << >>
                 PROVE  \A i \in {1, 2, 3, 5, 7} : Metrics[i] \ DOMAIN Keyed \subseteq DOMAIN seen
    BY MetricsIs, NamesApart, LoadsIs
  <2>2. at = 8
    BY <1>5, <2>1
  <2>3. QED
    BY <1>2, <2>2 DEF InOrder
<1>10. QED
  BY <1>7, <1>8, <1>9

LEMMA StatusAt ==
  ASSUME InOrder(Status, todo, DOMAIN seen)
  PROVE  /\ IsNext("latencies") => Backends \cap DOMAIN seen = {}
         /\ IsNext("total") \/ "total" \in DOMAIN seen =>
              {"hits", "misses"} \cup Backends \subseteq DOMAIN seen
         /\ todo = << >> =>
              {"latencies", "hits", "misses", "total"} \cup Backends \subseteq DOMAIN seen
<1> DEFINE at == 8 - Len(todo) + 1
<1>1. \A i \in 1..8 : i = 1 \/ i = 2 \/ i = 3 \/ i = 4 \/ i = 5 \/ i = 6 \/ i = 7 \/ i = 8
  OBVIOUS
<1>2. at = Len(Status) - Len(todo) + 1 /\ Len(Status) = 8
  BY StatusIs
<1>3. Proper(Status)
  BY StatusApart, <1>2 DEF Proper
<1>4. todo # << >> => Here(Status, todo, DOMAIN seen, at)
  BY <1>2, <1>3, InOrderHere
<1>5. todo = << >> => at = 9
  OBVIOUS
<1>6. /\ at \in 1..9
      /\ \A i \in 1..8 : i < at => Status[i] \ DOMAIN Keyed \subseteq DOMAIN seen
      /\ \A i \in 1..8 : i > at => Status[i] \cap DOMAIN seen = {}
  BY <1>2 DEF InOrder
<1> HIDE DEF at
<1>7. /\ IsNext("latencies") => at = 1
      /\ IsNext("total") => at = 6
  <2>1. ASSUME NEW x, IsNext(x) PROVE at \in 1..8 /\ x \in Status[at]
    BY <1>2, <1>4, <2>1 DEF IsNext, Here
  <2>2. QED
    BY <1>1, <2>1, StatusIs, NamesApart, LoadsIs, KeyedIs
<1>8. IsNext("latencies") => Backends \cap DOMAIN seen = {}
  BY <1>6, <1>7, StatusIs
<1>9. IsNext("total") \/ "total" \in DOMAIN seen =>
        {"hits", "misses"} \cup Backends \subseteq DOMAIN seen
  <2>1. SUFFICES ASSUME IsNext("total") \/ "total" \in DOMAIN seen
                 PROVE  \A i \in {3, 4, 5} : Status[i] \ DOMAIN Keyed \subseteq DOMAIN seen
    BY StatusIs, NamesApart, LoadsIs
  <2>2. "total" \in DOMAIN seen => ~(6 > at)
    BY <1>6, StatusIs
  <2>3. at >= 6
    BY <1>6, <1>7, <2>1, <2>2
  <2>4. QED
    BY <1>6, <2>3
<1>10. todo = << >> =>
        {"latencies", "hits", "misses", "total"} \cup Backends \subseteq DOMAIN seen
  <2>1. SUFFICES ASSUME todo = << >>
                 PROVE  \A i \in {1, 3, 4, 5, 6} : Status[i] \ DOMAIN Keyed \subseteq DOMAIN seen
    BY StatusIs, NamesApart, LoadsIs
  <2>2. QED
    BY <1>5, <1>6, <2>1
<1>11. QED
  BY <1>8, <1>9, <1>10

-----------------------------------------------------------------------------
(* Larger counters have a larger sum. *)
LEMMA TotalGrows ==
  ASSUME NEW S, NEW f \in [S -> Nat], NEW g \in [S -> Nat], \A k \in S : f[k] <= g[k],
         IsFiniteSet(Units(g))
  PROVE  IsFiniteSet(Units(f)) /\ Total(f) \in Nat /\ Total(g) \in Nat /\ Total(f) <= Total(g)
<1>1. \A v : v \in Units(f) <=> \E y \in S : v \in {y} \X (1..f[y])
  BY DEF Units
<1>2. \A v : v \in Units(g) <=> \E y \in S : v \in {y} \X (1..g[y])
  BY DEF Units
<1>3. \A y \in S : 1..f[y] \subseteq 1..g[y]
  OBVIOUS
<1>4. Units(f) \in SUBSET Units(g)
  BY <1>1, <1>2, <1>3
<1>5. IsFiniteSet(Units(f)) /\ Cardinality(Units(f)) <= Cardinality(Units(g))
  BY <1>4, FS_Subset
<1>6. QED
  BY <1>5, FS_CardinalityType DEF Total

(* The parts and wholes among the counters at one instant. *)
Fits ==
    /\ inFlight <= requestsTotal /\ hits + misses <= requestsTotal
    /\ \A x \in {"total", "inFlight", "errors", "hits", "misses"} : Loads[x] \in Nat
    /\ \A m \in DOMAIN Keyed : /\ Counts[m] \in [Keyed[m] -> Nat]
                               /\ IsFiniteSet(Units(Counts[m])) /\ Total(Counts[m]) \in Nat
                               /\ inFlight <= Total(Counts[m])
                               /\ backendErrors <= Total(Counts[m])
    /\ Total(backendCounts) <= requestsTotal
    /\ \A b \in Backends : measured[b] <= backendCounts[b]

LEMMA NowFits == Ledgers => Fits
<1> SUFFICES ASSUME Ledgers PROVE Fits
  OBVIOUS
<1> USE DEF Ledgers
<1>1. /\ CountedStrategy \in SUBSET Accepted /\ CountedBackend \in SUBSET CountedStrategy
      /\ CountedLookup \in SUBSET CountedBackend /\ Timed \in SUBSET CountedLookup
      /\ UnderWay \in SUBSET CountedLookup /\ Failed \in SUBSET Timed
  BY CountedAreAccepted
<1>2. /\ IsFiniteSet(Accepted) /\ IsFiniteSet(CountedStrategy) /\ IsFiniteSet(CountedBackend)
      /\ IsFiniteSet(CountedLookup) /\ IsFiniteSet(Timed)
      /\ \A b : IsFiniteSet(To(b, CountedBackend))
  BY CountedAreFinite DEF EveryCounterCounts
<1>3. /\ Cardinality(CountedStrategy) <= Cardinality(Accepted)
      /\ Cardinality(CountedBackend) <= Cardinality(CountedStrategy)
      /\ Cardinality(CountedLookup) <= Cardinality(CountedBackend)
      /\ Cardinality(Timed) <= Cardinality(CountedLookup)
      /\ Cardinality(UnderWay) <= Cardinality(CountedLookup)
      /\ Cardinality(Failed) <= Cardinality(Timed)
  BY <1>1, <1>2, FS_Subset
<1>4. Cardinality(Under("kv_aware", CountedLookup)) <= Cardinality(CountedLookup)
  <2>1. Under("kv_aware", CountedLookup) \in SUBSET CountedLookup
    BY DEF Under
  <2>2. QED
    BY <1>2, <2>1, FS_Subset
<1>5. /\ Cardinality(Accepted) \in Nat /\ Cardinality(CountedStrategy) \in Nat
      /\ Cardinality(CountedBackend) \in Nat /\ Cardinality(CountedLookup) \in Nat
      /\ Cardinality(Timed) \in Nat
  BY <1>2, FS_CardinalityType
<1>6. inFlight \in Nat /\ backendErrors \in Nat /\ requestsTotal \in Nat /\ hits + misses \in Nat
  BY DEF TypeOK
<1>7. /\ inFlight = Cardinality(UnderWay) /\ backendErrors = Cardinality(Failed)
      /\ requestsTotal = Cardinality(Accepted)
      /\ hits + misses = Cardinality(Under("kv_aware", CountedLookup))
      /\ Total(strategyCounts) = Cardinality(CountedStrategy)
      /\ Total(backendCounts) = Cardinality(CountedBackend)
      /\ IsFiniteSet(Units(strategyCounts)) /\ IsFiniteSet(Units(backendCounts))
  BY DEF EveryCounterCounts
<1>8. ASSUME NEW b \in Backends PROVE measured[b] <= backendCounts[b]
  <2>1. To(b, Timed) \in SUBSET To(b, CountedBackend)
    BY <1>1 DEF To
  <2>2. Cardinality(To(b, Timed)) <= Cardinality(To(b, CountedBackend))
    BY <1>2, <2>1, FS_Subset
  <2>3. QED
    BY <2>2 DEF EveryCounterCounts
<1>9. ASSUME NEW m \in DOMAIN Keyed
      PROVE  /\ Counts[m] \in [Keyed[m] -> Nat]
             /\ IsFiniteSet(Units(Counts[m])) /\ Total(Counts[m]) \in Nat
             /\ inFlight <= Total(Counts[m]) /\ backendErrors <= Total(Counts[m])
  <2>1. CASE m = "strategies"
    <3>1. Counts[m] = strategyCounts /\ Counts[m] \in [Keyed[m] -> Nat]
      BY <2>1, KeyedIs DEF TypeOK
    <3>2. QED
      BY <1>3, <1>5, <1>6, <1>7, <3>1
  <2>2. CASE m = "backends"
    <3>1. Counts[m] = backendCounts /\ Counts[m] \in [Keyed[m] -> Nat]
      BY <2>2, KeyedIs DEF TypeOK
    <3>2. QED
      BY <1>3, <1>5, <1>6, <1>7, <3>1
  <2>3. QED
    BY <2>1, <2>2, KeyedIs
<1>10. inFlight <= requestsTotal /\ hits + misses <= requestsTotal
       /\ Total(backendCounts) <= requestsTotal
  BY <1>3, <1>4, <1>5, <1>6, <1>7
<1>11. \A x \in {"total", "inFlight", "errors", "hits", "misses"} : Loads[x] \in Nat
  BY LoadsIs DEF TypeOK
<1>12. QED
  BY <1>8, <1>9, <1>10, <1>11 DEF Fits

(* The counters of metrics.State only grow, but for the gauge. *)
LEMMA CountersGrow ==
  ASSUME Ledgers, [Next]_vars
  PROVE  /\ requestsTotal <= requestsTotal' /\ hits <= hits' /\ misses <= misses'
         /\ \A s \in Strategies : strategyCounts[s] <= strategyCounts'[s]
         /\ \A b \in Backends : backendCounts[b] <= backendCounts'[b]
<1> DEFINE Grown == /\ requestsTotal <= requestsTotal' /\ hits <= hits' /\ misses <= misses'
                    /\ \A s \in Strategies : strategyCounts[s] <= strategyCounts'[s]
                    /\ \A b \in Backends : backendCounts[b] <= backendCounts'[b]
<1> USE DEF Ledgers
<1>1. /\ requestsTotal \in Nat /\ hits \in Nat /\ misses \in Nat
      /\ strategyCounts \in [Strategies -> Nat] /\ backendCounts \in [Backends -> Nat]
  BY DEF TypeOK
<1>2. ASSUME UNCHANGED <<requestsTotal, hits, misses, strategyCounts, backendCounts>> PROVE Grown
  BY <1>1, <1>2
<1>3. ASSUME NEW r \in Requests, Receive(r) \/ CountLookup(r) PROVE Grown
  BY <1>1, <1>3 DEF Receive, CountLookup
<1>4. ASSUME NEW r \in Requests, RecordStrategy(r) PROVE Grown
  <2>1. ASSUME NEW s \in Strategies PROVE strategyCounts[s] <= strategyCounts'[s]
    BY <1>1, <1>4 DEF RecordStrategy
  <2>2. UNCHANGED <<requestsTotal, hits, misses, backendCounts>>
    BY <1>4 DEF RecordStrategy
  <2>3. QED
    BY <1>1, <2>1, <2>2
<1>5. ASSUME NEW r \in Requests, RecordBackend(r) PROVE Grown
  <2>1. ASSUME NEW b \in Backends PROVE backendCounts[b] <= backendCounts'[b]
    BY <1>1, <1>5 DEF RecordBackend
  <2>2. UNCHANGED <<requestsTotal, hits, misses, strategyCounts>>
    BY <1>5 DEF RecordBackend
  <2>3. QED
    BY <1>1, <2>1, <2>2
<1> HIDE DEF Grown
<1>6. ASSUME NEW r \in Requests,
             \/ Reject(r) \/ ActiveStrategy(r) \/ Begin(r) \/ Lookup(r) \/ Refuse(r)
             \/ (\E b \in Backends : Route(r, b)) \/ IncInFlight(r)
             \/ (\E ok \in BOOLEAN : Answer(r, ok))
             \/ KnockDown(r) \/ CountError(r) \/ RecordAffinity(r)
             \/ DecInFlight(r) \/ Release(r) \/ RememberLate(r)
      PROVE  Grown
  BY <1>2, <1>6 DEF Reject, ActiveStrategy, Begin, Lookup, Refuse, Route,
     IncInFlight, Answer, KnockDown, CountError, RecordAffinity, DecInFlight,
     Release, RememberLate, counters
<1>7. ASSUME NEW b, NEW value, Probe(b, value) PROVE Grown
  BY <1>2, <1>7 DEF Probe, counters
<1>8. ASSUME NEW name, SetStrategy(name) PROVE Grown
  BY <1>2, <1>8 DEF SetStrategy, counters
<1>9. ASSUME NEW k, Forget(k) PROVE Grown
  BY <1>2, <1>9 DEF Forget, counters
<1>10. ASSUME UNCHANGED vars PROVE Grown
  <2>1. UNCHANGED counters
    BY <1>10 DEF vars
  <2>2. UNCHANGED <<requestsTotal, hits, misses, strategyCounts, backendCounts>>
    BY <2>1 DEF counters
  <2>3. QED
    BY <1>2, <2>2
<1>11. ASSUME NEW r \in Requests, Handle(r) PROVE Grown
  BY <1>3, <1>4, <1>5, <1>6, <1>11 DEF Handle
<1>12. Grown
  <2>1. ASSUME NEW r \in Requests, RememberLate(r) PROVE Grown
    BY <1>6, <2>1
  <2>2. ASSUME Next PROVE Grown
    BY <1>7, <1>8, <1>9, <1>11, <2>1, <2>2 DEF Next
  <2>3. Next \/ UNCHANGED vars
    OBVIOUS
  <2>4. QED
    BY <1>10, <2>2, <2>3
<1>13. QED
  BY <1>12 DEF Grown

-----------------------------------------------------------------------------
(* A step of the reader of a report reads what is next, as it is now. *)
Taken(values, l) ==
    /\ Reads(values, l)
    /\ InOrder(Plan[report], l, DOMAIN seen \cup DOMAIN values)
    /\ \A m \in DOMAIN Keyed : \A k \in Keyed[m] \cap DOMAIN values : values[k] = Counts[m][k]
    /\ \A x \in DOMAIN Loads \cap DOMAIN values :
        values[x] = Loads[x] /\ DOMAIN values = {x} /\ IsNext(x)

ReadsOn ==
    \/ \E x \in DOMAIN Loads : Load(x)
    \/ \E m \in DOMAIN Keyed : ReadField(m) \/ \E k \in Keyed[m] : LoadKey(m, k)

LEMMA ReadsIs ==
  ASSUME NEW values, NEW l, Reads(values, l)
  PROVE  /\ todo' = l /\ UNCHANGED <<vars, report, upAllAlong>>
         /\ DOMAIN seen' = DOMAIN seen \cup DOMAIN values
         /\ \A y \in DOMAIN seen : seen'[y] = seen[y]
         /\ \A y \in DOMAIN values : y \notin DOMAIN seen => seen'[y] = values[y]
BY DEF Reads

LEMMA ReaderTakes ==
  ASSUME ReadInOrder, ReadsOn
  PROVE  /\ report # None
         /\ report \in {"metrics", "status"} => \E values, l : Taken(values, l)
<1>1. report # None
  BY DEF ReadInOrder, ReadsOn, Load, ReadField, LoadKey, IsNext
<1>2. SUFFICES ASSUME report \in {"metrics", "status"} PROVE \E values, l : Taken(values, l)
  BY <1>1
<1>3. InOrder(Plan[report], todo, DOMAIN seen) /\ Proper(Plan[report])
  BY <1>2, PlanNamesOnce DEF ReadInOrder, Proper
<1>4. ASSUME NEW x, IsNext(x), x \notin DOMAIN Keyed
      PROVE  InOrder(Plan[report], Rest(x), DOMAIN seen \cup {x})
  BY <1>3, <1>4, OneReadInOrder DEF Rest, IsNext
<1>5. ASSUME NEW x, NEW v PROVE DOMAIN One(x, v) = {x} /\ One(x, v)[x] = v
  BY DEF One
<1>6. ASSUME NEW x \in DOMAIN Loads, Load(x)
      PROVE  Taken(One(x, Loads[x]), Rest(x))
  <2>1. IsNext(x) /\ x \notin DOMAIN Keyed /\ \A m \in DOMAIN Keyed : x \notin Keyed[m]
    BY <1>6, NamesApart, KeyedIs DEF Load
  <2>2. Reads(One(x, Loads[x]), Rest(x))
    BY <1>6 DEF Load
  <2>3. DOMAIN One(x, Loads[x]) = {x} /\ One(x, Loads[x])[x] = Loads[x]
    BY <1>5
  <2>4. InOrder(Plan[report], Rest(x), DOMAIN seen \cup {x})
    BY <1>4, <2>1
  <2>5. QED
    BY <2>1, <2>2, <2>3, <2>4 DEF Taken
<1>7. ASSUME NEW m \in DOMAIN Keyed, NEW k \in Keyed[m], LoadKey(m, k)
      PROVE  Taken(One(k, Counts[m][k]), Rest(k))
  <2>1. /\ IsNext(k) /\ k \notin DOMAIN Keyed /\ k \notin DOMAIN Loads
        /\ \A n \in DOMAIN Keyed : k \in Keyed[n] => n = m
    BY <1>7, NamesApart, KeyedIs DEF LoadKey
  <2>2. Reads(One(k, Counts[m][k]), Rest(k))
    BY <1>7 DEF LoadKey
  <2>3. /\ DOMAIN One(k, Counts[m][k]) = {k}
        /\ One(k, Counts[m][k])[k] = Counts[m][k]
    BY <1>5
  <2>4. InOrder(Plan[report], Rest(k), DOMAIN seen \cup {k})
    BY <1>4, <2>1
  <2>5. QED
    BY <2>1, <2>2, <2>3, <2>4 DEF Taken
<1>8. ASSUME NEW m \in DOMAIN Keyed, ReadField(m)
      PROVE  \E values, l : Taken(values, l)
  <2>1. /\ InOrder(Plan[report], Tail(todo), DOMAIN seen)
        /\ InOrder(Plan[report], Tail(Tail(todo)), DOMAIN seen \cup Keyed[m])
    BY <1>2, <1>3, <1>8, FieldReadInOrder DEF ReadField, IsNext
  <2>2. CASE Reads(<< >>, Tail(todo))
    <3>1. DOMAIN << >> = {}
      OBVIOUS
    <3>2. Taken(<< >>, Tail(todo))
      BY <2>1, <2>2, <3>1 DEF Taken
    <3>3. QED
      BY <3>2
  <2>3. CASE /\ \A k \in Keyed[m] : Counts[m][k] = 0
             /\ Reads([k \in Keyed[m] |-> 0], Tail(Tail(todo)))
    <3>1. /\ \A k \in Keyed[m] : k \notin DOMAIN Loads
          /\ \A n \in DOMAIN Keyed : n # m => Keyed[n] \cap Keyed[m] = {}
      BY NamesApart, KeyedIs
    <3>2. Taken([k \in Keyed[m] |-> 0], Tail(Tail(todo)))
      BY <2>1, <2>3, <3>1 DEF Taken
    <3>3. QED
      BY <3>2
  <2>4. QED
    BY <1>8, <2>2, <2>3 DEF ReadField
<1>9. QED
  BY <1>6, <1>7, <1>8 DEF ReadsOn

(* Reports read their sets in order. *)
LEMMA InitInOrder == ReportsInit => ReadInOrder
BY NamesAssumption DEF ReportsInit, ReadInOrder

LEMMA PlanInOrder ==
  ASSUME NEW k \in {"metrics", "status"}
  PROVE  InOrder(Plan[k], Plan[k], {})
<1> DEFINE plan == Plan[k]
<1>1. /\ Len(plan) \in {7, 8} /\ plan \in Seq(SUBSET UNION {plan[i] : i \in 1..Len(plan)})
      /\ Head(plan) = plan[1]
  BY PlanNamesOnce, PlanIs, MetricsIs, StatusIs
<1> HIDE DEF plan
<1>2. Len(plan) - Len(plan) + 1 = 1 /\ 1 \in 1..Len(plan) + 1
  BY <1>1
<1>3. \A j \in 2..Len(plan) : 1 + j - 1 = j
  BY <1>1
<1>4. \A i \in 1..Len(plan) : ~(i < 1)
  BY <1>1
<1>5. InOrder(plan, plan, {})
  BY <1>1, <1>2, <1>3, <1>4 DEF InOrder
<1>6. QED
  BY <1>5 DEF plan

LEMMA StepInOrder == ReadInOrder /\ [ReportsNext]_<<vars, reader>> => ReadInOrder'
<1> SUFFICES ASSUME ReadInOrder, [ReportsNext]_<<vars, reader>> PROVE ReadInOrder'
  OBVIOUS
<1>1. CASE \E k \in DOMAIN Plan : Ask(k)
  <2>1. PICK k \in DOMAIN Plan : Ask(k)
    BY <1>1
  <2>2. report' = k /\ todo' = Plan[k] /\ DOMAIN seen' = {} /\ k # None
    BY <2>1, PlanIs, NamesAssumption DEF Ask, ReadInOrder
  <2>3. QED
    BY <2>2, PlanInOrder DEF ReadInOrder, Plan
<1>2. CASE ReadsOn
  <2>1. report' = report /\ report # None
    BY <1>2, ReaderTakes DEF ReadsOn, Load, ReadField, LoadKey, Reads
  <2>2. ASSUME report \in {"metrics", "status"}
        PROVE  InOrder(Plan[report], todo', DOMAIN seen')
    <3>1. PICK values, l : Taken(values, l)
      BY <1>2, <2>2, ReaderTakes
    <3>2. QED
      BY <3>1, ReadsIs DEF Taken
  <2>3. QED
    BY <2>1, <2>2 DEF ReadInOrder, Plan
<1>3. CASE \E b \in Backends : CheckFlag(b)
  <2>1. report' = report /\ report = "readyz"
    BY <1>3 DEF CheckFlag, Reads
  <2>2. QED
    BY <2>1, NamesAssumption DEF ReadInOrder
<1>4. CASE UNCHANGED <<report, todo, seen>>
  BY <1>4 DEF ReadInOrder, Plan
<1>5. QED
  BY <1>1, <1>2, <1>3, <1>4 DEF ReportsNext, ReadsOn, reader

-----------------------------------------------------------------------------
(* What a report will show of a map is what its counters were, at most. *)
Shows(m) ==
    /\ Merged(m) \in [Keyed[m] -> Nat]
    /\ \A k \in Keyed[m] : Merged(m)[k] <= Counts[m][k]
    /\ IsFiniteSet(Units(Merged(m))) /\ Total(Merged(m)) \in Nat
    /\ Total(Merged(m)) <= Total(Counts[m])

ShowsWhatWas ==
    report \in {"metrics", "status"} => \A m \in DOMAIN Keyed : Shows(m)

LEMMA MergedIsPast == Ledgers /\ SeenIsPast => ShowsWhatWas
<1> SUFFICES ASSUME Ledgers, SeenIsPast, report \in {"metrics", "status"}, NEW m \in DOMAIN Keyed
             PROVE  Shows(m)
  BY DEF ShowsWhatWas
<1>1. Counts[m] \in [Keyed[m] -> Nat] /\ IsFiniteSet(Units(Counts[m]))
  BY NowFits DEF Fits
<1>2. \A k \in Keyed[m] : Merged(m)[k] = IF k \in DOMAIN seen THEN seen[k] ELSE Counts[m][k]
  BY DEF Merged
<1>3. \A k \in Keyed[m] : Merged(m)[k] \in Nat /\ Merged(m)[k] <= Counts[m][k]
  BY <1>1, <1>2 DEF SeenIsPast
<1>4. Merged(m) \in [Keyed[m] -> Nat]
  BY <1>3 DEF Merged
<1>5. QED
  BY <1>1, <1>3, <1>4, TotalGrows DEF Shows

(* Reading changes nothing of what a map will be shown as. *)
LEMMA MergedKept ==
  ASSUME NEW values, NEW l, Taken(values, l), NEW m \in DOMAIN Keyed
  PROVE  Merged(m)' = Merged(m) /\ Counts' = Counts /\ Loads' = Loads
<1>1. Counts' = Counts /\ Loads' = Loads /\ Keyed' = Keyed
  BY ReadsIs DEF Taken, Counts, Loads, Keyed, vars, counters
<1>2. ASSUME NEW k \in Keyed[m]
      PROVE  (IF k \in DOMAIN seen THEN seen[k] ELSE Counts[m][k])' =
             IF k \in DOMAIN seen THEN seen[k] ELSE Counts[m][k]
  <2>1. /\ DOMAIN seen' = DOMAIN seen \cup DOMAIN values
        /\ k \in DOMAIN seen => seen'[k] = seen[k]
        /\ k \in DOMAIN values /\ k \notin DOMAIN seen => seen'[k] = values[k]
    BY ReadsIs DEF Taken
  <2>2. k \in DOMAIN values => values[k] = Counts[m][k]
    BY DEF Taken
  <2>3. QED
    BY <1>1, <2>1, <2>2
<1>3. QED
  BY <1>1, <1>2 DEF Merged

LEMMA MergedFresh ==
  ASSUME NEW m \in DOMAIN Keyed, Keyed[m] \cap DOMAIN seen = {}, Counts[m] \in [Keyed[m] -> Nat]
  PROVE  Merged(m) = Counts[m]
BY DEF Merged

LEMMA MergedDone ==
  ASSUME NEW m \in DOMAIN Keyed, Keyed[m] \subseteq DOMAIN seen
  PROVE  /\ Merged(m) = [k \in Keyed[m] |-> seen[k]]
         /\ Total(Merged(m)) = Shown(Keyed[m])
BY DEF Merged, Shown

-----------------------------------------------------------------------------
(* The inductive invariant of /metrics and /api/status. *)
Reading == ReadInOrder /\ SeenIsPast /\ PartsFit

LEMMA InitReading == ReportsInit => Reading
BY InitInOrder, NamesAssumption DEF ReportsInit, Reading, SeenIsPast, PartsFit

LEMMA AskReading ==
  ASSUME Reading, NEW k \in DOMAIN Plan, Ask(k)
  PROVE  SeenIsPast' /\ PartsFit'
<1>1. DOMAIN seen' = {}
  BY DEF Ask, Reading, ReadInOrder
<1>2. QED
  BY <1>1 DEF SeenIsPast, PartsFit

(* A step of the reader. *)
LEMMA TakenIsPast ==
  ASSUME Ledgers, Reading, report \in {"metrics", "status"}, NEW values, NEW l, Taken(values, l)
  PROVE  SeenIsPast'
<1>1. Counts' = Counts /\ Loads' = Loads
  BY MergedKept, KeyedIs
<1>2. /\ \A m \in DOMAIN Keyed : Counts[m] \in [Keyed[m] -> Nat]
      /\ \A x \in {"total", "hits", "misses"} : Loads[x] \in Nat /\ x \in DOMAIN Loads
  BY NowFits, LoadsIs DEF Fits
<1>3. /\ DOMAIN seen' = DOMAIN seen \cup DOMAIN values
      /\ \A y \in DOMAIN seen : seen'[y] = seen[y]
      /\ \A y \in DOMAIN values : y \notin DOMAIN seen => seen'[y] = values[y]
  BY ReadsIs DEF Taken
<1>4. ASSUME NEW m \in DOMAIN Keyed, NEW k \in Keyed[m] \cap DOMAIN seen'
      PROVE  seen'[k] \in Nat /\ seen'[k] <= Counts[m][k]
  BY <1>2, <1>3 DEF Reading, SeenIsPast, Taken
<1>5. ASSUME NEW x \in {"total", "hits", "misses"} \cap DOMAIN seen'
      PROVE  seen'[x] \in Nat /\ seen'[x] <= Loads[x]
  <2>1. CASE x \in DOMAIN seen
    BY <1>3, <2>1 DEF Reading, SeenIsPast
  <2>2. CASE x \notin DOMAIN seen
    <3>1. x \in DOMAIN Loads \cap DOMAIN values /\ seen'[x] = values[x]
      BY <1>2, <1>3, <1>5, <2>2
    <3>2. seen'[x] = Loads[x]
      BY <3>1 DEF Taken
    <3>3. QED
      BY <1>2, <1>5, <3>2
  <2>3. QED
    BY <2>1, <2>2
<1>6. QED
  BY <1>1, <1>4, <1>5 DEF SeenIsPast, Keyed

LEMMA TakenMetricsFit ==
  ASSUME Ledgers, Reading, report = "metrics", NEW values, NEW l, Taken(values, l)
  PROVE  PartsFit'
<1>1. /\ Counts' = Counts /\ Loads' = Loads /\ report' = report
      /\ \A m \in DOMAIN Keyed : Merged(m)' = Merged(m)
  BY MergedKept, ReadsIs, KeyedIs DEF Taken
<1>2. /\ DOMAIN seen' = DOMAIN seen \cup DOMAIN values
      /\ \A y \in DOMAIN seen : seen'[y] = seen[y]
      /\ \A y \in DOMAIN values : y \notin DOMAIN seen => seen'[y] = values[y]
  BY ReadsIs DEF Taken
<1>3. /\ "inFlight" \in DOMAIN Loads /\ "total" \in DOMAIN Loads /\ "errors" \in DOMAIN Loads
      /\ Loads["inFlight"] = inFlight /\ Loads["total"] = requestsTotal
      /\ Loads["errors"] = backendErrors /\ requestsTotal' = requestsTotal
  BY <1>1, LoadsIs DEF Loads
<1>4. InOrder(Metrics, todo, DOMAIN seen)
  BY PlanIs DEF Reading, ReadInOrder
<1>5. /\ inFlight \in Nat /\ backendErrors \in Nat /\ requestsTotal \in Nat
      /\ inFlight <= requestsTotal
      /\ \A m \in DOMAIN Keyed : /\ Counts[m] \in [Keyed[m] -> Nat]
                                 /\ inFlight <= Total(Counts[m])
                                 /\ backendErrors <= Total(Counts[m])
  BY NowFits, <1>3 DEF Fits
<1>6. ASSUME "inFlight" \in DOMAIN seen'
      PROVE  seen'["inFlight"] <= IF "total" \in DOMAIN seen' THEN seen'["total"] ELSE requestsTotal
  <2>1. CASE "inFlight" \in DOMAIN seen
    <3>1. "total" \in DOMAIN values => values["total"] = requestsTotal
      BY <1>3 DEF Taken
    <3>2. QED
      BY <1>2, <2>1, <3>1 DEF Reading, PartsFit
  <2>2. CASE "inFlight" \notin DOMAIN seen
    <3>1. /\ IsNext("inFlight") /\ DOMAIN values = {"inFlight"}
          /\ values["inFlight"] = inFlight
      BY <1>2, <1>3, <1>6, <2>2 DEF Taken
    <3>2. "total" \notin DOMAIN seen' /\ seen'["inFlight"] = inFlight
      BY <1>2, <1>4, <2>2, <3>1, MetricsAt
    <3>3. QED
      BY <1>5, <3>2
  <2>3. QED
    BY <2>1, <2>2
<1>7. ASSUME NEW x \in {"inFlight", "errors"} \cap DOMAIN seen', NEW m \in DOMAIN Keyed
      PROVE  seen'[x] \in Nat /\ seen'[x] <= Total(Merged(m))
  <2>1. CASE x \in DOMAIN seen
    BY <1>2, <2>1 DEF Reading, PartsFit
  <2>2. CASE x \notin DOMAIN seen
    <3>1. IsNext(x) /\ seen'[x] = Loads[x]
      BY <1>2, <1>3, <1>7, <2>2 DEF Taken
    <3>2. Keyed[m] \cap DOMAIN seen = {}
      BY <1>4, <3>1, MetricsAt, KeyedIs
    <3>3. Merged(m) = Counts[m]
      BY <1>5, <3>2, MergedFresh
    <3>4. QED
      BY <1>3, <1>5, <3>1, <3>3
  <2>3. QED
    BY <2>1, <2>2
<1>8. QED
  BY <1>1, <1>3, <1>6, <1>7 DEF PartsFit, Keyed

LEMMA TakenStatusFit ==
  ASSUME Ledgers, Reading, report = "status", NEW values, NEW l, Taken(values, l)
  PROVE  PartsFit'
<1>1. /\ Counts' = Counts /\ Loads' = Loads /\ report' = report
      /\ \A m \in DOMAIN Keyed : Merged(m)' = Merged(m)
  BY MergedKept, ReadsIs, KeyedIs DEF Taken
<1>2. /\ DOMAIN seen' = DOMAIN seen \cup DOMAIN values
      /\ \A y \in DOMAIN seen : seen'[y] = seen[y]
      /\ \A y \in DOMAIN values : y \notin DOMAIN seen => seen'[y] = values[y]
  BY ReadsIs DEF Taken
<1>3. /\ {"latencies", "total"} \subseteq DOMAIN Loads /\ "backends" \in DOMAIN Keyed
      /\ Keyed["backends"] = Backends /\ Counts["backends"] = backendCounts
      /\ Loads["total"] = requestsTotal /\ Loads["hits"] = hits /\ Loads["misses"] = misses
      /\ Loads["latencies"] = {b \in Backends : measured[b] > 0}
  BY LoadsIs, KeyedIs
<1>4. InOrder(Status, todo, DOMAIN seen)
  BY PlanIs DEF Reading, ReadInOrder
<1>5. /\ Shows("backends") /\ Fits /\ Counts["backends"] \in [Backends -> Nat]
      /\ \A b \in Backends : measured[b] \in Nat
  BY <1>3, NowFits, MergedIsPast DEF Fits, ShowsWhatWas, Reading, Ledgers, TypeOK
<1>6. ASSUME "latencies" \in DOMAIN seen', NEW b \in seen'["latencies"]
      PROVE  b \in Backends /\ Merged("backends")[b] > 0
  <2>1. CASE "latencies" \in DOMAIN seen
    BY <1>2, <1>6, <2>1 DEF Reading, PartsFit
  <2>2. CASE "latencies" \notin DOMAIN seen
    <3>1. IsNext("latencies") /\ seen'["latencies"] = {c \in Backends : measured[c] > 0}
      BY <1>2, <1>3, <1>6, <2>2 DEF Taken
    <3>2. Merged("backends") = backendCounts
      BY <1>3, <1>4, <1>5, <3>1, StatusAt, MergedFresh
    <3>3. QED
      BY <1>3, <1>5, <1>6, <3>1, <3>2 DEF Fits
  <2>3. QED
    BY <2>1, <2>2
<1>7. ASSUME "total" \in DOMAIN seen'
      PROVE  /\ Shown(Backends)' <= seen'["total"]
             /\ seen'["hits"] + seen'["misses"] <= seen'["total"]
  <2>1. {"hits", "misses"} \cup Backends \subseteq DOMAIN seen
    BY <1>2, <1>3, <1>4, <1>7, StatusAt DEF Taken
  <2>2. /\ seen'["hits"] = seen["hits"] /\ seen'["misses"] = seen["misses"]
        /\ Shown(Backends)' = Shown(Backends)
    BY <1>2, <2>1 DEF Shown
  <2>3. CASE "total" \in DOMAIN seen
    BY <1>2, <2>2, <2>3 DEF Reading, PartsFit
  <2>4. CASE "total" \notin DOMAIN seen
    <3>1. seen'["total"] = requestsTotal
      BY <1>2, <1>3, <1>7, <2>4 DEF Taken
    <3>2. Shown(Backends) \in Nat /\ Shown(Backends) <= Total(backendCounts)
      BY <1>3, <1>5, <2>1, MergedDone DEF Shows
    <3>3. Total(backendCounts) \in Nat /\ Total(backendCounts) <= requestsTotal
      BY <1>3, <1>5 DEF Fits
    <3>4. /\ seen["hits"] \in Nat /\ seen["hits"] <= hits
          /\ seen["misses"] \in Nat /\ seen["misses"] <= misses
      BY <1>3, <2>1 DEF Reading, SeenIsPast
    <3>5. /\ hits \in Nat /\ misses \in Nat /\ requestsTotal \in Nat
          /\ hits + misses <= requestsTotal
      BY <1>3, <1>5 DEF Fits
    <3>6. QED
      BY <2>2, <3>1, <3>2, <3>3, <3>4, <3>5
  <2>5. QED
    BY <2>3, <2>4
<1>8. report' = "status" /\ Merged("backends")' = Merged("backends")
  BY <1>1, <1>3
<1>9. QED
  BY <1>6, <1>7, <1>8 DEF PartsFit

(* A step of the server raises what is still to be read, never what was. *)
LEMMA ServerReading ==
  ASSUME Ledgers, Ledgers', Reading, [Next]_vars, UNCHANGED <<report, todo, seen>>
  PROVE  SeenIsPast' /\ PartsFit'
<1>1. Fits /\ Fits'
  BY NowFits, PTL
<1>2. ASSUME NEW m \in DOMAIN Keyed, NEW k \in Keyed[m] PROVE Counts[m][k] <= Counts[m]'[k]
  BY <1>2, KeyedIs, CountersGrow DEF Counts
<1>3. \A x \in {"total", "hits", "misses"} : Loads[x] <= Loads'[x]
  BY LoadsIs, CountersGrow DEF Loads
<1>4. /\ \A x \in {"total", "hits", "misses"} : Loads[x] \in Nat /\ Loads'[x] \in Nat
      /\ \A m \in DOMAIN Keyed : Counts[m] \in [Keyed[m] -> Nat] /\ Counts[m]' \in [Keyed[m] -> Nat]
  BY <1>1 DEF Fits, Keyed
<1>5. SeenIsPast'
  <2>1. ASSUME report \in {"metrics", "status"}, NEW m \in DOMAIN Keyed,
               NEW k \in Keyed[m] \cap DOMAIN seen
        PROVE  seen[k] \in Nat /\ seen[k] <= Counts[m]'[k]
    <3>1. seen[k] \in Nat /\ seen[k] <= Counts[m][k]
      BY <2>1 DEF Reading, SeenIsPast
    <3>2. Counts[m][k] \in Nat /\ Counts[m]'[k] \in Nat /\ Counts[m][k] <= Counts[m]'[k]
      BY <1>2, <1>4, <2>1
    <3>3. QED
      BY <3>1, <3>2
  <2>2. ASSUME report \in {"metrics", "status"},
               NEW x \in {"total", "hits", "misses"} \cap DOMAIN seen
        PROVE  seen[x] \in Nat /\ seen[x] <= Loads'[x]
    BY <1>3, <1>4, <2>2 DEF Reading, SeenIsPast
  <2>3. QED
    BY <2>1, <2>2 DEF SeenIsPast, Keyed
<1>6. ShowsWhatWas /\ ShowsWhatWas'
  BY <1>5, MergedIsPast, PTL DEF Reading
<1>7. ASSUME report \in {"metrics", "status"}, NEW m \in DOMAIN Keyed
      PROVE  /\ Total(Merged(m)) \in Nat /\ Total(Merged(m))' \in Nat
             /\ Total(Merged(m)) <= Total(Merged(m))'
             /\ \A k \in Keyed[m] : /\ Merged(m)[k] \in Nat /\ Merged(m)'[k] \in Nat
                                    /\ Merged(m)[k] <= Merged(m)'[k]
  <2> DEFINE f == Merged(m)
             g == Merged(m)'
  <2>1. /\ f \in [Keyed[m] -> Nat] /\ g \in [Keyed[m] -> Nat] /\ IsFiniteSet(Units(g))
    BY <1>6, <1>7 DEF ShowsWhatWas, Shows, Keyed
  <2>2. ASSUME NEW k \in Keyed[m] PROVE f[k] <= g[k]
    <3>1. f[k] = IF k \in DOMAIN seen THEN seen[k] ELSE Counts[m][k]
      BY DEF Merged
    <3>2. g[k] = IF k \in DOMAIN seen THEN seen[k] ELSE Counts[m]'[k]
      BY DEF Merged, Keyed
    <3>3. k \in DOMAIN seen => seen[k] \in Nat
      BY <1>7 DEF Reading, SeenIsPast
    <3>4. QED
      BY <1>2, <3>1, <3>2, <3>3
  <2> HIDE DEF f, g
  <2>3. Total(f) \in Nat /\ Total(g) \in Nat /\ Total(f) <= Total(g)
    BY <2>1, <2>2, TotalGrows
  <2>4. Total(Merged(m))' = Total(g)
    BY DEF g, Total, Units
  <2>5. QED
    BY <2>1, <2>2, <2>3, <2>4 DEF f, g
<1>8. requestsTotal \in Nat /\ requestsTotal' \in Nat /\ requestsTotal <= requestsTotal'
  BY <1>3, <1>4, LoadsIs DEF Loads
<1>9. ASSUME report = "metrics" PROVE PartsFit'
  <2>1. ASSUME "inFlight" \in DOMAIN seen
        PROVE  seen["inFlight"] <= IF "total" \in DOMAIN seen THEN seen["total"] ELSE requestsTotal'
    <3>1. seen["inFlight"] \in Nat
      BY <1>9, <2>1, KeyedIs DEF Reading, PartsFit
    <3>2. QED
      BY <1>8, <1>9, <2>1, <3>1 DEF Reading, PartsFit
  <2>2. ASSUME NEW x \in {"inFlight", "errors"} \cap DOMAIN seen, NEW m \in DOMAIN Keyed
        PROVE  seen[x] \in Nat /\ seen[x] <= Total(Merged(m))'
    <3>1. seen[x] \in Nat /\ seen[x] <= Total(Merged(m))
      BY <1>9, <2>2 DEF Reading, PartsFit
    <3>2. QED
      BY <1>7, <1>9, <3>1
  <2>3. QED
    BY <1>9, <2>1, <2>2 DEF PartsFit, Keyed
<1>10. ASSUME report = "status" PROVE PartsFit'
  <2>1. ASSUME "latencies" \in DOMAIN seen, NEW b \in seen["latencies"]
        PROVE  b \in Backends /\ Merged("backends")'[b] > 0
    <3>1. b \in Backends /\ Merged("backends")[b] > 0
      BY <1>10, <2>1 DEF Reading, PartsFit
    <3>2. QED
      BY <1>7, <1>10, <3>1, KeyedIs
  <2>2. Shown(Backends)' = Shown(Backends)
    BY DEF Shown
  <2>3. QED
    BY <1>10, <2>1, <2>2 DEF Reading, PartsFit
<1>11. QED
  BY <1>5, <1>9, <1>10 DEF PartsFit

LEMMA StepReading ==
  Ledgers /\ Ledgers' /\ Reading /\ [ReportsNext]_<<vars, reader>> => Reading'
<1> SUFFICES ASSUME Ledgers, Ledgers', Reading, [ReportsNext]_<<vars, reader>> PROVE Reading'
  OBVIOUS
<1>1. ReadInOrder'
  BY StepInOrder DEF Reading
<1>2. CASE \E k \in DOMAIN Plan : Ask(k)
  BY <1>1, <1>2, AskReading DEF Reading
<1>3. CASE ReadsOn
  <2>1. report' = report
    BY <1>3 DEF ReadsOn, Load, ReadField, LoadKey, Reads
  <2>2. CASE report \in {"metrics", "status"}
    <3>1. PICK values, l : Taken(values, l)
      BY <1>3, <2>2, ReaderTakes DEF Reading
    <3>2. SeenIsPast' /\ PartsFit'
      BY <2>2, <3>1, TakenIsPast, TakenMetricsFit, TakenStatusFit
    <3>3. QED
      BY <1>1, <3>2 DEF Reading
  <2>3. CASE report \notin {"metrics", "status"}
    BY <1>1, <2>1, <2>3 DEF Reading, SeenIsPast, PartsFit
  <2>4. QED
    BY <2>2, <2>3
<1>4. CASE \E b \in Backends : CheckFlag(b)
  <2>1. report' = report /\ report = "readyz"
    BY <1>4 DEF CheckFlag, Reads
  <2>2. QED
    BY <1>1, <2>1 DEF Reading, SeenIsPast, PartsFit
<1>5. CASE [Next]_vars /\ UNCHANGED <<report, todo, seen>>
  BY <1>1, <1>5, ServerReading DEF Reading
<1>6. QED
  BY <1>2, <1>3, <1>4, <1>5 DEF ReportsNext, ReadsOn, reader

(* The server's own invariants hold beside a reader. *)
LEMMA ReportsLedgers == ReportsSpec => []Ledgers
<1>1. ReportsInit => Ledgers
  BY InitLedgers DEF ReportsInit
<1>2. Ledgers /\ [ReportsNext]_<<vars, reader>> => Ledgers'
  BY ReaderOnlyReads, StepLedgers
<1>3. QED
  BY <1>1, <1>2, PTL DEF ReportsSpec

LEMMA FinishedAddsUp == Reading => ReportsAddUp
<1> SUFFICES ASSUME Reading PROVE ReportsAddUp
  OBVIOUS
<1>1. ASSUME Made("metrics") PROVE MetricsAddUp
  <2>1. InOrder(Metrics, todo, DOMAIN seen)
    BY <1>1, PlanIs DEF Made, Reading, ReadInOrder
  <2>2. {"inFlight", "total", "errors"} \cup Strategies \cup Backends \subseteq DOMAIN seen
    BY <1>1, <2>1, MetricsAt DEF Made
  <2>3. /\ Total(Merged("strategies")) = Shown(Strategies)
        /\ Total(Merged("backends")) = Shown(Backends)
    BY <2>2, MergedDone, KeyedIs
  <2>4. QED
    BY <1>1, <2>2, <2>3, KeyedIs DEF Made, Reading, PartsFit, MetricsAddUp
<1>2. ASSUME Made("status") PROVE StatusAddsUp
  <2>1. InOrder(Status, todo, DOMAIN seen)
    BY <1>2, PlanIs DEF Made, Reading, ReadInOrder
  <2>2. {"latencies", "hits", "misses", "total"} \cup Backends \subseteq DOMAIN seen
    BY <1>2, <2>1, StatusAt DEF Made
  <2>3. Merged("backends") = [b \in Backends |-> seen[b]]
    BY <2>2, MergedDone, KeyedIs
  <2>4. QED
    BY <1>2, <2>2, <2>3 DEF Made, Reading, PartsFit, StatusAddsUp
<1>3. QED
  BY <1>1, <1>2 DEF ReportsAddUp

(***************************************************************************)
(* A finished /metrics or /api/status never shows parts that exceed their  *)
(* whole, although each value is of another instant and a map that was nil *)
(* is shown as empty (server.go:131-159, 389-424).                         *)
(***************************************************************************)
THEOREM ReportsAlwaysAddUp == ReportsSpec => []ReportsAddUp
<1>1. Reading => ReportsAddUp
  BY FinishedAddsUp
<1>2. QED
  BY <1>1, ReportsLedgers, InitReading, StepReading, PTL DEF ReportsSpec

-----------------------------------------------------------------------------
(* The inductive invariant of /readyz. *)
Scanning == ReadInOrder /\ ReadyScan

LEMMA InitScanning == ReportsInit => Scanning
BY InitInOrder, NamesAssumption DEF ReportsInit, Scanning, ReadyScan

(* Before the next step the flags that were up all along are the same, and *)
(* the scan has found one or is still to look at each of them.             *)
LEMMA FlagScan ==
  ASSUME ReadyScan, NEW b \in Backends, CheckFlag(b)
  PROVE  ReadyScan'
<1> DEFINE l == IF healthy[b] THEN << >> ELSE AfterDown(b)
<1>1. /\ report = "readyz" /\ todo # << >> /\ b \in Head(todo)
      /\ todo \in Seq(SUBSET Backends) /\ Len(todo) = 1 /\ Head(todo) \cap DOMAIN seen = {}
  BY DEF CheckFlag, IsNext, ReadyScan
<1>2. /\ todo' = l /\ UNCHANGED <<vars, report, upAllAlong>>
      /\ DOMAIN seen' = DOMAIN seen \cup {b} /\ seen'[b] = healthy[b]
      /\ \A y \in DOMAIN seen : seen'[y] = seen[y]
  <2>1. Reads(One(b, healthy[b]), l) /\ DOMAIN One(b, healthy[b]) = {b}
        /\ One(b, healthy[b])[b] = healthy[b]
    BY DEF CheckFlag, One
  <2>2. QED
    BY <1>1, <2>1, ReadsIs
<1>3. healthy' = healthy
  BY <1>2 DEF vars, selection
<1>4. \A c \in upAllAlong : c \in Backends /\ healthy[c]
  BY DEF ReadyScan
<1>5. CASE healthy[b]
  <2>1. todo' = << >> /\ \E y \in DOMAIN seen' : seen'[y]
    BY <1>2, <1>5
  <2>2. QED
    BY <1>2, <1>3, <1>4, <2>1 DEF ReadyScan
<1>6. CASE ~healthy[b]
  <2>1. todo' = IF Head(todo) = {b} THEN Tail(todo) ELSE <<Head(todo) \ {b}>> \o Tail(todo)
    BY <1>2, <1>6 DEF AfterDown, Rest
  <2>2. b \notin upAllAlong
    BY <1>4, <1>6
  <2>3. (\E y \in DOMAIN seen : seen[y]) => \E y \in DOMAIN seen' : seen'[y]
    BY <1>2
  <2>4. CASE Head(todo) = {b}
    <3>1. todo' = << >>
      BY <1>1, <2>1, <2>4
    <3>2. (\E y \in DOMAIN seen : seen[y]) \/ upAllAlong = {}
      BY <1>1, <2>2, <2>4 DEF ReadyScan
    <3>3. QED
      BY <1>2, <1>3, <1>4, <2>3, <3>1, <3>2 DEF ReadyScan
  <2>5. CASE Head(todo) # {b}
    <3> DEFINE h == Head(todo) \ {b}
    <3>1. h \in SUBSET Backends /\ todo' = <<h>> \o Tail(todo)
      BY <1>1, <2>1, <2>5
    <3> HIDE DEF h
    <3>2. todo' \in Seq(SUBSET Backends) /\ Len(todo') = 1 /\ Head(todo') = h /\ todo' # << >>
      BY <1>1, <3>1
    <3>3. Head(todo') \cap DOMAIN seen' = {}
      BY <1>1, <1>2, <3>2 DEF h
    <3>4. (\E y \in DOMAIN seen : seen[y]) \/ \A c \in upAllAlong : c \in Head(todo')
      BY <1>1, <2>2, <3>2 DEF ReadyScan, h
    <3>5. QED
      BY <1>2, <1>3, <1>4, <2>3, <3>2, <3>3, <3>4 DEF ReadyScan
  <2>6. QED
    BY <2>4, <2>5
<1>7. QED
  BY <1>5, <1>6

LEMMA StepScanning == Scanning /\ [ReportsNext]_<<vars, reader>> => Scanning'
<1> SUFFICES ASSUME Scanning, [ReportsNext]_<<vars, reader>> PROVE ReadyScan'
  BY StepInOrder DEF Scanning
<1>1. CASE \E k \in DOMAIN Plan : Ask(k)
  <2>1. PICK k \in DOMAIN Plan : Ask(k)
    BY <1>1
  <2>2. /\ report' = k /\ todo' = Plan[k] /\ DOMAIN seen' = {}
        /\ upAllAlong' = {b \in Backends : healthy[b]} /\ healthy' = healthy
    BY <2>1 DEF Ask, Scanning, ReadInOrder, vars, selection
  <2>3. \A b \in upAllAlong' : b \in Backends /\ healthy'[b]
    BY <2>2
  <2>4. /\ <<Backends>> \in Seq(SUBSET Backends) /\ Len(<<Backends>>) = 1
        /\ <<Backends>> # << >> /\ Head(<<Backends>>) = Backends
    OBVIOUS
  <2>5. k = "readyz" => todo' = <<Backends>>
    BY <2>2, PlanIs DEF Readyz
  <2>6. QED
    BY <2>2, <2>3, <2>4, <2>5 DEF ReadyScan
<1>2. CASE ReadsOn
  <2>1. /\ report' = report /\ UNCHANGED <<healthy, upAllAlong>>
    BY <1>2 DEF ReadsOn, Load, ReadField, LoadKey, Reads, vars, selection
  <2>2. report # "readyz"
    <3>1. SUFFICES ASSUME report = "readyz" PROVE FALSE
      OBVIOUS
    <3>2. PICK x \in DOMAIN Loads \cup DOMAIN Keyed : IsNext(x)
      BY <1>2, <3>1 DEF ReadsOn, Load, ReadField, LoadKey
    <3>3. Head(todo) \in SUBSET Backends
      BY <3>1, <3>2 DEF Scanning, ReadyScan, IsNext
    <3>4. QED
      BY <3>2, <3>3, NamesApart DEF IsNext
  <2>3. QED
    BY <2>1, <2>2 DEF Scanning, ReadyScan
<1>3. CASE \E b \in Backends : CheckFlag(b)
  BY <1>3, FlagScan DEF Scanning
<1>4. CASE /\ upAllAlong' = {b \in upAllAlong : healthy'[b]}
           /\ UNCHANGED <<report, todo, seen>>
  BY <1>4 DEF Scanning, ReadyScan
<1>5. CASE UNCHANGED <<vars, reader>>
  BY <1>5 DEF Scanning, ReadyScan, vars, selection, reader
<1>6. QED
  BY <1>1, <1>2, <1>3, <1>4, <1>5 DEF ReportsNext, ReadsOn

(***************************************************************************)
(* /readyz does not answer that no backend is healthy while one has been   *)
(* healthy since the scan began (server.go:98-105), whatever the prober    *)
(* and failing requests do to the flags of the others.                     *)
(***************************************************************************)
THEOREM ReadyWhileOneStaysUp == ReportsSpec => []ReadyIfOneStaysUp
<1>1. Scanning => ReadyIfOneStaysUp
  BY NamesAssumption DEF Scanning, ReadyScan, ReadyIfOneStaysUp, Made
<1>2. QED
  BY <1>1, InitScanning, StepScanning, PTL DEF ReportsSpec
=============================================================================
