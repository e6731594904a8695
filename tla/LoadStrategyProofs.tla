------------------------ MODULE LoadStrategyProofs ------------------------
(* Theorems about LoadStrategy, for any backends, requests, lists, costs. *)
EXTENDS LoadStrategy, FiniteSetTheorems, TLAPS

(* A call charges at least one unit. *)
LEMMA ChargePositive == \A r \in Requests : Charge(r) \in Nat \ {0}
BY CostAssumption DEF Charge

(* The backends of a list are backends. *)
LEMMA ListedIsBackends ==
  ASSUME NEW l \in Seq(Backends)
  PROVE  Listed(l) \subseteq Backends
BY DEF Listed

(* The scan order of a non-empty list is a sequence of backends. *)
LEMMA RotationIsSeq ==
  ASSUME NEW l \in Seq(Backends), l # << >>, NEW t \in Nat
  PROVE  Rotation(l, t) \in Seq(Backends) /\ Rotation(l, t) # << >>
<1>1. Len(l) \in Nat /\ Len(l) > 0
  OBVIOUS
<1>2. \A i \in 1..Len(l) : ((t + i - 1) % Len(l)) + 1 \in 1..Len(l)
  BY <1>1
<1>3. \A i \in 1..Len(l) : l[((t + i - 1) % Len(l)) + 1] \in Backends
  BY <1>2
<1>4. Rotation(l, t) \in [1..Len(l) -> Backends]
  BY <1>3 DEF Rotation
<1>5. Rotation(l, t) \in Seq(Backends)
  BY <1>4, <1>1
<1>6. Len(Rotation(l, t)) = Len(l)
  BY <1>4, <1>1, <1>5
<1>7. QED
  BY <1>1, <1>5, <1>6

(* The dispenser stays in its range, and is at zero when it has come round. *)
LEMMA NextTicket ==
  ASSUME NEW t \in Tickets
  PROVE  TicketAfter(t) \in Tickets /\ TicketAfter(t) \in {0, t + 1}
<1>1. Half \in Nat \ {0} /\ t \in 0..(2 * Half - 1)
  BY HalfAssumption DEF Tickets
<1>2. CASE t = 2 * Half - 1
  BY <1>1, <1>2 DEF TicketAfter, Tickets
<1>3. CASE t # 2 * Half - 1
  BY <1>1, <1>3 DEF TicketAfter, Tickets
<1>4. QED
  BY <1>2, <1>3

(* Where a scan starts is an integer, and for a ticket that fits an int    *)
(* the remainder.                                                          *)
LEMMA StartIsInt ==
  ASSUME NEW t \in Tickets, NEW n \in Nat \ {0}
  PROVE  StartOf(t, n) \in Int
<1>1. Signed(t) \in Int
  BY HalfAssumption DEF Signed, Tickets
<1>2. QED
  BY <1>1 DEF StartOf, Rem

LEMMA EarlyStart ==
  ASSUME NEW t \in Tickets, t < Half, NEW n \in Nat \ {0}
  PROVE  StartOf(t, n) = t % n /\ StartOf(t, n) >= 0
<1>1. Signed(t) = t /\ t \in Nat
  BY HalfAssumption DEF Signed, Tickets
<1>2. t % n \in 0..(n - 1)
  BY <1>1
<1>3. QED
  BY <1>1, <1>2 DEF StartOf, Rem

-----------------------------------------------------------------------------
(* The part of the inductive invariant that speaks of types and shapes. *)
Coherent == TypeOK /\ CallsCoherent

LEMMA InitCoherent == Init => Coherent
<1> SUFFICES ASSUME Init PROVE Coherent
  OBVIOUS
<1>1. Listed(InitialList) \subseteq Backends
  BY ListsAssumption, ListedIsBackends
<1>2. NoMap \in Maps
  BY DEF NoMap, Maps
<1>3. loads \in Maps
  BY <1>1, MaxBornAssumption DEF Init, Maps
<1>4. TypeOK
  BY <1>2, <1>3, ListsAssumption, MaxBornAssumption, TicketsAssumption
     DEF Init, TypeOK, Stages, Working, Counters
<1>5. CallsCoherent
  BY DEF Init, CallsCoherent
<1>6. QED
  BY <1>4, <1>5 DEF Coherent

(* The map SetBackends builds sends listed backends to existing counters. *)
LEMMA UpdatedIsMap ==
  ASSUME TypeOK, NEW l \in Lists,
         \A b \in Listed(l) \ DOMAIN loads : born[b] < MaxBorn
  PROVE  Updated(l) \in Maps
<1>1. Listed(l) \subseteq Backends
  BY ListsAssumption, ListedIsBackends
<1>2. \A b \in DOMAIN loads : loads[b] \in 1..MaxBorn
  BY DEF TypeOK, Maps
<1>3. \A b \in Listed(l) \ DOMAIN loads : born[b] + 1 \in 1..MaxBorn
  BY <1>1, MaxBornAssumption DEF TypeOK
<1>4. Updated(l) \in [Listed(l) -> 1..MaxBorn]
  BY <1>2, <1>3 DEF Updated
<1>5. QED
  BY <1>1, <1>4 DEF Maps

(* A call that has chosen a backend has a counter to charge. *)
LEMMA TargetIsCounter ==
  ASSUME Coherent, NEW r \in Requests, chosen[r] # None
  PROVE  Target(r) \in Counters
BY DEF Coherent, TypeOK, CallsCoherent, Target, Counters, Maps

(* Returning from a call clears its locals and moves its stage. *)
LEMMA ReturnTyped ==
  ASSUME TypeOK, NEW r \in Requests, NEW to \in Stages, Return(r, to)
  PROVE  /\ pc' \in [Requests -> Stages]
         /\ list' \in [Requests -> Seq(Backends)]
         /\ snap' \in [Requests -> Maps]
         /\ todo' \in [Requests -> Seq(Backends)]
         /\ chosen' \in [Requests -> Backends \cup {None}]
         /\ minPending' \in [Requests -> Int]
         /\ wasUp' \in [Requests -> SUBSET Backends]
         /\ wasDown' \in [Requests -> SUBSET Backends]
<1>1. NoMap \in Maps
  BY DEF NoMap, Maps
<1>2. QED
  BY <1>1 DEF TypeOK, Return

LEMMA MovedTyped ==
  ASSUME TypeOK, NEW r \in Requests
  PROVE  Moved(r) \in [Requests -> Nat]
BY ChargePositive DEF TypeOK, Moved

LEMMA SetHealthyCoherent ==
  ASSUME Coherent, NEW b \in Backends, NEW value \in BOOLEAN, SetHealthy(b, value)
  PROVE  Coherent'
<1>1. TypeOK'
  BY DEF Coherent, TypeOK, SetHealthy, Seen, strategy, locals
<1>2. CallsCoherent'
  BY DEF Coherent, CallsCoherent, SetHealthy, strategy, locals
<1>3. QED
  BY <1>1, <1>2 DEF Coherent

LEMMA SetBackendsCoherent ==
  ASSUME Coherent, NEW l \in Lists, SetBackends(l)
  PROVE  Coherent'
<1>1. TypeOK'
  <2>1. backends' \in Seq(Backends) /\ loads' \in Maps
    BY ListsAssumption, UpdatedIsMap DEF Coherent, SetBackends
  <2>2. born' \in [Backends -> 0..MaxBorn]
    BY MaxBornAssumption DEF Coherent, TypeOK, SetBackends
  <2>3. count' \in [Counters -> Int]
    BY DEF Coherent, TypeOK, SetBackends
  <2>4. QED
    BY <2>1, <2>2, <2>3 DEF Coherent, TypeOK, SetBackends, locals, seen
<1>2. CallsCoherent'
  BY DEF Coherent, CallsCoherent, SetBackends, locals
<1>3. QED
  BY <1>1, <1>2 DEF Coherent

LEMMA EnterCoherent ==
  ASSUME Coherent, NEW r \in Requests, Enter(r)
  PROVE  Coherent'
<1>1. TypeOK'
  BY DEF Coherent, TypeOK, Enter, Stages, Working, strategy
<1>2. CallsCoherent'
  BY DEF Coherent, CallsCoherent, TypeOK, Enter
<1>3. QED
  BY <1>1, <1>2 DEF Coherent

LEMMA DrawTyped ==
  ASSUME TypeOK, NEW r \in Requests, NEW to \in Stages, Draw(r, to)
  PROVE  /\ next' \in Tickets /\ next' \in {0, next + 1} /\ next \in Tickets
         /\ pc' \in [Requests -> Stages] /\ calm' \in BOOLEAN
         /\ list[r] \in Seq(Backends) /\ Len(list[r]) \in Nat \ {0} /\ Start(r) \in Int
<1>1. list[r] \in Seq(Backends) /\ Len(list[r]) \in Nat \ {0}
  BY DEF TypeOK, Draw
<1>2. QED
  BY <1>1, NextTicket, StartIsInt DEF TypeOK, Draw, Start

LEMMA TicketCoherent ==
  ASSUME Coherent, NEW r \in Requests, TakeTicket(r) \/ Panic(r)
  PROVE  Coherent'
<1>1. PICK to \in {"check", "panicked"} : Draw(r, to)
  BY DEF TakeTicket, Panic
<1>2. to \in Stages
  BY DEF Stages, Working
<1>3. TypeOK'
  <2>1. todo' \in [Requests -> Seq(Backends)]
    <3>1. CASE TakeTicket(r)
      <4>1. Start(r) >= 0 /\ Start(r) \in Int /\ list[r] \in Seq(Backends)
        BY <1>1, <1>2, <3>1, DrawTyped DEF Coherent, TakeTicket
      <4>2. Rotation(list[r], Start(r)) \in Seq(Backends)
        BY <1>1, <4>1, RotationIsSeq DEF Draw
      <4>3. QED
        BY <3>1, <4>2 DEF Coherent, TypeOK, TakeTicket
    <3>2. CASE Panic(r)
      BY <3>2 DEF Coherent, TypeOK, Panic
    <3>3. QED
      BY <3>1, <3>2
  <2>2. next' \in Tickets /\ pc' \in [Requests -> Stages] /\ calm' \in BOOLEAN
    BY <1>1, <1>2, DrawTyped DEF Coherent
  <2>3. QED
    BY <1>1, <2>1, <2>2 DEF Coherent, TypeOK, Draw, seen
<1>4. CallsCoherent'
  <2>1. /\ \A q \in Requests : pc'[q] = IF q = r THEN to ELSE pc[q]
        /\ UNCHANGED <<snap, chosen, held>> /\ chosen[r] = None
        /\ \A q \in Requests \ {r} : todo'[q] = todo[q]
    BY <1>1 DEF Coherent, CallsCoherent, TypeOK, Draw, TakeTicket, Panic
  <2>2. QED
    BY <2>1 DEF Coherent, CallsCoherent
<1>5. QED
  BY <1>3, <1>4 DEF Coherent

LEMMA CheckHealthCoherent ==
  ASSUME Coherent, NEW r \in Requests, CheckHealth(r)
  PROVE  Coherent'
<1>1. TypeOK'
  BY DEF Coherent, TypeOK, CheckHealth, Stages, Working, strategy, seen
<1>2. CallsCoherent'
  BY DEF Coherent, CallsCoherent, TypeOK, CheckHealth, Eligible
<1>3. QED
  BY <1>1, <1>2 DEF Coherent

LEMMA WeighCoherent ==
  ASSUME Coherent, NEW r \in Requests, Weigh(r)
  PROVE  Coherent'
<1> DEFINE b == Head(todo[r])
<1>1. todo[r] \in Seq(Backends) /\ todo[r] # << >> /\ b \in DOMAIN snap[r]
  BY DEF Coherent, CallsCoherent, TypeOK, Weigh, Better
<1>2. b \in Backends /\ <<b, snap[r][b]>> \in Counters
  BY <1>1 DEF Coherent, TypeOK, Maps, Counters
<1>3. TypeOK'
  <2>1. count[<<b, snap[r][b]>>] \in Int
    BY <1>2 DEF Coherent, TypeOK
  <2>2. Tail(todo[r]) \in Seq(Backends)
    BY <1>1
  <2>3. chosen' \in [Requests -> Backends \cup {None}]
    BY <1>2 DEF Coherent, TypeOK, Weigh, Better
  <2>4. minPending' \in [Requests -> Int]
    BY <2>1 DEF Coherent, TypeOK, Weigh, Better
  <2>5. todo' \in [Requests -> Seq(Backends)] /\ pc' \in [Requests -> Stages]
    BY <2>2 DEF Coherent, TypeOK, Weigh, Better, Stages, Working
  <2>6. QED
    BY <2>3, <2>4, <2>5 DEF Coherent, TypeOK, Weigh, strategy, seen
<1>4. CallsCoherent'
  BY <1>1 DEF Coherent, CallsCoherent, TypeOK, Weigh, Better
<1>5. QED
  BY <1>3, <1>4 DEF Coherent

(* A decision, however it was made: the call r is charged to the counter t. *)
Decide(r, t) ==
    /\ pc[r] \in Working
    /\ count' = [count EXCEPT ![t] = @ + Charge(r)]
    /\ held' = [held EXCEPT ![r] = t]
    /\ Return(r, "routed")
    /\ drift' = [Moved(r) EXCEPT ![r] = 0]
    /\ UNCHANGED <<healthy, strategy, calm>>

LEMMA AcquireDecides ==
  ASSUME Coherent, NEW r \in Requests, Acquire(r)
  PROVE  Target(r) \in Counters /\ Decide(r, Target(r))
BY TargetIsCounter DEF Acquire, Decide, Working

LEMMA DecideCoherent ==
  ASSUME Coherent, NEW r \in Requests, NEW t \in Counters, Decide(r, t)
  PROVE  Coherent'
<1>1. TypeOK'
  <2>1. count' \in [Counters -> Int] /\ held' \in [Requests -> Counters \cup {None}]
    BY ChargePositive DEF Coherent, TypeOK, Decide
  <2>2. drift' \in [Requests -> Nat]
    BY MovedTyped DEF Coherent, Decide
  <2>3. QED
    BY <2>1, <2>2, ReturnTyped DEF Coherent, TypeOK, Decide, Stages, strategy
<1>2. CallsCoherent'
  BY NoneAssumption DEF Coherent, CallsCoherent, TypeOK, Decide, Return
<1>3. QED
  BY <1>1, <1>2 DEF Coherent

LEMMA RefusalCoherent ==
  ASSUME Coherent, NEW r \in Requests, RefuseEmpty(r) \/ Refuse(r)
  PROVE  Coherent'
<1>1. TypeOK'
  <2>1. "refused" \in Stages /\ Return(r, "refused")
    BY DEF RefuseEmpty, Refuse, Stages
  <2>2. drift' = [drift EXCEPT ![r] = 0]
    BY Zenon DEF RefuseEmpty, Refuse
  <2>3. UNCHANGED <<healthy, strategy, count, held, calm>>
    BY DEF RefuseEmpty, Refuse
  <2>4. /\ pc' \in [Requests -> Stages]
        /\ list' \in [Requests -> Seq(Backends)]
        /\ snap' \in [Requests -> Maps]
        /\ todo' \in [Requests -> Seq(Backends)]
        /\ chosen' \in [Requests -> Backends \cup {None}]
        /\ minPending' \in [Requests -> Int]
        /\ wasUp' \in [Requests -> SUBSET Backends]
        /\ wasDown' \in [Requests -> SUBSET Backends]
    BY <2>1, ReturnTyped DEF Coherent
  <2>5. QED
    BY <2>2, <2>3, <2>4 DEF Coherent, TypeOK, strategy
<1>2. CallsCoherent'
  BY DEF Coherent, CallsCoherent, TypeOK, RefuseEmpty, Refuse, Return
<1>3. QED
  BY <1>1, <1>2 DEF Coherent

LEMMA ReleaseCoherent ==
  ASSUME Coherent, NEW r \in Requests, Release(r)
  PROVE  Coherent'
<1>1. held[r] \in Counters
  BY DEF Coherent, CallsCoherent, TypeOK, Release, Unreleased
<1>2. TypeOK'
  <2>1. count' \in [Counters -> Int]
    BY <1>1, ChargePositive DEF Coherent, TypeOK, Release
  <2>2. drift' \in [Requests -> Nat]
    BY MovedTyped DEF Coherent, Release
  <2>3. pc' \in [Requests -> Stages]
    BY DEF Coherent, TypeOK, Release, Stages
  <2>4. QED
    BY <2>1, <2>2, <2>3 DEF Coherent, TypeOK, Release, strategy, locals, seen
<1>3. CallsCoherent'
  BY DEF Coherent, CallsCoherent, TypeOK, Release, Unreleased, locals
<1>4. QED
  BY <1>2, <1>3 DEF Coherent

LEMMA StepCoherent == Coherent /\ [Next]_vars => Coherent'
<1> SUFFICES ASSUME Coherent, [Next]_vars PROVE Coherent'
  OBVIOUS
<1>1. ASSUME NEW b \in Flaky, NEW value \in BOOLEAN, SetHealthy(b, value)
      PROVE  Coherent'
  BY <1>1, FlakyAssumption, SetHealthyCoherent
<1>2. ASSUME NEW l \in Lists, SetBackends(l)
      PROVE  Coherent'
  BY <1>2, SetBackendsCoherent
<1>3. ASSUME NEW r \in Requests, Step(r)
      PROVE  Coherent'
  BY <1>3, EnterCoherent, RefusalCoherent, TicketCoherent,
     CheckHealthCoherent, WeighCoherent, AcquireDecides, DecideCoherent DEF Step
<1>4. ASSUME NEW r \in Requests, Release(r)
      PROVE  Coherent'
  BY <1>4, ReleaseCoherent
<1>5. CASE UNCHANGED vars
  BY <1>5 DEF Coherent, TypeOK, CallsCoherent, vars, strategy, locals, seen
<1>6. QED
  BY <1>1, <1>2, <1>3, <1>4, <1>5 DEF Next

(***************************************************************************)
(* The variables of a strategy keep their types in every run: no counter   *)
(* is ever read through a map that lacks it.                               *)
(***************************************************************************)
THEOREM TypeCorrect == Spec => []TypeOK
<1>1. Init => Coherent
  BY InitCoherent
<1>2. Coherent /\ [Next]_vars => Coherent'
  BY StepCoherent
<1>3. Coherent => TypeOK
  BY DEF Coherent
<1>4. QED
  BY <1>1, <1>2, <1>3, PTL DEF Spec

-----------------------------------------------------------------------------
(* One more call brings exactly its charge. *)
LEMMA UnitsAdd ==
  ASSUME NEW S \in SUBSET Requests, NEW r \in Requests \ S, IsFiniteSet(Units(S))
  PROVE  /\ IsFiniteSet(Units(S \cup {r}))
         /\ Cardinality(Units(S \cup {r})) = Cardinality(Units(S)) + Charge(r)
<1> DEFINE new == {r} \X (1..Charge(r))
<1>1. IsFiniteSet({r}) /\ Cardinality({r}) = 1
  BY FS_Singleton
<1>2. IsFiniteSet(1..Charge(r)) /\ Cardinality(1..Charge(r)) = Charge(r)
  BY ChargePositive, FS_Interval
<1>3. IsFiniteSet(new) /\ Cardinality(new) = Charge(r)
  <2>1. IsFiniteSet(new)
        /\ Cardinality(new) = Cardinality({r}) * Cardinality(1..Charge(r))
    BY <1>1, <1>2, FS_Product
  <2>2. Charge(r) \in Nat
    BY ChargePositive
  <2>3. QED
    BY <1>1, <1>2, <2>1, <2>2
<1>4. Units(S \cup {r}) = Units(S) \cup new
  BY DEF Units
<1>5. Units(S) \cap new = {}
  BY DEF Units
<1>6. Cardinality(Units(S) \cap new) = 0
  BY <1>5, FS_EmptySet
<1>7. IsFiniteSet(Units(S) \cup new)
      /\ Cardinality(Units(S) \cup new)
           = Cardinality(Units(S)) + Cardinality(new) - Cardinality(Units(S) \cap new)
  BY <1>3, FS_Union
<1>8. Cardinality(Units(S)) \in Nat /\ Charge(r) \in Nat
  BY FS_CardinalityType, ChargePositive
<1>9. Cardinality(Units(S) \cup new) = Cardinality(Units(S)) + Charge(r)
  <2> HIDE DEF new
  <2>1. QED
    BY <1>3, <1>6, <1>7, <1>8
<1>10. QED
  BY <1>4, <1>7, <1>9, Zenon

(* One call less takes exactly its charge away. *)
LEMMA UnitsRemove ==
  ASSUME NEW S \in SUBSET Requests, NEW r \in S, IsFiniteSet(Units(S))
  PROVE  /\ IsFiniteSet(Units(S \ {r}))
         /\ Cardinality(Units(S \ {r})) = Cardinality(Units(S)) - Charge(r)
<1>1. Units(S \ {r}) \in SUBSET Units(S)
  BY DEF Units
<1>2. IsFiniteSet(Units(S \ {r}))
  BY <1>1, FS_Subset
<1>3. (S \ {r}) \cup {r} = S
  OBVIOUS
<1>4. Cardinality(Units(S)) = Cardinality(Units(S \ {r})) + Charge(r)
  BY <1>2, <1>3, UnitsAdd
<1>5. Cardinality(Units(S \ {r})) \in Nat
  BY <1>2, FS_CardinalityType
<1>6. QED
  BY <1>2, <1>4, <1>5, ChargePositive

LEMMA UnitsNone == IsFiniteSet(Units({})) /\ Cardinality(Units({})) = 0
<1>1. Units({}) = {}
  BY DEF Units
<1>2. QED
  BY <1>1, FS_EmptySet

-----------------------------------------------------------------------------
LEMMA InitOnlyBornKnown == Init => OnlyBornKnown
BY ListsAssumption, ListedIsBackends DEF Init, OnlyBornKnown, NoMap

(* A decision on a counter that was created. *)
LEMMA DecideOnlyBornKnown ==
  ASSUME Coherent, OnlyBornKnown, NEW r \in Requests, NEW t \in Counters,
         Decide(r, t), t[2] <= born[t[1]]
  PROVE  OnlyBornKnown'
BY DEF OnlyBornKnown, Decide, Return, NoMap, strategy, Coherent, TypeOK

(* A counter that SetBackends creates gets a generation nobody knows yet.  *)
LEMMA StepOnlyBornKnown ==
  Coherent /\ OnlyBornKnown /\ [Next]_vars => OnlyBornKnown'
<1> SUFFICES ASSUME Coherent, OnlyBornKnown, [Next]_vars
             PROVE  OnlyBornKnown'
  OBVIOUS
<1>1. ASSUME NEW b \in Flaky, NEW value \in BOOLEAN, SetHealthy(b, value)
      PROVE  OnlyBornKnown'
  BY <1>1 DEF OnlyBornKnown, SetHealthy, strategy, locals
<1>2. ASSUME NEW l \in Lists, SetBackends(l)
      PROVE  OnlyBornKnown'
  <2>1. \A b \in Backends : born[b] \in Nat /\ born'[b] \in Nat /\ born[b] <= born'[b]
    BY <1>2, MaxBornAssumption DEF Coherent, TypeOK, SetBackends
  <2>2. \A b \in DOMAIN loads' : loads'[b] <= born'[b]
    <3> SUFFICES ASSUME NEW b \in Listed(l) PROVE Updated(l)[b] <= born'[b]
      BY <1>2 DEF SetBackends, Updated
    <3>1. b \in Backends
      BY ListsAssumption, ListedIsBackends
    <3>2. CASE b \in DOMAIN loads
      BY <1>2, <2>1, <3>1, <3>2 DEF OnlyBornKnown, SetBackends, Updated, Coherent,
         TypeOK, Maps
    <3>3. CASE b \notin DOMAIN loads
      BY <1>2, <2>1, <3>1, <3>3 DEF SetBackends, Updated
    <3>4. QED
      BY <3>2, <3>3
  <2>3. ASSUME NEW r \in Requests, NEW b \in DOMAIN snap'[r]
        PROVE  snap'[r][b] <= born'[b]
    BY <1>2, <2>1, <2>3 DEF OnlyBornKnown, SetBackends, locals, Coherent, TypeOK, Maps
  <2>4. ASSUME NEW r \in Requests, held'[r] # None
        PROVE  held'[r][2] <= born'[held'[r][1]]
    <3>1. held'[r] = held[r] /\ held[r] \in Counters
      BY <1>2, <2>4 DEF SetBackends, Coherent, TypeOK
    <3>2. held[r][1] \in Backends /\ held[r][2] \in Nat
      BY <3>1, MaxBornAssumption DEF Counters
    <3>3. held[r][2] <= born[held[r][1]]
      BY <2>4, <3>1 DEF OnlyBornKnown
    <3>4. QED
      BY <2>1, <3>1, <3>2, <3>3
  <2>5. QED
    BY <2>2, <2>3, <2>4 DEF OnlyBornKnown
<1>3. ASSUME NEW r \in Requests, Enter(r)
      PROVE  OnlyBornKnown'
  BY <1>3 DEF OnlyBornKnown, Enter, strategy, Coherent, TypeOK
<1>4. ASSUME NEW r \in Requests, RefuseEmpty(r) \/ Refuse(r)
      PROVE  OnlyBornKnown'
  <2>1. Return(r, "refused") /\ UNCHANGED <<strategy, held>>
    BY <1>4, Zenon DEF RefuseEmpty, Refuse
  <2>2. QED
    BY <2>1 DEF OnlyBornKnown, Return, NoMap, strategy, Coherent, TypeOK
<1>5. ASSUME NEW r \in Requests, TakeTicket(r) \/ Panic(r)
      PROVE  OnlyBornKnown'
  BY <1>5 DEF OnlyBornKnown, TakeTicket, Panic, Draw
<1>6. ASSUME NEW r \in Requests, CheckHealth(r)
      PROVE  OnlyBornKnown'
  BY <1>6 DEF OnlyBornKnown, CheckHealth, strategy
<1>7. ASSUME NEW r \in Requests, Weigh(r)
      PROVE  OnlyBornKnown'
  BY <1>7 DEF OnlyBornKnown, Weigh, strategy
<1>8. ASSUME NEW r \in Requests, Acquire(r)
      PROVE  OnlyBornKnown'
  <2>1. chosen[r] \in DOMAIN snap[r]
    BY <1>8 DEF Acquire, Coherent, CallsCoherent
  <2>2. Target(r)[2] <= born[Target(r)[1]]
    BY <2>1 DEF Target, OnlyBornKnown
  <2>3. QED
    BY <1>8, <2>2, AcquireDecides, DecideOnlyBornKnown
<1>9. ASSUME NEW r \in Requests, Release(r)
      PROVE  OnlyBornKnown'
  BY <1>9 DEF OnlyBornKnown, Release, strategy, locals
<1>10. CASE UNCHANGED vars
  BY <1>10 DEF OnlyBornKnown, vars, strategy, locals
<1>11. QED
  BY <1>1, <1>2, <1>3, <1>4, <1>5, <1>6, <1>7, <1>8, <1>9, <1>10 DEF Next, Step

-----------------------------------------------------------------------------
Ledger == FiniteUnits /\ LedgerBalance

LEMMA InitLedger == Init => Ledger
<1> SUFFICES ASSUME Init, NEW c \in Counters
             PROVE  IsFiniteSet(Units(Holders(c))) /\ count[c] = Cardinality(Units(Holders(c)))
  BY DEF Ledger, FiniteUnits, LedgerBalance
<1>1. Holders(c) = {}
  BY DEF Init, Holders
<1>2. QED
  BY <1>1, UnitsNone DEF Init

(* A step that moves no counter and no decision keeps the ledger. *)
LEMMA LedgerFrame ==
  ASSUME Ledger, count' = count, \A c \in Counters : Holders(c)' = Holders(c)
  PROVE  Ledger'
BY DEF Ledger, FiniteUnits, LedgerBalance, Units

LEMMA SetBackendsLedger ==
  ASSUME Coherent, OnlyBornKnown, Ledger, NEW l \in Lists, SetBackends(l)
  PROVE  Ledger'
<1> DEFINE fresh == {<<b, born[b] + 1>> : b \in Listed(l) \ DOMAIN loads}
<1>1. \A c \in Counters : Holders(c)' = Holders(c)
  BY DEF SetBackends, Holders
<1>2. \A c \in Counters \cap fresh : Holders(c) = {}
  <2> SUFFICES ASSUME NEW c \in Counters \cap fresh, NEW r \in Holders(c) PROVE FALSE
    OBVIOUS
  <2>1. PICK b \in Listed(l) \ DOMAIN loads : c = <<b, born[b] + 1>>
    OBVIOUS
  <2>2. b \in Backends /\ born[b] \in Nat
    BY ListsAssumption, ListedIsBackends, MaxBornAssumption DEF Coherent, TypeOK
  <2>3. held[r] = c /\ r \in Requests
    BY DEF Holders
  <2>4. c[2] <= born[c[1]]
    BY <2>3, NoneAssumption DEF OnlyBornKnown
  <2>5. QED
    BY <2>1, <2>2, <2>4
<1>3. \A c \in Counters : count'[c] = IF c \in fresh THEN 0 ELSE count[c]
  BY DEF SetBackends
<1>4. \A c \in Counters : IsFiniteSet(Units(Holders(c)'))
  BY <1>1 DEF Ledger, FiniteUnits
<1>5. \A c \in Counters : count'[c] = Cardinality(Units(Holders(c)'))
  BY <1>1, <1>2, <1>3, UnitsNone DEF Ledger, LedgerBalance
<1>6. QED
  BY <1>4, <1>5 DEF Ledger, FiniteUnits, LedgerBalance, Units

LEMMA DecideLedger ==
  ASSUME Coherent, Ledger, NEW r \in Requests, NEW t \in Counters, Decide(r, t)
  PROVE  Ledger'
<1>1. r \in Requests \ Holders(t) /\ Holders(t) \in SUBSET Requests
  BY DEF Holders, Decide, Working
<1>2. Holders(t)' = Holders(t) \cup {r}
  BY DEF Holders, Decide, Return, Coherent, TypeOK
<1>3. \A c \in Counters \ {t} : Holders(c)' = Holders(c)
  BY DEF Holders, Decide, Return, Working, Coherent, TypeOK
<1>4. count' = [count EXCEPT ![t] = @ + Charge(r)]
  BY DEF Decide
<1>5. IsFiniteSet(Units(Holders(t))) /\ count[t] = Cardinality(Units(Holders(t)))
  BY DEF Ledger, FiniteUnits, LedgerBalance
<1>6. /\ IsFiniteSet(Units(Holders(t) \cup {r}))
      /\ Cardinality(Units(Holders(t) \cup {r})) = Cardinality(Units(Holders(t))) + Charge(r)
  BY <1>1, <1>5, UnitsAdd
<1>7. count'[t] = count[t] + Charge(r) /\ \A c \in Counters \ {t} : count'[c] = count[c]
  BY <1>4 DEF Coherent, TypeOK
<1>8. ASSUME NEW c \in Counters
      PROVE  IsFiniteSet(Units(Holders(c)')) /\ count'[c] = Cardinality(Units(Holders(c)'))
  <2>1. CASE c = t
    BY <2>1, <1>2, <1>5, <1>6, <1>7
  <2>2. CASE c # t
    BY <2>2, <1>3, <1>7 DEF Ledger, FiniteUnits, LedgerBalance
  <2>3. QED
    BY <2>1, <2>2
<1>9. QED
  BY <1>8 DEF Ledger, FiniteUnits, LedgerBalance, Units

LEMMA ReleaseLedger ==
  ASSUME Coherent, Ledger, NEW r \in Requests, Release(r)
  PROVE  Ledger'
<1>1. PICK t \in Counters : t = held[r]
  BY DEF Release, Unreleased, Coherent, CallsCoherent, TypeOK
<1>2. r \in Holders(t) /\ Holders(t) \in SUBSET Requests
  BY <1>1 DEF Holders, Release, Unreleased, Coherent, TypeOK
<1>3. Holders(t)' = Holders(t) \ {r}
  BY <1>1 DEF Holders, Release, Unreleased, Coherent, TypeOK
<1>4. \A c \in Counters \ {t} : Holders(c)' = Holders(c)
  BY <1>1 DEF Holders, Release, Unreleased, Coherent, TypeOK
<1>5. count' = [count EXCEPT ![t] = @ - Charge(r)]
  BY <1>1 DEF Release
<1>6. IsFiniteSet(Units(Holders(t))) /\ count[t] = Cardinality(Units(Holders(t)))
  BY <1>1 DEF Ledger, FiniteUnits, LedgerBalance
<1>7. /\ IsFiniteSet(Units(Holders(t) \ {r}))
      /\ Cardinality(Units(Holders(t) \ {r})) = Cardinality(Units(Holders(t))) - Charge(r)
  BY <1>2, <1>6, UnitsRemove
<1>8. count'[t] = count[t] - Charge(r) /\ \A c \in Counters \ {t} : count'[c] = count[c]
  BY <1>1, <1>5 DEF Coherent, TypeOK
<1>9. ASSUME NEW c \in Counters
      PROVE  IsFiniteSet(Units(Holders(c)')) /\ count'[c] = Cardinality(Units(Holders(c)'))
  <2>1. CASE c = t
    BY <2>1, <1>3, <1>6, <1>7, <1>8
  <2>2. CASE c # t
    BY <2>2, <1>4, <1>8 DEF Ledger, FiniteUnits, LedgerBalance
  <2>3. QED
    BY <2>1, <2>2
<1>10. QED
  BY <1>9 DEF Ledger, FiniteUnits, LedgerBalance, Units

LEMMA StepLedger ==
  Coherent /\ OnlyBornKnown /\ Ledger /\ [Next]_vars => Ledger'
<1> SUFFICES ASSUME Coherent, OnlyBornKnown, Ledger, [Next]_vars
             PROVE  Ledger'
  OBVIOUS
<1>1. ASSUME NEW b \in Flaky, NEW value \in BOOLEAN, SetHealthy(b, value)
      PROVE  Ledger'
  BY <1>1, LedgerFrame DEF SetHealthy, Holders
<1>2. ASSUME NEW l \in Lists, SetBackends(l)
      PROVE  Ledger'
  BY <1>2, SetBackendsLedger
<1>3. ASSUME NEW r \in Requests,
             Enter(r) \/ TakeTicket(r) \/ Panic(r) \/ CheckHealth(r) \/ Weigh(r)
      PROVE  Ledger'
  <2>1. count' = count /\ held' = held
    BY <1>3 DEF Enter, TakeTicket, Panic, Draw, CheckHealth, Weigh
  <2>2. \A q \in Requests : pc'[q] = "routed" <=> pc[q] = "routed"
    BY <1>3 DEF Enter, TakeTicket, Panic, Draw, CheckHealth, Weigh, Coherent, TypeOK
  <2>3. QED
    BY <2>1, <2>2, LedgerFrame DEF Holders
<1>4. ASSUME NEW r \in Requests, RefuseEmpty(r) \/ Refuse(r)
      PROVE  Ledger'
  <2>1. pc[r] \in {"ticket", "check"} /\ Return(r, "refused") /\ UNCHANGED <<count, held>>
    BY <1>4, Zenon DEF RefuseEmpty, Refuse
  <2>2. QED
    BY <2>1, LedgerFrame DEF Holders, Return, Coherent, TypeOK
<1>5. ASSUME NEW r \in Requests, Acquire(r)
      PROVE  Ledger'
  BY <1>5, AcquireDecides, DecideLedger
<1>6. ASSUME NEW r \in Requests, Release(r)
      PROVE  Ledger'
  BY <1>6, ReleaseLedger
<1>7. CASE UNCHANGED vars
  BY <1>7, LedgerFrame DEF Holders, vars
<1>8. QED
  BY <1>1, <1>2, <1>3, <1>4, <1>5, <1>6, <1>7 DEF Next, Step

(***************************************************************************)
(* The ledger balances in every run, for any number of calls, backends and *)
(* lists and any costs: what Select added is exactly what the decisions    *)
(* not yet released will take away, across every SetBackends.  With it, no *)
(* counter is ever negative and an idle strategy has only zero counters.   *)
(***************************************************************************)
THEOREM LedgerBalances == Spec => []LedgerBalance
<1>1. Init => LedgerInductive
  BY InitCoherent, InitOnlyBornKnown, InitLedger
     DEF LedgerInductive, Coherent, Ledger
<1>2. LedgerInductive /\ [Next]_vars => LedgerInductive'
  BY StepCoherent, StepOnlyBornKnown, StepLedger
     DEF LedgerInductive, Coherent, Ledger
<1>3. LedgerInductive => LedgerBalance
  BY DEF LedgerInductive
<1>4. QED
  BY <1>1, <1>2, <1>3, PTL DEF Spec

-----------------------------------------------------------------------------
LEMMA InitFlagsSeen == Init => FlagsSeen
BY DEF Init, FlagsSeen, Working

(* A call that returns is no longer in a working stage; no other call is touched. *)
LEMMA ReturnLeaves ==
  ASSUME TypeOK, NEW r \in Requests, NEW to \in Stages \ Working, Return(r, to)
  PROVE  /\ pc'[r] = to /\ list'[r] = << >> /\ chosen'[r] = None
         /\ \A q \in Requests \ {r} :
              /\ pc'[q] = pc[q] /\ list'[q] = list[q] /\ snap'[q] = snap[q]
              /\ todo'[q] = todo[q] /\ chosen'[q] = chosen[q]
              /\ minPending'[q] = minPending[q]
              /\ wasUp'[q] = wasUp[q] /\ wasDown'[q] = wasDown[q]
BY DEF TypeOK, Return

(* The three ways in which Select returns. *)
LEMMA Returning ==
  ASSUME NEW r \in Requests, RefuseEmpty(r) \/ Acquire(r) \/ Refuse(r)
  PROVE  /\ pc[r] \in Working /\ UNCHANGED <<healthy, strategy, calm>>
         /\ \E to \in Stages \ Working : Return(r, to)
<1>1. "routed" \in Stages \ Working /\ "refused" \in Stages \ Working
  BY DEF Stages, Working
<1>2. CASE RefuseEmpty(r)
  BY <1>1, <1>2 DEF RefuseEmpty, Working
<1>3. CASE Acquire(r)
  BY <1>1, <1>3 DEF Acquire, Working
<1>4. CASE Refuse(r)
  BY <1>1, <1>4 DEF Refuse, Working
<1>5. QED
  BY <1>2, <1>3, <1>4

LEMMA ReturnFlagsSeen ==
  ASSUME TypeOK, FlagsSeen, NEW r \in Requests, NEW to \in Stages \ Working,
         Return(r, to), healthy' = healthy
  PROVE  FlagsSeen'
<1> SUFFICES ASSUME NEW q \in Requests, pc'[q] \in Working, NEW b \in Backends
             PROVE  IF healthy[b] THEN b \in wasUp'[q] ELSE b \in wasDown'[q]
  BY DEF FlagsSeen
<1>1. q # r
  BY ReturnLeaves
<1>2. QED
  BY <1>1, ReturnLeaves DEF FlagsSeen

LEMMA StepFlagsSeen == TypeOK /\ FlagsSeen /\ [Next]_vars => FlagsSeen'
<1> SUFFICES ASSUME TypeOK, FlagsSeen, [Next]_vars PROVE FlagsSeen'
  OBVIOUS
<1>1. ASSUME NEW b \in Flaky, NEW value \in BOOLEAN, SetHealthy(b, value)
      PROVE  FlagsSeen'
  BY <1>1, FlakyAssumption DEF TypeOK, FlagsSeen, SetHealthy, Seen
<1>2. ASSUME NEW r \in Requests, Enter(r)
      PROVE  FlagsSeen'
  BY <1>2 DEF TypeOK, FlagsSeen, Enter
<1>3. ASSUME UNCHANGED <<healthy, seen>>,
             \A r \in Requests : pc'[r] \in Working => pc[r] \in Working
      PROVE  FlagsSeen'
  BY <1>3 DEF FlagsSeen, seen
<1>4. ASSUME NEW l \in Lists, SetBackends(l)
      PROVE  FlagsSeen'
  BY <1>4, <1>3 DEF SetBackends
<1>5. ASSUME NEW r \in Requests, TakeTicket(r) \/ Panic(r)
      PROVE  FlagsSeen'
  BY <1>5, <1>3 DEF TypeOK, TakeTicket, Panic, Draw, Working
<1>6. ASSUME NEW r \in Requests, CheckHealth(r) \/ Weigh(r)
      PROVE  FlagsSeen'
  <2>1. UNCHANGED <<healthy, seen>>
    BY <1>6 DEF CheckHealth, Weigh
  <2>2. \A q \in Requests : pc'[q] \in Working => pc[q] \in Working
    BY <1>6 DEF TypeOK, CheckHealth, Weigh, Working
  <2>3. QED
    BY <1>3, <2>1, <2>2
<1>7. ASSUME NEW r \in Requests, Release(r)
      PROVE  FlagsSeen'
  BY <1>7, <1>3 DEF TypeOK, Release, Unreleased, Working
<1>8. ASSUME NEW r \in Requests, RefuseEmpty(r) \/ Acquire(r) \/ Refuse(r)
      PROVE  FlagsSeen'
  BY <1>8, Returning, ReturnFlagsSeen
<1>9. CASE UNCHANGED vars
  BY <1>9, <1>3 DEF vars
<1>10. QED
  BY <1>1, <1>2, <1>4, <1>5, <1>6, <1>7, <1>8, <1>9 DEF Next, Step

-----------------------------------------------------------------------------
LEMMA InitMapsListed == Init => MapsListed
BY DEF Init, MapsListed, Working

LEMMA ReturnMapsListed ==
  ASSUME TypeOK, MapsListed, NEW r \in Requests, NEW to \in Stages \ Working,
         Return(r, to), UNCHANGED <<backends, loads>>
  PROVE  MapsListed'
BY ReturnLeaves DEF MapsListed

LEMMA StepMapsListed == TypeOK /\ MapsListed /\ [Next]_vars => MapsListed'
<1> SUFFICES ASSUME TypeOK, MapsListed, [Next]_vars PROVE MapsListed'
  OBVIOUS
<1>1. ASSUME UNCHANGED <<backends, loads, list, snap>>,
             \A r \in Requests : pc'[r] \in Working => pc[r] \in Working
      PROVE  MapsListed'
  BY <1>1 DEF MapsListed
<1>2. ASSUME NEW b \in Flaky, NEW value \in BOOLEAN, SetHealthy(b, value)
      PROVE  MapsListed'
  BY <1>1, <1>2 DEF SetHealthy, strategy, locals
<1>3. ASSUME NEW l \in Lists, SetBackends(l)
      PROVE  MapsListed'
  <2>1. DOMAIN loads' = Listed(l) /\ Listed(backends)' = Listed(l)
    BY <1>3 DEF SetBackends, Updated
  <2>2. QED
    BY <1>3, <2>1 DEF MapsListed, SetBackends, locals
<1>4. ASSUME NEW r \in Requests, Enter(r)
      PROVE  MapsListed'
  BY <1>4 DEF TypeOK, MapsListed, Enter, strategy
<1>5. ASSUME NEW r \in Requests, TakeTicket(r) \/ Panic(r)
      PROVE  MapsListed'
  BY <1>1, <1>5 DEF TypeOK, TakeTicket, Panic, Draw, Working
<1>6. ASSUME NEW r \in Requests, CheckHealth(r) \/ Weigh(r)
      PROVE  MapsListed'
  <2>1. UNCHANGED <<backends, loads, list, snap>>
    BY <1>6 DEF CheckHealth, Weigh, strategy
  <2>2. \A q \in Requests : pc'[q] \in Working => pc[q] \in Working
    BY <1>6 DEF TypeOK, CheckHealth, Weigh, Working
  <2>3. QED
    BY <1>1, <2>1, <2>2
<1>7. ASSUME NEW r \in Requests, Release(r)
      PROVE  MapsListed'
  BY <1>1, <1>7 DEF TypeOK, Release, Unreleased, Working, strategy, locals
<1>8. ASSUME NEW r \in Requests, RefuseEmpty(r) \/ Acquire(r) \/ Refuse(r)
      PROVE  MapsListed'
  <2>1. PICK to \in Stages \ Working : Return(r, to)
    BY <1>8, Returning
  <2>2. UNCHANGED <<backends, loads>>
    BY <1>8, Returning DEF strategy
  <2>3. QED
    BY <2>1, <2>2, ReturnMapsListed
<1>9. CASE UNCHANGED vars
  BY <1>1, <1>9 DEF vars, strategy, locals
<1>10. QED
  BY <1>2, <1>3, <1>4, <1>5, <1>6, <1>7, <1>8, <1>9 DEF Next, Step

-----------------------------------------------------------------------------
(* A number above a multiple of n is what it is above it, modulo n. *)
LEMMA ModOf ==
  ASSUME NEW n \in Nat \ {0}, NEW q \in Nat, NEW y \in 0..(n - 1)
  PROVE  (n * q + y) % n = y
OBVIOUS

LEMMA DivMod ==
  ASSUME NEW n \in Nat \ {0}, NEW x \in Nat
  PROVE  /\ x % n \in 0..(n - 1) /\ x \div n \in Nat
         /\ x = n * (x \div n) + (x % n)
OBVIOUS

(* n steps of the remainder, from anywhere, come by each of n places. *)
LEMMA RemainderComesByAll ==
  ASSUME NEW n \in Nat \ {0}, NEW t \in Nat, NEW k \in 1..n
  PROVE  \E i \in 1..n : ((t + i - 1) % n) + 1 = k
<1> DEFINE s == t % n
           d == t \div n
<1>1. s \in 0..(n - 1) /\ d \in Nat /\ t = n * d + s
  BY DivMod
<1> HIDE DEF s, d
<1>2. CASE s <= k - 1
  <2>1. k - s \in 1..n /\ t + (k - s) - 1 = n * d + (k - 1)
    BY <1>1, <1>2
  <2>2. (n * d + (k - 1)) % n = k - 1
    BY <1>1, ModOf
  <2>3. ((t + (k - s) - 1) % n) + 1 = k
    BY <2>1, <2>2
  <2>4. QED
    BY <2>1, <2>3
<1>3. CASE s > k - 1
  <2>1. k - s + n \in 1..n /\ t + (k - s + n) - 1 = (n * d + n) + (k - 1)
    BY <1>1, <1>3
  <2>2. n * d + n = n * (d + 1) /\ d + 1 \in Nat
    BY <1>1
  <2>3. (n * (d + 1) + (k - 1)) % n = k - 1
    BY <2>2, ModOf
  <2>4. ((t + (k - s + n) - 1) % n) + 1 = k
    BY <2>1, <2>2, <2>3
  <2>5. QED
    BY <2>1, <2>4
<1>4. QED
  BY <1>1, <1>2, <1>3

(* The scan of a call comes by all its list. *)
LEMMA RotationVisitsAll ==
  ASSUME NEW l \in Seq(Backends), l # << >>, NEW t \in Nat
  PROVE  Listed(l) \subseteq Listed(Rotation(l, t))
<1> SUFFICES ASSUME NEW k \in 1..Len(l) PROVE l[k] \in Listed(Rotation(l, t))
  BY DEF Listed
<1>1. Len(l) \in Nat \ {0}
  OBVIOUS
<1>2. PICK i \in 1..Len(l) : ((t + i - 1) % Len(l)) + 1 = k
  BY <1>1, RemainderComesByAll
<1>3. Rotation(l, t)[i] = l[k]
  BY <1>2 DEF Rotation
<1>4. Rotation(l, t) \in Seq(Backends)
  BY RotationIsSeq
<1>5. Len(Rotation(l, t)) = Len(l)
  BY <1>1, <1>4 DEF Rotation
<1>6. QED
  BY <1>3, <1>5 DEF Listed

(* What is to do is the next backend and the rest. *)
LEMMA HeadAndTail ==
  ASSUME NEW s \in Seq(Backends), s # << >>
  PROVE  Listed(s) = {Head(s)} \cup Listed(Tail(s))
<1>1. Len(s) \in Nat \ {0} /\ Len(Tail(s)) = Len(s) - 1
      /\ \A i \in 1..(Len(s) - 1) : Tail(s)[i] = s[i + 1]
  OBVIOUS
<1>2. Listed(s) \subseteq {Head(s)} \cup Listed(Tail(s))
  <2> SUFFICES ASSUME NEW i \in 1..Len(s), i # 1 PROVE s[i] \in Listed(Tail(s))
    BY DEF Listed
  <2>1. i - 1 \in 1..Len(Tail(s)) /\ Tail(s)[i - 1] = s[i]
    BY <1>1
  <2>2. QED
    BY <2>1 DEF Listed
<1>3. Listed(Tail(s)) \subseteq Listed(s)
  BY <1>1 DEF Listed
<1>4. Head(s) \in Listed(s)
  BY <1>1 DEF Listed
<1>5. QED
  BY <1>2, <1>3, <1>4

LEMMA ListedNothing == Listed(<< >>) = {}
BY DEF Listed

-----------------------------------------------------------------------------
LEMMA InitScans == Init => ScanKnows /\ ScanBounded
BY DEF Init, ScanKnows, Knows, ScanBounded, Bounded

(* A call whose scan does not move keeps what it knows. *)
LEMMA KnowsFrame ==
  ASSUME NEW q \in Requests, Knows(q), pc'[q] = pc[q], list'[q] = list[q],
         todo'[q] = todo[q], chosen'[q] = chosen[q],
         wasUp[q] \subseteq wasUp'[q], wasDown[q] \subseteq wasDown'[q]
  PROVE  Knows(q)' /\ Scanned(q)' \subseteq Scanned(q)
<1>1. Scanned(q)' \subseteq Scanned(q)
  BY DEF Scanned
<1>2. QED
  BY <1>1 DEF Knows

(* A call can read the counters of all that it has scanned. *)
LEMMA KnownCounters ==
  ASSUME Coherent, MapsListed, NEW q \in Requests, chosen[q] # None
  PROVE  /\ Scanned(q) \subseteq DOMAIN snap[q] /\ chosen[q] \in DOMAIN snap[q]
         /\ \A b \in DOMAIN snap[q] : b \in Backends /\ Known(q, b) \in Counters
         /\ Target(q) = Known(q, chosen[q])
         /\ minPending[q] \in Int /\ drift[q] \in Nat
<1>1. pc[q] \in Working /\ chosen[q] \in DOMAIN snap[q]
  BY DEF Coherent, CallsCoherent, Working
<1>2. snap[q] \in Maps
  BY DEF Coherent, TypeOK
<1>3. QED
  BY <1>1, <1>2
     DEF Coherent, TypeOK, MapsListed, Maps, Scanned, Known, Target, Counters

(* When another call moves one counter by d, the drift covers it.          *)
LEMMA BoundedFrame ==
  ASSUME Coherent, MapsListed, NEW q \in Requests, Bounded(q), NEW d \in Nat,
         snap'[q] = snap[q], chosen'[q] = chosen[q],
         minPending'[q] = minPending[q], drift'[q] = drift[q] + d,
         Scanned(q)' \subseteq Scanned(q), count' \in [Counters -> Int],
         \/ \A b \in DOMAIN snap[q] :
              count'[Known(q, b)] \in count[Known(q, b)]..(count[Known(q, b)] + d)
         \/ \A b \in DOMAIN snap[q] :
              count'[Known(q, b)] \in (count[Known(q, b)] - d)..count[Known(q, b)]
  PROVE  Bounded(q)'
<1> SUFFICES ASSUME chosen[q] # None PROVE Bounded(q)'
  BY DEF Bounded
<1> DEFINE T == Target(q)
<1>1. count \in [Counters -> Int]
  BY DEF Coherent, TypeOK
<1>2. T \in Counters /\ T = Known(q, chosen[q]) /\ chosen[q] \in DOMAIN snap[q]
  BY KnownCounters
<1>3. minPending[q] \in Int /\ drift[q] \in Nat
  BY KnownCounters
<1>4. count[T] <= minPending[q] + drift[q]
  BY DEF Bounded
<1>5. count'[T] <= minPending'[q] + drift'[q]
  BY <1>1, <1>2, <1>3, <1>4
<1>6. ASSUME NEW b \in Scanned(q)
      PROVE  /\ minPending'[q] <= count'[Known(q, b)] + drift'[q]
             /\ count'[T] <= count'[Known(q, b)] + drift'[q]
  <2>1. Known(q, b) \in Counters /\ b \in DOMAIN snap[q]
    BY KnownCounters
  <2>2. /\ minPending[q] <= count[Known(q, b)] + drift[q]
        /\ count[T] <= count[Known(q, b)] + drift[q]
    BY DEF Bounded
  <2>3. /\ count[T] \in Int /\ count'[T] \in Int
        /\ count[Known(q, b)] \in Int /\ count'[Known(q, b)] \in Int
    BY <1>1, <1>2, <2>1
  <2>4. QED
    BY <1>2, <1>3, <2>1, <2>2, <2>3
<1>7. Target(q)' = T /\ \A b : Known(q, b)' = Known(q, b)
  BY DEF Target, Known
<1>8. QED
  BY <1>5, <1>6, <1>7 DEF Bounded

(* What a call knows is the same when no counter moves. *)
LEMMA BoundedStill ==
  ASSUME Coherent, MapsListed, NEW q \in Requests, Bounded(q),
         snap'[q] = snap[q], chosen'[q] = chosen[q],
         minPending'[q] = minPending[q], drift'[q] = drift[q],
         Scanned(q)' \subseteq Scanned(q), count' \in [Counters -> Int],
         \A b \in DOMAIN snap[q] : count'[Known(q, b)] = count[Known(q, b)]
  PROVE  Bounded(q)'
<1> SUFFICES ASSUME chosen[q] # None PROVE Bounded(q)'
  BY DEF Bounded
<1>1. \A b \in DOMAIN snap[q] : count[Known(q, b)] \in Int
  BY KnownCounters DEF Coherent, TypeOK
<1>2. drift'[q] = drift[q] + 0
  BY DEF Coherent, TypeOK
<1>3. \A b \in DOMAIN snap[q] :
        count'[Known(q, b)] \in count[Known(q, b)]..(count[Known(q, b)] + 0)
  BY <1>1
<1>4. QED
  BY <1>2, <1>3, BoundedFrame

Scans(q) == Knows(q) /\ Bounded(q)

LEMMA SetHealthyScans ==
  ASSUME Coherent, MapsListed, NEW q \in Requests, Scans(q),
         NEW b \in Backends, NEW value \in BOOLEAN, SetHealthy(b, value)
  PROVE  Scans(q)'
<1>1. UNCHANGED <<pc, list, snap, todo, chosen, minPending, drift, count>>
  BY DEF SetHealthy, locals
<1>2. wasUp[q] \subseteq wasUp'[q] /\ wasDown[q] \subseteq wasDown'[q]
  BY DEF SetHealthy, Seen
<1>3. Knows(q)' /\ Scanned(q)' \subseteq Scanned(q)
  BY <1>1, <1>2, KnowsFrame DEF Scans
<1>4. Bounded(q)'
  BY <1>1, <1>3, BoundedStill DEF Scans, Coherent, TypeOK
<1>5. QED
  BY <1>3, <1>4 DEF Scans

LEMMA SetBackendsScans ==
  ASSUME Coherent, OnlyBornKnown, MapsListed, NEW q \in Requests, Scans(q),
         NEW l \in Lists, SetBackends(l)
  PROVE  Scans(q)'
<1> DEFINE fresh == {<<b, born[b] + 1>> : b \in Listed(l) \ DOMAIN loads}
<1>1. UNCHANGED <<pc, list, snap, todo, chosen, minPending, drift, seen>>
  BY DEF SetBackends, locals
<1>2. Knows(q)' /\ Scanned(q)' \subseteq Scanned(q)
  BY <1>1, KnowsFrame DEF Scans, seen
<1>3. ASSUME chosen[q] # None, NEW b \in DOMAIN snap[q]
      PROVE  count'[Known(q, b)] = count[Known(q, b)]
  <2>1. Known(q, b) \in Counters /\ b \in Backends
    BY <1>3, KnownCounters
  <2>2. snap[q][b] <= born[b] /\ snap[q][b] \in Int /\ born[b] \in Int
    BY <2>1, MaxBornAssumption DEF OnlyBornKnown, Coherent, TypeOK, Maps
  <2>3. Known(q, b) \notin fresh
    BY <2>2 DEF Known
  <2>4. QED
    BY <2>1, <2>3 DEF SetBackends
<1>4. count' \in [Counters -> Int]
  BY SetBackendsCoherent DEF Coherent, TypeOK
<1>5. Bounded(q)'
  <2>1. CASE chosen[q] # None
    BY <1>1, <1>2, <1>3, <1>4, <2>1, BoundedStill DEF Scans
  <2>2. CASE chosen[q] = None
    BY <1>1, <2>2 DEF Bounded
  <2>3. QED
    BY <2>1, <2>2
<1>6. QED
  BY <1>2, <1>5 DEF Scans

(* The other calls, when one goes on or returns without a decision. *)
LEMMA OtherScans ==
  ASSUME Coherent, MapsListed, NEW q \in Requests, Scans(q), count' = count,
         pc'[q] = pc[q], list'[q] = list[q], snap'[q] = snap[q],
         todo'[q] = todo[q], chosen'[q] = chosen[q],
         minPending'[q] = minPending[q], drift'[q] = drift[q],
         wasUp'[q] = wasUp[q], wasDown'[q] = wasDown[q]
  PROVE  Scans(q)'
<1>1. Knows(q)' /\ Scanned(q)' \subseteq Scanned(q)
  BY KnowsFrame DEF Scans
<1>2. Bounded(q)'
  BY <1>1, BoundedStill DEF Scans, Coherent, TypeOK
<1>3. QED
  BY <1>1, <1>2 DEF Scans

(* Nothing is chosen before the scan, and nothing is left of it after.     *)
LEMMA NothingChosen ==
  ASSUME NEW q \in Requests, chosen'[q] = None, pc'[q] \notin {"check", "weigh"}
  PROVE  Scans(q)'
BY DEF Scans, Knows, Bounded

LEMMA EnterScans ==
  ASSUME Coherent, MapsListed, NEW q \in Requests, Scans(q), NEW r \in Requests, Enter(r)
  PROVE  Scans(q)'
<1>1. CASE q = r
  <2>1. chosen'[q] = None /\ pc'[q] = "ticket"
    BY <1>1 DEF Enter, Coherent, CallsCoherent, TypeOK
  <2>2. QED
    BY <2>1, NothingChosen
<1>2. CASE q # r
  BY <1>2, OtherScans DEF Enter, Coherent, TypeOK
<1>3. QED
  BY <1>1, <1>2

LEMMA RefusalScans ==
  ASSUME Coherent, MapsListed, NEW q \in Requests, Scans(q), NEW r \in Requests,
         RefuseEmpty(r) \/ Refuse(r)
  PROVE  Scans(q)'
<1>1. Return(r, "refused") /\ "refused" \in Stages \ Working
  BY DEF RefuseEmpty, Refuse, Stages, Working
<1>2. drift' = [drift EXCEPT ![r] = 0] /\ count' = count
  BY Zenon DEF RefuseEmpty, Refuse
<1>3. CASE q = r
  BY <1>1, <1>3, ReturnLeaves, NothingChosen DEF Coherent
<1>4. CASE q # r
  <2>1. drift'[q] = drift[q]
    BY <1>2, <1>4 DEF Coherent, TypeOK
  <2>2. QED
    BY <1>1, <1>2, <1>4, <2>1, ReturnLeaves, OtherScans DEF Coherent
<1>5. QED
  BY <1>3, <1>4

LEMMA TakeTicketScans ==
  ASSUME Coherent, MapsListed, NEW q \in Requests, Scans(q), NEW r \in Requests, TakeTicket(r)
  PROVE  Scans(q)'
<1>1. CASE q = r
  <2>1. chosen'[q] = None /\ pc'[q] = "check" /\ list'[q] = list[q] /\ wasDown' = wasDown
        /\ todo'[q] = Rotation(list[q], Start(q))
    BY <1>1 DEF TakeTicket, Draw, Coherent, CallsCoherent, TypeOK, seen
  <2>2. list[q] \in Seq(Backends) /\ Len(list[q]) \in Nat \ {0} /\ Start(q) \in Nat
    BY <1>1, DrawTyped DEF Coherent, TakeTicket, Stages, Working
  <2>3. Listed(list[q]) \subseteq Listed(Rotation(list[q], Start(q)))
    BY <2>2, RotationVisitsAll
  <2>4. Scanned(q)' = {}
    BY <2>1, <2>3 DEF Scanned
  <2>5. QED
    BY <2>1, <2>4 DEF Scans, Knows, Bounded
<1>2. CASE q # r
  BY <1>2, OtherScans DEF TakeTicket, Draw, Coherent, TypeOK, seen
<1>3. QED
  BY <1>1, <1>2

(* A call that panics has chosen nothing.                                  *)
LEMMA PanicScans ==
  ASSUME Coherent, MapsListed, NEW q \in Requests, Scans(q), NEW r \in Requests, Panic(r)
  PROVE  Scans(q)'
<1>1. CASE q = r
  <2>1. chosen'[q] = None /\ pc'[q] = "panicked"
    BY <1>1 DEF Panic, Draw, Coherent, CallsCoherent, TypeOK
  <2>2. QED
    BY <2>1, NothingChosen
<1>2. CASE q # r
  BY <1>2, OtherScans DEF Panic, Draw, Coherent, TypeOK, seen
<1>3. QED
  BY <1>1, <1>2

(* The scan passes over a backend only if it was down.                     *)
LEMMA CheckHealthScans ==
  ASSUME Coherent, FlagsSeen, MapsListed, NEW q \in Requests, Scans(q),
         NEW r \in Requests, CheckHealth(r)
  PROVE  Scans(q)'
<1>1. CASE q # r
  <2>1. UNCHANGED <<count, list, snap, chosen, minPending, drift, seen>>
    BY DEF CheckHealth
  <2>2. pc'[q] = pc[q] /\ todo'[q] = todo[q]
    BY <1>1 DEF CheckHealth, Coherent, TypeOK
  <2>3. QED
    BY <2>1, <2>2, OtherScans DEF seen
<1>2. CASE q = r
  <2> DEFINE b == Head(todo[q])
  <2>1. UNCHANGED <<count, list, snap, chosen, minPending, drift, seen>>
    BY DEF CheckHealth
  <2>2. pc[q] = "check" /\ todo[q] \in Seq(Backends) /\ todo[q] # << >>
    BY <1>2 DEF CheckHealth, Coherent, TypeOK
  <2>3. b \in Backends
    BY <2>2
  <2>4. IF healthy[b] THEN b \in wasUp[q] ELSE b \in wasDown[q]
    BY <2>2, <2>3 DEF FlagsSeen, Working
  <2>5. DOMAIN snap[q] = Listed(list[q])
    BY <2>2 DEF MapsListed, Working
  <2>6. Scanned(q)' \subseteq Scanned(q) /\ (pc'[q] = "weigh" => Head(todo'[q]) \in wasUp[q])
    <3>1. CASE Eligible(q, b)
      <4>1. todo'[q] = todo[q]
        BY <1>2, <3>1 DEF CheckHealth, Coherent, TypeOK
      <4>2. QED
        BY <2>1, <2>4, <3>1, <4>1 DEF Scanned, Eligible, seen
    <3>2. CASE ~Eligible(q, b)
      <4>1. todo'[q] = Tail(todo[q]) /\ pc'[q] = "check"
        BY <1>2, <3>2 DEF CheckHealth, Coherent, TypeOK
      <4>2. b \notin Listed(list[q]) \/ b \in wasDown[q]
        BY <2>4, <2>5, <3>2 DEF Eligible
      <4>3. Listed(todo[q]) = {b} \cup Listed(Tail(todo[q]))
        BY <2>2, HeadAndTail
      <4>4. Scanned(q)' \subseteq Scanned(q)
        BY <2>1, <4>1, <4>2, <4>3 DEF Scanned, seen
      <4>5. QED
        BY <4>1, <4>4
    <3>3. QED
      BY <3>1, <3>2
  <2>7. Knows(q)'
    BY <2>1, <2>2, <2>6 DEF Scans, Knows, seen
  <2>8. Bounded(q)'
    BY <2>1, <2>6, BoundedStill DEF Scans, Coherent, TypeOK
  <2>9. QED
    BY <2>7, <2>8 DEF Scans
<1>3. QED
  BY <1>1, <1>2

(* The scan keeps the first of the smallest counters it has read, up to    *)
(* what the other calls have moved since.                                  *)
LEMMA WeighScans ==
  ASSUME Coherent, MapsListed, NEW q \in Requests, Scans(q), NEW r \in Requests, Weigh(r)
  PROVE  Scans(q)'
<1>1. UNCHANGED <<count, list, snap, drift, seen>>
  BY DEF Weigh
<1>2. CASE q # r
  <2>1. pc'[q] = pc[q] /\ todo'[q] = todo[q] /\ chosen'[q] = chosen[q]
        /\ minPending'[q] = minPending[q]
    BY <1>2 DEF Weigh, Coherent, TypeOK
  <2>2. QED
    BY <1>1, <2>1, OtherScans DEF seen
<1>3. CASE q = r
  <2> DEFINE b == Head(todo[q])
             pending == count[Known(q, b)]
  <2>1. pc[q] = "weigh" /\ todo[q] \in Seq(Backends) /\ todo[q] # << >>
        /\ b \in DOMAIN snap[q] /\ b \in wasUp[q]
    BY <1>3 DEF Weigh, Coherent, CallsCoherent, TypeOK, Scans, Knows
  <2>2. b \in Backends /\ Known(q, b) \in Counters /\ pending \in Int
    BY <2>1 DEF Coherent, TypeOK, Maps, Counters, Known
  <2>3. pc'[q] = "check" /\ todo'[q] = Tail(todo[q])
    BY <1>3 DEF Weigh, Coherent, TypeOK
  <2>4. Scanned(q)' \subseteq Scanned(q) \cup {b}
    <3>1. Listed(todo[q]) = {b} \cup Listed(Tail(todo[q]))
      BY <2>1, HeadAndTail
    <3>2. QED
      BY <1>1, <2>3, <3>1 DEF Scanned, seen
  <2>5. minPending[q] \in Int /\ drift[q] \in Nat
    BY DEF Coherent, TypeOK
  <2>6. \A e : Known(q, e)' = Known(q, e)
    BY <1>1 DEF Known
  <2>7. \A e \in Scanned(q) : Known(q, e) \in Counters /\ count[Known(q, e)] \in Int
    <3>1. Scanned(q) \subseteq DOMAIN snap[q]
      BY <2>1 DEF MapsListed, Working, Scanned
    <3>2. QED
      BY <3>1 DEF Coherent, TypeOK, Maps, Counters, Known
  <2>8. CASE Better(q, pending)
    <3>1. chosen'[q] = b /\ minPending'[q] = pending
      BY <1>3, <2>8 DEF Weigh, Coherent, TypeOK, Known
    <3>2. chosen'[q] # None
      BY <2>2, <3>1, NoneAssumption
    <3>3. Knows(q)'
      BY <1>1, <2>1, <2>3, <3>1, <3>2 DEF Knows, seen
    <3>4. Target(q)' = Known(q, b)
      BY <1>1, <3>1 DEF Target, Known
    <3>5. ASSUME NEW e \in Scanned(q)
          PROVE  pending <= count[Known(q, e)] + drift[q]
      <4>1. chosen[q] # None
        BY <2>1 DEF Scans, Knows
      <4>2. minPending[q] <= count[Known(q, e)] + drift[q] /\ pending < minPending[q]
        BY <2>8, <4>1 DEF Scans, Bounded, Better
      <4>3. QED
        BY <2>2, <2>5, <2>7, <4>2
    <3>6. pending <= pending + drift[q]
      BY <2>2, <2>5
    <3>7. Bounded(q)'
      BY <1>1, <2>4, <2>6, <3>1, <3>4, <3>5, <3>6 DEF Bounded
    <3>8. QED
      BY <3>3, <3>7 DEF Scans
  <2>9. CASE ~Better(q, pending)
    <3>1. chosen'[q] = chosen[q] /\ minPending'[q] = minPending[q]
      BY <1>3, <2>9 DEF Weigh, Coherent, TypeOK, Known
    <3>2. chosen[q] # None /\ minPending[q] <= pending
      BY <2>2, <2>5, <2>9 DEF Better
    <3>3. Knows(q)'
      BY <1>1, <2>3, <3>1, <3>2 DEF Scans, Knows, seen
    <3>4. Target(q)' = Target(q) /\ Target(q) \in Counters /\ count[Target(q)] \in Int
      BY <1>1, <3>1, <3>2, TargetIsCounter DEF Target, Coherent, TypeOK
    <3>5. /\ count[Target(q)] <= minPending[q] + drift[q]
          /\ \A e \in Scanned(q) :
               /\ minPending[q] <= count[Known(q, e)] + drift[q]
               /\ count[Target(q)] <= count[Known(q, e)] + drift[q]
      BY <3>2 DEF Scans, Bounded
    <3>6. minPending[q] <= pending + drift[q] /\ count[Target(q)] <= pending + drift[q]
      BY <2>2, <2>5, <3>2, <3>4, <3>5
    <3>7. Bounded(q)'
      BY <1>1, <2>4, <2>6, <3>1, <3>4, <3>5, <3>6 DEF Bounded
    <3>8. QED
      BY <3>3, <3>7 DEF Scans
  <2>10. QED
    BY <2>8, <2>9
<1>4. QED
  BY <1>2, <1>3

(* Another call moves its charge on one counter. *)
LEMMA ChargeScans ==
  ASSUME Coherent, MapsListed, NEW q \in Requests, Scans(q),
         NEW r \in Requests, q # r, NEW t \in Counters,
         \/ count' = [count EXCEPT ![t] = @ + Charge(r)]
         \/ count' = [count EXCEPT ![t] = @ - Charge(r)],
         pc'[q] = pc[q], list'[q] = list[q], snap'[q] = snap[q],
         todo'[q] = todo[q], chosen'[q] = chosen[q],
         minPending'[q] = minPending[q], drift'[q] = Moved(r)[q],
         wasUp'[q] = wasUp[q], wasDown'[q] = wasDown[q]
  PROVE  Scans(q)'
<1>1. Knows(q)' /\ Scanned(q)' \subseteq Scanned(q)
  BY KnowsFrame DEF Scans
<1>2. Charge(r) \in Nat /\ count \in [Counters -> Int]
  BY ChargePositive DEF Coherent, TypeOK
<1>3. Bounded(q)'
  <2>1. CASE chosen[q] = None
    BY <2>1 DEF Bounded
  <2>2. CASE chosen[q] # None
    <3>1. drift'[q] = drift[q] + Charge(r)
      BY <2>2 DEF Moved, Coherent, CallsCoherent, Working
    <3>2. \A b \in DOMAIN snap[q] : Known(q, b) \in Counters
      BY <2>2, KnownCounters
    <3>3. CASE count' = [count EXCEPT ![t] = @ + Charge(r)]
      <4>1. count' \in [Counters -> Int]
            /\ \A c \in Counters : count'[c] \in count[c]..(count[c] + Charge(r))
        BY <1>2, <3>3
      <4>2. QED
        BY <1>1, <1>2, <3>1, <3>2, <4>1, BoundedFrame DEF Scans
    <3>4. CASE count' = [count EXCEPT ![t] = @ - Charge(r)]
      <4>1. count' \in [Counters -> Int]
            /\ \A c \in Counters : count'[c] \in (count[c] - Charge(r))..count[c]
        BY <1>2, <3>4
      <4>2. QED
        BY <1>1, <1>2, <3>1, <3>2, <4>1, BoundedFrame DEF Scans
    <3>5. QED
      BY <3>3, <3>4
  <2>3. QED
    BY <2>1, <2>2
<1>4. QED
  BY <1>1, <1>3 DEF Scans

LEMMA DecideScans ==
  ASSUME Coherent, MapsListed, NEW q \in Requests, Scans(q), NEW r \in Requests,
         NEW t \in Counters, Decide(r, t)
  PROVE  Scans(q)'
<1>1. Return(r, "routed") /\ "routed" \in Stages \ Working
  BY DEF Decide, Stages, Working
<1>2. CASE q = r
  BY <1>1, <1>2, ReturnLeaves, NothingChosen DEF Coherent
<1>3. CASE q # r
  <2>1. count' = [count EXCEPT ![t] = @ + Charge(r)]
    BY DEF Decide
  <2>2. drift'[q] = Moved(r)[q]
    BY <1>3 DEF Decide, Moved
  <2>3. QED
    BY <1>1, <1>3, <2>1, <2>2, ReturnLeaves, ChargeScans DEF Coherent
<1>4. QED
  BY <1>2, <1>3

LEMMA ReleaseScans ==
  ASSUME Coherent, MapsListed, NEW q \in Requests, Scans(q), NEW r \in Requests, Release(r)
  PROVE  Scans(q)'
<1>1. CASE q = r
  BY <1>1, NothingChosen DEF Release, Unreleased, Coherent, CallsCoherent, TypeOK, locals
<1>2. CASE q # r
  <2>1. PICK t \in Counters : t = held[r]
    BY DEF Release, Unreleased, Coherent, CallsCoherent, TypeOK
  <2>2. count' = [count EXCEPT ![t] = @ - Charge(r)]
    BY <2>1 DEF Release
  <2>3. drift'[q] = Moved(r)[q] /\ pc'[q] = pc[q] /\ UNCHANGED <<locals, seen>>
    BY <1>2 DEF Release, Coherent, TypeOK
  <2>4. QED
    BY <1>2, <2>2, <2>3, ChargeScans DEF locals, seen
<1>3. QED
  BY <1>1, <1>2

(* All that the drift bound and the refinement rest on. *)
ScansTrue == FlagsSeen /\ MapsListed /\ ScanKnows /\ ScanBounded

LEMMA StepScans ==
  Coherent /\ OnlyBornKnown /\ ScansTrue /\ [Next]_vars => ScanKnows' /\ ScanBounded'
<1> SUFFICES ASSUME Coherent, OnlyBornKnown, ScansTrue, [Next]_vars, NEW q \in Requests
             PROVE  Scans(q)'
  BY DEF ScanKnows, ScanBounded, Scans
<1>1. Scans(q) /\ FlagsSeen /\ MapsListed
  BY DEF ScansTrue, ScanKnows, ScanBounded, Scans
<1>2. ASSUME NEW b \in Flaky, NEW value \in BOOLEAN, SetHealthy(b, value)
      PROVE  Scans(q)'
  BY <1>1, <1>2, SetHealthyScans, FlakyAssumption
<1>3. ASSUME NEW l \in Lists, SetBackends(l)
      PROVE  Scans(q)'
  BY <1>1, <1>3, SetBackendsScans
<1>4. ASSUME NEW r \in Requests, Step(r)
      PROVE  Scans(q)'
  BY <1>1, <1>4, EnterScans, RefusalScans, TakeTicketScans, PanicScans,
     CheckHealthScans, WeighScans, AcquireDecides, DecideScans DEF Step
<1>5. ASSUME NEW r \in Requests, Release(r)
      PROVE  Scans(q)'
  BY <1>1, <1>5, ReleaseScans
<1>6. CASE UNCHANGED vars
  BY <1>1, <1>6, OtherScans DEF vars, locals, seen
<1>7. QED
  BY <1>2, <1>3, <1>4, <1>5, <1>6 DEF Next

(* The invariant of both proofs: what each scan has seen is true. *)
Scanning == Coherent /\ OnlyBornKnown /\ ScansTrue

LEMMA InitScanning == Init => Scanning
BY InitCoherent, InitOnlyBornKnown, InitFlagsSeen, InitMapsListed, InitScans
   DEF Scanning, ScansTrue

LEMMA StepScanning == Scanning /\ [Next]_vars => Scanning'
BY StepCoherent, StepOnlyBornKnown, StepFlagsSeen, StepMapsListed, StepScans
   DEF Scanning, ScansTrue, Coherent

(* A call that is about to be charged has scanned all that was up. *)
LEMMA ChoiceBounded ==
  ASSUME Scanning, NEW r \in Requests, Acquire(r),
         NEW b \in Listed(list[r]) \ wasDown[r]
  PROVE  count[Target(r)] <= count[Known(r, b)] + drift[r]
<1>1. b \in Scanned(r) /\ chosen[r] # None
  BY ListedNothing DEF Scanned, Acquire
<1>2. QED
  BY <1>1 DEF Scanning, ScansTrue, ScanBounded, Bounded

(***************************************************************************)
(* For any calls, lists, costs and flags: the counter a call is charged to *)
(* exceeds that of a backend which was up during the whole call by no more *)
(* than what the other calls moved meanwhile.                              *)
(***************************************************************************)
THEOREM DriftIsBounded == Spec => DriftBound
<1>1. Scanning /\ [Next]_vars
        => [\A r \in Requests : Acquire(r) =>
              \A b \in Listed(list[r]) \ wasDown[r] :
                 count[Target(r)] <= count[<<b, snap[r][b]>>] + drift[r]]_vars
  BY ChoiceBounded DEF Known
<1>2. QED
  BY <1>1, InitScanning, StepScanning, PTL DEF Spec, DriftBound

-----------------------------------------------------------------------------
(* The values of the variables of Selection. *)
Stage == [r \in Requests |-> IF pc[r] \in Working THEN "selecting" ELSE pc[r]]
Offered == [r \in Requests |-> Listed(list[r])]
Pick == [r \in Requests |-> IF pc[r] \in {"routed", "released"} THEN {held[r][1]} ELSE {}]

LEMMA InitRefines == Init => Abstraction!Init
<1> SUFFICES ASSUME Init PROVE Abstraction!Init
  OBVIOUS
<1>1. Listed(backends) \in {Listed(l) : l \in Lists}
  BY ListsAssumption DEF Init
<1>2. Offered = [r \in Requests |-> {}] /\ Pick = [r \in Requests |-> {}]
  BY ListedNothing DEF Init, Offered, Pick
<1>3. Stage = [r \in Requests |-> "idle"]
  BY DEF Init, Stage, Working
<1>4. QED
  BY <1>1, <1>2, <1>3 DEF Init, Abstraction!Init, Stage, Offered, Pick

(* The flags, the lists and the releases are those of Selection. *)
LEMMA SetHealthyRefines ==
  ASSUME TypeOK, NEW b \in Backends, NEW value \in BOOLEAN, SetHealthy(b, value)
  PROVE  Abstraction!Next
<1>1. UNCHANGED <<Stage, Offered, Pick, backends>>
  BY DEF SetHealthy, Stage, Offered, Pick, locals, strategy
<1>2. \A h : Abstraction!Seen(h, b) = Seen(h, b)
  BY DEF Abstraction!Seen, Seen, Working, TypeOK, Stages
<1>3. Abstraction!SetHealthy(b, value)
  BY <1>1, <1>2 DEF Abstraction!SetHealthy, SetHealthy, Stage, Offered, Pick
<1>4. QED
  BY <1>3 DEF Abstraction!Next

LEMMA SetBackendsRefines ==
  ASSUME NEW l \in Lists, SetBackends(l)
  PROVE  Abstraction!Next
<1>1. UNCHANGED <<Stage, Offered, Pick>>
  BY DEF SetBackends, Stage, Offered, Pick, locals
<1>2. Abstraction!SetBackends(Listed(l))
  BY <1>1 DEF Abstraction!SetBackends, SetBackends, Stage, Offered, Pick, seen
<1>3. QED
  BY <1>2 DEF Abstraction!Next

LEMMA ReleaseRefines ==
  ASSUME TypeOK, NEW r \in Requests, Release(r)
  PROVE  Abstraction!Next
<1>1. Stage[r] = "routed" /\ Stage' = [Stage EXCEPT ![r] = "released"]
  BY DEF TypeOK, Release, Unreleased, Stage, Working
<1>2. UNCHANGED <<Offered, Pick, healthy, backends, wasUp, wasDown>>
  BY DEF TypeOK, Release, Unreleased, Offered, Pick, locals, strategy, seen
<1>3. Abstraction!Release(r)
  BY <1>1, <1>2 DEF Abstraction!Release, Stage, Offered, Pick
<1>4. QED
  BY <1>3 DEF Abstraction!Next

LEMMA EnterRefines ==
  ASSUME TypeOK, NEW r \in Requests, Enter(r)
  PROVE  Abstraction!Next
<1>1. Stage[r] = "idle" /\ Stage' = [Stage EXCEPT ![r] = "selecting"]
  BY DEF TypeOK, Enter, Stage, Working
<1>2. Offered' = [Offered EXCEPT ![r] = Listed(backends)]
  BY DEF TypeOK, Enter, Offered
<1>3. UNCHANGED <<Pick, healthy, backends>>
  BY DEF TypeOK, Enter, Pick, strategy
<1>4. Abstraction!Begin(r)
  BY <1>1, <1>2, <1>3
     DEF Abstraction!Begin, Abstraction!Up, Abstraction!Down, Enter, Stage, Offered, Pick
<1>5. QED
  BY <1>4 DEF Abstraction!Next

(* A return ends the call of Selection. *)
LEMMA ReturnAbstract ==
  ASSUME TypeOK, NEW r \in Requests, NEW to \in Stages \ Working, Return(r, to)
  PROVE  Abstraction!Return(r, to)
<1>1. Stage' = [Stage EXCEPT ![r] = to]
  BY DEF TypeOK, Return, Stage
<1>2. Offered' = [Offered EXCEPT ![r] = {}]
  BY ListedNothing DEF TypeOK, Return, Offered
<1>3. QED
  BY <1>1, <1>2 DEF Abstraction!Return, Return, Stage, Offered

(* A decision for a listed backend that was up. *)
LEMMA DecisionRefines ==
  ASSUME TypeOK, NEW r \in Requests, NEW t \in Counters, Decide(r, t),
         t[1] \in Listed(list[r]) \cap wasUp[r]
  PROVE  Abstraction!Next
<1>1. "routed" \in Stages \ Working /\ pc[r] \in Working /\ Return(r, "routed")
      /\ UNCHANGED <<healthy, backends>> /\ held' = [held EXCEPT ![r] = t]
  BY DEF Stages, Working, Decide, strategy
<1>2. Abstraction!Return(r, "routed")
  BY <1>1, ReturnAbstract
<1>3. Stage[r] = "selecting" /\ Offered[r] = Listed(list[r])
  BY <1>1 DEF Stage, Offered
<1>4. Pick' = [Pick EXCEPT ![r] = {t[1]}]
  <2>1. pc' = [pc EXCEPT ![r] = "routed"]
    BY <1>1 DEF Return
  <2>2. QED
    BY <1>1, <2>1 DEF TypeOK, Pick
<1>5. Abstraction!Route(r, t[1])
  BY <1>1, <1>2, <1>3, <1>4 DEF Abstraction!Route, Stage, Offered, Pick
<1>6. t[1] \in Backends
  BY DEF Counters
<1>7. QED
  BY <1>5, <1>6 DEF Abstraction!Next

(* A refusal after each listed backend was down. *)
LEMMA RefusalRefines ==
  ASSUME TypeOK, NEW r \in Requests, pc[r] \in Working, Return(r, "refused"),
         UNCHANGED <<healthy, backends, held>>, Listed(list[r]) \subseteq wasDown[r]
  PROVE  Abstraction!Next
<1>1. "refused" \in Stages \ Working
  BY DEF Stages, Working
<1>2. Abstraction!Return(r, "refused")
  BY <1>1, ReturnAbstract
<1>3. Stage[r] = "selecting" /\ Offered[r] = Listed(list[r])
  BY DEF Stage, Offered
<1>4. Pick' = Pick
  BY DEF TypeOK, Return, Pick, Working
<1>5. Abstraction!Refuse(r)
  BY <1>2, <1>3, <1>4 DEF Abstraction!Refuse, Stage, Offered, Pick
<1>6. QED
  BY <1>5 DEF Abstraction!Next

(* What a call does between its entry and its return stutters. *)
LEMMA ScanStutters ==
  ASSUME TypeOK, UNCHANGED <<healthy, backends, list, held, seen>>,
         \A r \in Requests : pc'[r] = pc[r] \/ (pc[r] \in Working /\ pc'[r] \in Working)
  PROVE  UNCHANGED Abstraction!vars
<1>1. UNCHANGED <<Stage, Offered>>
  BY DEF Stage, Offered
<1>2. Pick' = Pick
  BY DEF Pick, Working
<1>3. QED
  BY <1>1, <1>2 DEF Abstraction!vars, Stage, Offered, Pick, seen

LEMMA AcquireRefines ==
  ASSUME Scanning, NEW r \in Requests, Acquire(r)
  PROVE  Abstraction!Next
<1>1. Coherent /\ Knows(r) /\ pc[r] \in Working /\ chosen[r] # None
  BY DEF Scanning, ScansTrue, ScanKnows, Acquire, Working
<1>2. Target(r)[1] = chosen[r]
  BY DEF Target
<1>3. chosen[r] \in Listed(list[r]) \cap wasUp[r]
  BY <1>1 DEF Coherent, CallsCoherent, Knows, Scanning, ScansTrue, MapsListed
<1>4. QED
  BY <1>1, <1>2, <1>3, AcquireDecides, DecisionRefines DEF Coherent

LEMMA RefuseRefines ==
  ASSUME Scanning, NEW r \in Requests, RefuseEmpty(r) \/ Refuse(r)
  PROVE  Abstraction!Next
<1>1. pc[r] \in Working /\ Return(r, "refused") /\ UNCHANGED <<healthy, backends, held>>
  BY DEF RefuseEmpty, Refuse, Working, strategy
<1>2. Listed(list[r]) \subseteq wasDown[r]
  <2>1. CASE RefuseEmpty(r)
    BY <2>1, ListedNothing DEF RefuseEmpty
  <2>2. CASE Refuse(r)
    <3>1. Scanned(r) = {}
      BY <2>2 DEF Refuse, Scanning, ScansTrue, ScanKnows, Knows
    <3>2. QED
      BY <2>2, <3>1, ListedNothing DEF Refuse, Scanned
  <2>3. QED
    BY <2>1, <2>2
<1>3. QED
  BY <1>1, <1>2, RefusalRefines DEF Scanning, Coherent

(* Each step of LoadStrategy is a step of Selection, or stutters. *)
LEMMA StepRefines == Scanning /\ [Next]_vars => [Abstraction!Next]_Abstraction!vars
<1> SUFFICES ASSUME Scanning, [Next]_vars
             PROVE  Abstraction!Next \/ UNCHANGED Abstraction!vars
  OBVIOUS
<1>1. TypeOK
  BY DEF Scanning, Coherent
<1>2. ASSUME NEW b \in Flaky, NEW value \in BOOLEAN, SetHealthy(b, value)
      PROVE  Abstraction!Next
  BY <1>1, <1>2, SetHealthyRefines, FlakyAssumption
<1>3. ASSUME NEW l \in Lists, SetBackends(l)
      PROVE  Abstraction!Next
  BY <1>3, SetBackendsRefines
<1>4. ASSUME NEW r \in Requests, Enter(r)
      PROVE  Abstraction!Next
  BY <1>1, <1>4, EnterRefines
<1>5. ASSUME NEW r \in Requests, TakeTicket(r) \/ Panic(r)
      PROVE  UNCHANGED Abstraction!vars
  BY <1>1, <1>5, ScanStutters DEF TypeOK, TakeTicket, Panic, Draw, Working
<1>6. ASSUME NEW r \in Requests, CheckHealth(r)
      PROVE  UNCHANGED Abstraction!vars
  BY <1>1, <1>6, ScanStutters DEF TypeOK, CheckHealth, Working, strategy
<1>7. ASSUME NEW r \in Requests, Weigh(r)
      PROVE  UNCHANGED Abstraction!vars
  BY <1>1, <1>7, ScanStutters DEF TypeOK, Weigh, Working, strategy
<1>8. ASSUME NEW r \in Requests, RefuseEmpty(r) \/ Acquire(r) \/ Refuse(r)
      PROVE  Abstraction!Next
  BY <1>8, AcquireRefines, RefuseRefines
<1>9. ASSUME NEW r \in Requests, Release(r)
      PROVE  Abstraction!Next
  BY <1>1, <1>9, ReleaseRefines
<1>10. CASE UNCHANGED vars
  BY <1>1, <1>10, ScanStutters DEF vars, strategy, locals
<1>11. QED
  BY <1>2, <1>3, <1>4, <1>5, <1>6, <1>7, <1>8, <1>9, <1>10 DEF Next, Step

(***************************************************************************)
(* For any calls, lists, costs and flags: least_pending and cost_aware     *)
(* route only to a backend that was listed and up at an instant of the     *)
(* call, and refuse only if each listed backend was down at one.           *)
(***************************************************************************)
THEOREM LoadImplementsSelection == Spec => ImplementsSelection
BY InitScanning, StepScanning, InitRefines, StepRefines, PTL
   DEF Spec, ImplementsSelection, Abstraction!Spec

-----------------------------------------------------------------------------
LEMMA InitCalm == Init => CalmScans
BY ListsAssumption, LengthAssumption DEF Init, CalmScans, Working

(* As long as nothing has happened, every call sees what there was first.  *)
LEMMA StepCalm == Coherent /\ CalmScans /\ [Next]_vars => CalmScans'
<1> SUFFICES ASSUME Coherent, CalmScans, [Next]_vars PROVE CalmScans'
  OBVIOUS
<1>1. ASSUME calm' => calm, UNCHANGED <<backends, loads, list, snap, held>>,
             calm' => \A b \in Backends : healthy'[b],
             \A r \in Requests : /\ pc'[r] \in Working => pc[r] \in Working
                                 /\ pc'[r] = "routed" => pc[r] = "routed"
      PROVE  CalmScans'
  BY <1>1 DEF CalmScans
<1>2. ASSUME NEW b \in Flaky, NEW value \in BOOLEAN, SetHealthy(b, value)
      PROVE  CalmScans'
  <2>1. calm' => calm /\ value
    BY <1>2 DEF SetHealthy
  <2>2. calm' => \A e \in Backends : healthy'[e]
    BY <1>2, <2>1 DEF SetHealthy, CalmScans, Coherent, TypeOK
  <2>3. QED
    BY <1>1, <1>2, <2>1, <2>2 DEF SetHealthy, strategy, locals
<1>3. ASSUME NEW l \in Lists, SetBackends(l)
      PROVE  CalmScans'
  BY <1>3 DEF SetBackends, CalmScans
<1>4. ASSUME NEW r \in Requests, Enter(r)
      PROVE  CalmScans'
  BY <1>4 DEF Coherent, TypeOK, CalmScans, Enter, strategy, Working
<1>5. ASSUME NEW r \in Requests, TakeTicket(r) \/ Panic(r)
      PROVE  CalmScans'
  <2>1. (calm' => calm) /\ UNCHANGED <<healthy, backends, loads, list, snap, held>>
    BY <1>5 DEF TakeTicket, Panic, Draw
  <2>2. \A q \in Requests : /\ pc'[q] \in Working => pc[q] \in Working
                            /\ pc'[q] = "routed" => pc[q] = "routed"
    BY <1>5 DEF Coherent, TypeOK, TakeTicket, Panic, Draw, Working
  <2>3. QED
    BY <1>1, <2>1, <2>2 DEF CalmScans
<1>6. ASSUME NEW r \in Requests, CheckHealth(r) \/ Weigh(r)
      PROVE  CalmScans'
  <2>1. UNCHANGED <<calm, healthy, backends, loads, list, snap, held>>
    BY <1>6 DEF CheckHealth, Weigh, strategy
  <2>2. \A q \in Requests : /\ pc'[q] \in Working => pc[q] \in Working
                            /\ pc'[q] = "routed" => pc[q] = "routed"
    BY <1>6 DEF Coherent, TypeOK, CheckHealth, Weigh, Working
  <2>3. QED
    BY <1>1, <2>1, <2>2 DEF CalmScans
<1>7. ASSUME NEW r \in Requests, RefuseEmpty(r) \/ Refuse(r)
      PROVE  CalmScans'
  <2>1. Return(r, "refused") /\ "refused" \in Stages \ Working
        /\ UNCHANGED <<calm, healthy, backends, loads, held>>
    BY <1>7, Zenon DEF RefuseEmpty, Refuse, Stages, Working, strategy
  <2>2. QED
    BY <2>1, ReturnLeaves DEF Coherent, CalmScans
<1>8. ASSUME NEW r \in Requests, Acquire(r)
      PROVE  CalmScans'
  <2>1. Return(r, "routed") /\ "routed" \in Stages \ Working
        /\ UNCHANGED <<calm, healthy, backends, loads>>
    BY <1>8 DEF Acquire, Stages, Working, strategy
  <2>2. held'[r] = Target(r) /\ \A q \in Requests \ {r} : held'[q] = held[q]
    BY <1>8 DEF Acquire, Coherent, TypeOK
  <2>3. chosen[r] \in DOMAIN snap[r] /\ pc[r] \in Working
    BY <1>8 DEF Acquire, Coherent, CallsCoherent, Working
  <2>4. calm => Target(r)[2] = 1
    BY <2>3 DEF CalmScans, Target
  <2>5. QED
    BY <2>1, <2>2, <2>4, ReturnLeaves DEF Coherent, CalmScans
<1>9. ASSUME NEW r \in Requests, Release(r)
      PROVE  CalmScans'
  BY <1>9 DEF Release, CalmScans
<1>10. CASE UNCHANGED vars
  BY <1>1, <1>10 DEF CalmScans, vars, strategy, locals
<1>11. QED
  BY <1>2, <1>3, <1>4, <1>5, <1>6, <1>7, <1>8, <1>9, <1>10 DEF Next, Step

-----------------------------------------------------------------------------
LEMMA InitBurst == Init => BurstInTurn
BY DEF Init, BurstInTurn, InTurn

(* The burst has lasted until now, and goes on. *)
Bursting == calm /\ Distinct(backends) /\ next <= Len(backends)

(* No call is in turn that was not, and those that are keep their backend. *)
LEMMA TurnsKept ==
  ASSUME BurstInTurn, Bursting, next' = next, backends' = backends,
         \A q \in InTurn' :
            /\ q \in InTurn /\ Turn(q)' = Turn(q)
            /\ pc'[q] # "routed" => IF chosen'[q] = None THEN todo'[q] # << >>
                                                        ELSE minPending'[q] = 0
  PROVE  BurstInTurn'
BY DEF BurstInTurn, Bursting

(* A call that does not move keeps its backend. *)
LEMMA TurnFrame ==
  ASSUME BurstInTurn, Bursting, NEW q \in InTurn', pc'[q] = pc[q], held'[q] = held[q],
         chosen'[q] = chosen[q], todo'[q] = todo[q], minPending'[q] = minPending[q]
  PROVE  /\ q \in InTurn /\ Turn(q)' = Turn(q)
         /\ pc'[q] # "routed" => IF chosen'[q] = None THEN todo'[q] # << >>
                                                     ELSE minPending'[q] = 0
BY DEF BurstInTurn, Bursting, InTurn, Turn

LEMMA ReturnBurst ==
  ASSUME Coherent, BurstInTurn, Bursting, NEW r \in Requests, RefuseEmpty(r) \/ Refuse(r)
  PROVE  BurstInTurn'
<1>1. /\ Return(r, "refused") /\ "refused" \in Stages \ Working
      /\ UNCHANGED <<next, backends, held>>
  BY Zenon DEF RefuseEmpty, Refuse, Stages, Working, strategy
<1>2. \A q \in InTurn' : q \in Requests \ {r}
  BY <1>1, ReturnLeaves DEF InTurn, Coherent
<1>3. QED
  BY <1>1, <1>2, ReturnLeaves, TurnFrame, TurnsKept DEF Coherent

(* A ticket of the burst fits an int, and is the index the scan starts at. *)
LEMMA DrawBurst ==
  ASSUME Coherent, CalmScans, NEW r \in Requests, NEW to \in Stages, Draw(r, to), Bursting'
  PROVE  /\ Bursting /\ next' = next + 1 /\ next \in Nat
         /\ list[r] = backends /\ backends \in Seq(Backends) /\ backends # << >>
         /\ next < Len(backends) /\ Start(r) = next
<1>1. calm /\ next' # 0 /\ backends' = backends /\ pc[r] = "ticket" /\ list[r] # << >>
  BY DEF Draw, Bursting
<1>2. next \in Tickets /\ next' = next + 1 /\ Len(list[r]) \in Nat \ {0}
  BY <1>1, DrawTyped DEF Coherent
<1>3. next \in Nat
  BY <1>2 DEF Tickets
<1>4. list[r] = backends /\ Len(backends) < Half /\ backends \in Seq(Backends)
  BY <1>1 DEF CalmScans, Coherent, TypeOK, Working
<1>5. next + 1 <= Len(backends) /\ Distinct(backends)
  BY <1>1, <1>2 DEF Bursting
<1>6. next < Len(backends) /\ next < Half /\ next <= Len(backends)
  BY <1>2, <1>3, <1>4, <1>5, HalfAssumption
<1>7. Start(r) = next % Len(backends)
  BY <1>2, <1>4, <1>6, EarlyStart DEF Start
<1>8. Start(r) = next
  BY <1>2, <1>3, <1>4, <1>6, <1>7
<1>9. QED
  BY <1>1, <1>2, <1>3, <1>4, <1>5, <1>6, <1>8 DEF Bursting

(* A ticket of the burst starts the scan at a backend nobody has.          *)
LEMMA TakeTicketBurst ==
  ASSUME Coherent, CalmScans, BurstInTurn, NEW r \in Requests, TakeTicket(r), Bursting'
  PROVE  BurstInTurn'
<1>1. /\ pc[r] = "ticket" /\ pc'[r] = "check"
      /\ chosen'[r] = None /\ todo'[r] = Rotation(list[r], Start(r))
      /\ UNCHANGED <<backends, held, chosen, minPending>>
  BY DEF TakeTicket, Draw, Coherent, CallsCoherent, TypeOK
<1>2. \A q \in Requests \ {r} : pc'[q] = pc[q] /\ todo'[q] = todo[q]
  BY DEF TakeTicket, Draw, Coherent, TypeOK
<1>3. /\ Bursting /\ next' = next + 1 /\ next \in Nat
      /\ list[r] = backends /\ backends \in Seq(Backends) /\ backends # << >>
      /\ next < Len(backends) /\ Start(r) = next
  BY DrawBurst DEF TakeTicket, Stages, Working
<1>4. Turn(r)' = backends[next + 1] /\ todo'[r] # << >>
  <2>1. next < Len(backends) /\ Len(backends) \in Nat \ {0}
    BY <1>3
  <2>2. (next + 1 - 1) % Len(backends) = next
    BY <1>3, <2>1
  <2>3. 1 \in 1..Len(backends)
    BY <2>1
  <2>4. Rotation(backends, next)[1] = backends[next + 1]
    BY <2>2, <2>3 DEF Rotation
  <2>5. Rotation(backends, next) \in Seq(Backends) /\ Rotation(backends, next) # << >>
    BY <1>3, RotationIsSeq
  <2>6. Head(Rotation(backends, next)) = backends[next + 1]
    BY <2>4, <2>5
  <2>7. QED
    BY <1>1, <1>3, <2>5, <2>6 DEF Turn
<1>5. ASSUME NEW q \in InTurn', q # r
      PROVE  /\ q \in InTurn /\ Turn(q)' = Turn(q)
             /\ pc'[q] # "routed" => IF chosen'[q] = None THEN todo'[q] # << >>
                                                         ELSE minPending'[q] = 0
  <2>1. q \in Requests
    BY DEF InTurn
  <2>2. QED
    BY <1>1, <1>2, <1>3, <1>5, <2>1, TurnFrame
<1>6. ASSUME NEW q \in InTurn', q # r
      PROVE  \E t \in 1..next : Turn(q)' = backends[t]
  BY <1>3, <1>5, <1>6 DEF BurstInTurn, Bursting
<1>7. ASSUME NEW q \in InTurn'
      PROVE  \E t \in 1..next' : Turn(q)' = backends'[t]
  BY <1>1, <1>3, <1>4, <1>6, <1>7
<1>8. ASSUME NEW q \in InTurn', q # r
      PROVE  Turn(q)' # Turn(r)'
  <2>1. PICK t \in 1..next : Turn(q)' = backends[t]
    BY <1>6, <1>8
  <2>2. t \in 1..Len(backends) /\ next + 1 \in 1..Len(backends) /\ t # next + 1
    BY <1>1, <1>3
  <2>3. QED
    BY <1>3, <1>4, <2>1, <2>2 DEF Bursting, Distinct
<1>9. ASSUME NEW p \in InTurn', NEW q \in InTurn', p # q
      PROVE  Turn(p)' # Turn(q)'
  <2>1. CASE p # r /\ q # r
    BY <1>3, <1>5, <1>9, <2>1 DEF BurstInTurn, Bursting
  <2>2. CASE p = r \/ q = r
    BY <1>8, <1>9, <2>2
  <2>3. QED
    BY <2>1, <2>2
<1>10. QED
  BY <1>1, <1>4, <1>5, <1>7, <1>9 DEF BurstInTurn

(* While all flags are up, the scan does not pass over its first backend.  *)
LEMMA CheckHealthBurst ==
  ASSUME Coherent, MapsListed, CalmScans, BurstInTurn, Bursting,
         NEW r \in Requests, CheckHealth(r)
  PROVE  BurstInTurn'
<1>1. UNCHANGED <<next, backends, held, chosen, minPending>>
  BY DEF CheckHealth, strategy
<1>2. \A q \in Requests \ {r} : pc'[q] = pc[q] /\ todo'[q] = todo[q]
  BY DEF CheckHealth, Coherent, TypeOK
<1>3. pc[r] = "check" /\ pc'[r] \in {"check", "weigh"} /\ r \in InTurn
  BY DEF CheckHealth, Coherent, TypeOK, InTurn
<1>4. ASSUME chosen[r] = None
      PROVE  todo'[r] = todo[r] /\ todo[r] # << >>
  <2>1. PICK t \in 1..next : Head(todo[r]) = backends[t]
    BY <1>3, <1>4 DEF BurstInTurn, Bursting, Turn
  <2>2. t \in 1..Len(backends)
    BY HalfAssumption DEF Bursting, Coherent, TypeOK, Tickets
  <2>3. Head(todo[r]) \in Listed(backends) /\ Head(todo[r]) \in Backends
    BY <2>1, <2>2, ListedIsBackends DEF Listed, Coherent, TypeOK
  <2>4. Eligible(r, Head(todo[r]))
    BY <1>3, <2>3 DEF Eligible, CalmScans, Bursting, MapsListed, Working
  <2>5. QED
    BY <2>4 DEF CheckHealth, Coherent, TypeOK
<1>5. Turn(r)' = Turn(r)
  BY <1>1, <1>3, <1>4 DEF Turn
<1>6. IF chosen'[r] = None THEN todo'[r] # << >> ELSE minPending'[r] = 0
  BY <1>1, <1>3, <1>4 DEF BurstInTurn, Bursting
<1>7. ASSUME NEW q \in InTurn', q # r
      PROVE  /\ q \in InTurn /\ Turn(q)' = Turn(q)
             /\ pc'[q] # "routed" => IF chosen'[q] = None THEN todo'[q] # << >>
                                                         ELSE minPending'[q] = 0
  <2>1. q \in Requests
    BY DEF InTurn
  <2>2. QED
    BY <1>1, <1>2, <1>7, <2>1, TurnFrame
<1>8. QED
  BY <1>1, <1>3, <1>5, <1>6, <1>7, TurnsKept

(* The counter of the backend that a call has for its own is still zero.   *)
LEMMA OwnCounterIsZero ==
  ASSUME Coherent, Ledger, CalmScans, BurstInTurn, Bursting,
         NEW r \in InTurn, pc[r] # "routed", <<Turn(r), 1>> \in Counters
  PROVE  count[<<Turn(r), 1>>] = 0
<1> DEFINE c == <<Turn(r), 1>>
<1>1. Holders(c) = {}
  <2> SUFFICES ASSUME NEW q \in Holders(c) PROVE FALSE
    OBVIOUS
  <2>1. q \in InTurn /\ pc[q] = "routed" /\ held[q] = c
    BY DEF Holders, InTurn
  <2>2. Turn(q) = Turn(r) /\ q # r
    BY <2>1 DEF Turn
  <2>3. QED
    BY <2>1, <2>2 DEF BurstInTurn, Bursting
<1>2. QED
  BY <1>1, UnitsNone DEF Ledger, LedgerBalance

(* A call keeps the backend it reads first: its counter is zero.           *)
LEMMA WeighBurst ==
  ASSUME Coherent, Ledger, CalmScans, BurstInTurn, Bursting, NEW r \in Requests, Weigh(r)
  PROVE  BurstInTurn'
<1> DEFINE b == Head(todo[r])
           pending == count[<<b, snap[r][b]>>]
<1>1. UNCHANGED <<next, backends, held>>
  BY DEF Weigh, strategy
<1>2. \A q \in Requests \ {r} : pc'[q] = pc[q] /\ todo'[q] = todo[q]
                                /\ chosen'[q] = chosen[q] /\ minPending'[q] = minPending[q]
  BY DEF Weigh, Coherent, TypeOK
<1>3. pc[r] = "weigh" /\ pc'[r] = "check" /\ r \in InTurn
      /\ todo[r] \in Seq(Backends) /\ todo[r] # << >> /\ b \in DOMAIN snap[r]
  BY DEF Weigh, Coherent, CallsCoherent, TypeOK, InTurn
<1>4. b \in Backends /\ snap[r][b] = 1 /\ <<b, 1>> \in Counters
  <2>1. snap[r] = loads
    BY <1>3 DEF CalmScans, Bursting, Working
  <2>2. snap[r][b] = 1
    BY <1>3, <2>1 DEF CalmScans, Bursting
  <2>3. QED
    BY <1>3, <2>2, MaxBornAssumption DEF Counters
<1>5. chosen'[r] = IF Better(r, pending) THEN b ELSE chosen[r]
  BY DEF Weigh, Coherent, TypeOK
<1>6. minPending'[r] = IF Better(r, pending) THEN pending ELSE minPending[r]
  BY DEF Weigh, Coherent, TypeOK
<1>7. Turn(r)' = Turn(r) /\ chosen'[r] # None /\ minPending'[r] = 0
  <2>1. CASE chosen[r] = None
    <3>1. Turn(r) = b
      BY <1>3, <2>1 DEF Turn
    <3>2. pending = 0
      BY <1>3, <1>4, <3>1, OwnCounterIsZero
    <3>3. Better(r, pending)
      BY <2>1 DEF Better
    <3>4. QED
      BY <1>3, <1>4, <1>5, <1>6, <3>1, <3>2, <3>3, NoneAssumption DEF Turn
  <2>2. CASE chosen[r] # None
    <3>1. minPending[r] = 0
      BY <1>3, <2>2 DEF BurstInTurn, Bursting
    <3>2. pending \in Nat
      BY <1>4, FS_CardinalityType DEF Ledger, FiniteUnits, LedgerBalance
    <3>3. ~Better(r, pending)
      BY <2>2, <3>1, <3>2 DEF Better
    <3>4. QED
      BY <1>3, <1>5, <1>6, <2>2, <3>1, <3>3 DEF Turn
  <2>3. QED
    BY <2>1, <2>2
<1>8. ASSUME NEW q \in InTurn', q # r
      PROVE  /\ q \in InTurn /\ Turn(q)' = Turn(q)
             /\ pc'[q] # "routed" => IF chosen'[q] = None THEN todo'[q] # << >>
                                                         ELSE minPending'[q] = 0
  <2>1. q \in Requests
    BY DEF InTurn
  <2>2. QED
    BY <1>1, <1>2, <1>8, <2>1, TurnFrame
<1>9. QED
  BY <1>1, <1>3, <1>7, <1>8, TurnsKept

LEMMA AcquireBurst ==
  ASSUME Coherent, BurstInTurn, Bursting, NEW r \in Requests, Acquire(r)
  PROVE  BurstInTurn'
<1>1. /\ Return(r, "routed") /\ "routed" \in Stages \ Working
      /\ UNCHANGED <<next, backends>> /\ pc[r] = "check" /\ chosen[r] # None
  BY DEF Acquire, Stages, Working, strategy
<1>2. held'[r] = Target(r) /\ \A q \in Requests \ {r} : held'[q] = held[q]
  BY DEF Acquire, Coherent, TypeOK
<1>3. pc'[r] = "routed" /\ r \in InTurn
  BY <1>1, ReturnLeaves DEF Coherent, InTurn
<1>4. Turn(r)' = Turn(r)
  BY <1>1, <1>2, <1>3 DEF Turn, Target
<1>5. ASSUME NEW q \in InTurn', q # r
      PROVE  /\ q \in InTurn /\ Turn(q)' = Turn(q)
             /\ pc'[q] # "routed" => IF chosen'[q] = None THEN todo'[q] # << >>
                                                         ELSE minPending'[q] = 0
  <2>1. q \in Requests \ {r}
    BY <1>5 DEF InTurn
  <2>2. QED
    BY <1>1, <1>2, <2>1, ReturnLeaves, TurnFrame DEF Coherent
<1>6. QED
  BY <1>1, <1>3, <1>4, <1>5, TurnsKept

LEMMA StepBurst ==
  Coherent /\ MapsListed /\ Ledger /\ CalmScans /\ BurstInTurn /\ [Next]_vars => BurstInTurn'
<1> SUFFICES ASSUME Coherent, MapsListed, Ledger, CalmScans, BurstInTurn, [Next]_vars,
                    Bursting'
             PROVE  BurstInTurn'
  BY DEF BurstInTurn, Bursting
<1>1. ASSUME calm, UNCHANGED <<next, backends, held, chosen, todo, minPending>>,
             \A q \in InTurn' : pc'[q] = pc[q]
      PROVE  BurstInTurn'
  <2>1. Bursting
    BY <1>1 DEF Bursting
  <2>2. QED
    BY <1>1, <2>1, TurnFrame, TurnsKept
<1>2. ASSUME NEW b \in Flaky, NEW value \in BOOLEAN, SetHealthy(b, value)
      PROVE  BurstInTurn'
  BY <1>1, <1>2 DEF SetHealthy, Bursting, strategy, locals
<1>3. ASSUME NEW l \in Lists, SetBackends(l)
      PROVE  BurstInTurn'
  BY <1>3 DEF SetBackends, Bursting
<1>4. ASSUME NEW r \in Requests, Enter(r)
      PROVE  BurstInTurn'
  <2>1. \A q \in InTurn' : pc'[q] = pc[q]
    BY <1>4 DEF Enter, InTurn, Coherent, TypeOK
  <2>2. calm /\ UNCHANGED <<next, backends, held, chosen, todo, minPending>>
    BY <1>4 DEF Enter, Bursting, strategy
  <2>3. QED
    BY <1>1, <2>1, <2>2
<1>5. ASSUME NEW r \in Requests, TakeTicket(r) \/ Panic(r)
      PROVE  BurstInTurn'
  <2>1. CASE TakeTicket(r)
    BY <2>1, TakeTicketBurst
  <2>2. CASE Panic(r)
    <3>1. Draw(r, "panicked") /\ Start(r) < 0 /\ "panicked" \in Stages
      BY <2>2 DEF Panic, Stages, Working
    <3>2. QED
      BY <3>1, DrawBurst
  <2>3. QED
    BY <1>5, <2>1, <2>2
<1>6. ASSUME NEW r \in Requests, RefuseEmpty(r) \/ CheckHealth(r) \/ Weigh(r) \/ Acquire(r) \/ Refuse(r)
      PROVE  BurstInTurn'
  <2>1. UNCHANGED <<calm, next, backends>>
    BY <1>6 DEF RefuseEmpty, CheckHealth, Weigh, Acquire, Refuse, strategy
  <2>2. Bursting
    BY <2>1 DEF Bursting
  <2>3. QED
    BY <1>6, <2>2, ReturnBurst, CheckHealthBurst, WeighBurst, AcquireBurst
<1>7. ASSUME NEW r \in Requests, Release(r)
      PROVE  BurstInTurn'
  BY <1>7 DEF Release, Bursting
<1>8. CASE UNCHANGED vars
  BY <1>1, <1>8 DEF vars, Bursting, strategy, locals
<1>9. QED
  BY <1>2, <1>3, <1>4, <1>5, <1>6, <1>7, <1>8 DEF Next, Step

(***************************************************************************)
(* For any number of backends and calls, with equal or different costs:    *)
(* the first n calls of a new router over n different backends are routed  *)
(* to n different ones, however their scans overlap.                       *)
(***************************************************************************)
THEOREM BurstsSpread == Spec => []BurstSpreads
<1> DEFINE IInv == LedgerInductive /\ MapsListed /\ CalmScans /\ BurstInTurn
<1>1. Init => IInv
  BY InitCoherent, InitOnlyBornKnown, InitLedger, InitMapsListed, InitCalm, InitBurst
     DEF LedgerInductive, Coherent, Ledger
<1>2. IInv /\ [Next]_vars => IInv'
  BY StepCoherent, StepOnlyBornKnown, StepLedger, StepMapsListed, StepCalm, StepBurst
     DEF LedgerInductive, Coherent, Ledger
<1>3. IInv => BurstSpreads
  BY DEF BurstSpreads, BurstInTurn, InTurn, Turn
<1>4. QED
  BY <1>1, <1>2, <1>3, PTL DEF Spec

-----------------------------------------------------------------------------
(* Only the index of a late ticket is negative.                            *)
LEMMA LatePanic ==
  ASSUME TypeOK, [Next]_vars, NEW r \in Requests, pc[r] = "ticket", pc'[r] = "panicked"
  PROVE  next >= Half
<1>1. PICK q \in Requests : Step(q) \/ Release(q)
  BY DEF Next, SetHealthy, SetBackends, vars
<1>2. CASE q # r
  <2>1. pc'[r] = pc[r]
    BY <1>1, <1>2 DEF Step, Release, Enter, RefuseEmpty, TakeTicket, Panic, Draw,
       CheckHealth, Weigh, Acquire, Refuse, Return, TypeOK
  <2>2. QED
    BY <2>1
<1>3. CASE q = r
  <2>1. Panic(r)
    BY <1>1, <1>3 DEF Step, Release, Unreleased, Enter, RefuseEmpty, TakeTicket, Draw,
       CheckHealth, Weigh, Acquire, Refuse, Return, TypeOK
  <2>2. Draw(r, "panicked") /\ "panicked" \in Stages /\ Start(r) < 0
    BY <2>1 DEF Panic, Stages, Working
  <2>3. next \in Tickets /\ Len(list[r]) \in Nat \ {0} /\ Start(r) \in Int
    BY <2>2, DrawTyped
  <2>4. ~(next < Half)
    BY <2>2, <2>3, EarlyStart DEF Start
  <2>5. QED
    BY <2>3, <2>4, HalfAssumption DEF Tickets
<1>4. QED
  BY <1>2, <1>3

(***************************************************************************)
(* For any lists and calls and whatever the width of an int: no call       *)
(* panics before half of the tickets are drawn.                            *)
(***************************************************************************)
THEOREM EarlyCallsScan == Spec => PanicsOnlyLate
<1>1. TypeOK /\ [Next]_vars =>
        [\A r \in Requests : pc[r] = "ticket" /\ pc'[r] = "panicked" => next >= Half]_vars
  BY LatePanic
<1>2. QED
  BY <1>1, TypeCorrect, PTL DEF Spec, PanicsOnlyLate
=============================================================================
