------------------------ MODULE PlainStrategyProofs ------------------------
(* Theorems about PlainStrategy, for any backends, lists and tickets. *)
EXTENDS PlainStrategy, FiniteSetTheorems, TLAPS

(* Go's remainder stays below its divisor and keeps the dividend's sign. *)
LEMMA RemRange ==
  ASSUME NEW x \in Int, NEW n \in Nat \ {0}
  PROVE  /\ Rem(x, n) \in Int /\ -n < Rem(x, n) /\ Rem(x, n) < n
         /\ x >= 0 => Rem(x, n) \in 0..(n - 1)
<1>1. CASE x >= 0
  BY <1>1 DEF Rem
<1>2. CASE x < 0
  <2>1. -x \in Nat /\ ~(x >= 0)
    BY <1>2
  <2>2. (-x) % n \in 0..(n - 1)
    BY <2>1
  <2>3. Rem(x, n) = -((-x) % n)
    BY <2>1 DEF Rem
  <2>4. QED
    BY <1>2, <2>2, <2>3
<1>3. QED
  BY <1>1, <1>2

(* The remainder below twice the divisor. *)
LEMMA RemWraps ==
  ASSUME NEW n \in Nat \ {0}, NEW x \in 0..(2 * n - 1)
  PROVE  Rem(x, n) = IF x < n THEN x ELSE x - n
BY DEF Rem

LEMMA RemOfSmall ==
  ASSUME NEW n \in Nat \ {0}, NEW x \in Int, -n < x, x < 0
  PROVE  Rem(x, n) = x
<1>1. -x \in 0..(n - 1) /\ ~(x >= 0)
  OBVIOUS
<1>2. (-x) % n = -x
  BY <1>1
<1>3. QED
  BY <1>1, <1>2 DEF Rem

LEMMA SignedRange == \A t \in Tickets : Signed(t) \in Int /\ (t < Half => Signed(t) >= 0)
BY HalfAssumption DEF Signed, Tickets

(* A scan that starts in range comes by every place of the list. *)
LEMMA ScanComesByAll ==
  ASSUME NEW n \in Nat \ {0}, NEW s \in 0..(n - 1), NEW k \in 0..(n - 1)
  PROVE  \E j \in 0..(n - 1) : Rem(s + j, n) = k
<1>1. CASE s <= k
  <2>1. k - s \in 0..(n - 1) /\ s + (k - s) = k
    BY <1>1
  <2>2. Rem(s + (k - s), n) = k
    BY <2>1, RemWraps
  <2>3. QED
    BY <2>1, <2>2
<1>2. CASE s > k
  <2>1. k - s + n \in 0..(n - 1) /\ s + (k - s + n) = k + n /\ k + n \in 0..(2 * n - 1)
    BY <1>2
  <2>2. Rem(s + (k - s + n), n) = k
    BY <2>1, RemWraps
  <2>3. QED
    BY <2>1, <2>2
<1>3. QED
  BY <1>1, <1>2

LEMMA ListedIsBackends ==
  ASSUME NEW l \in Seq(Backends)
  PROVE  Listed(l) \subseteq Backends
BY DEF Listed

-----------------------------------------------------------------------------
LEMMA InitTyped == Init => TypeOK
BY ListsAssumption, HalfAssumption, TicketsAssumption
   DEF Init, TypeOK, Stages, Working, Tickets

(* A backend whose index is in range is one of the call's list. *)
LEMMA CurrentIsListed ==
  ASSUME TypeOK, NEW r \in Requests, Scanning(r), Index(r) >= 0
  PROVE  /\ Index(r) \in 0..(Len(list[r]) - 1)
         /\ Current(r) \in Listed(list[r]) /\ Current(r) \in Backends
<1> DEFINE n == Len(list[r])
<1>1. list[r] \in Seq(Backends) /\ n \in Nat \ {0} /\ start[r] + i[r] \in Int
  BY DEF TypeOK, Scanning
<1>2. Index(r) \in Int /\ Index(r) < n
  BY <1>1, RemRange DEF Index
<1>3. Index(r) + 1 \in 1..n
  BY <1>1, <1>2
<1>4. QED
  BY <1>1, <1>2, <1>3, ListedIsBackends DEF Current, Listed

LEMMA ReturnTyped ==
  ASSUME TypeOK, NEW r \in Requests, NEW p \in SUBSET Backends, Return(r, p)
  PROVE  TypeOK'
BY DEF TypeOK, Return, Stages, Working

LEMMA StepTyped == TypeOK /\ [Next]_vars => TypeOK'
<1> SUFFICES ASSUME TypeOK, [Next]_vars PROVE TypeOK'
  OBVIOUS
<1> USE DEF Stages, Working
<1>1. ASSUME NEW b \in Flaky, NEW value \in BOOLEAN, SetHealthy(b, value)
      PROVE  TypeOK'
  BY <1>1, FlakyAssumption DEF TypeOK, SetHealthy, Seen, locals
<1>2. ASSUME NEW l \in Lists, SetBackends(l)
      PROVE  TypeOK'
  BY <1>2, ListsAssumption DEF TypeOK, SetBackends, locals, seen
<1>3. ASSUME NEW r \in Requests, Enter(r)
      PROVE  TypeOK'
  BY <1>3 DEF TypeOK, Enter
<1>4. ASSUME NEW r \in Requests, RefuseEmpty(r)
      PROVE  TypeOK'
  BY <1>4, ReturnTyped DEF RefuseEmpty
<1>5. ASSUME NEW r \in Requests, TakeTicket(r)
      PROVE  TypeOK'
  <2>1. next' \in Tickets /\ next \in Tickets
    BY <1>5, HalfAssumption DEF TypeOK, TakeTicket, TicketAfter, Tickets
  <2>2. Len(list[r]) \in Nat \ {0}
    BY <1>5 DEF TypeOK, TakeTicket
  <2>3. StartOf(next, Len(list[r])) \in Int
    BY <2>1, <2>2, SignedRange, RemRange DEF StartOf
  <2>4. QED
    BY <1>5, <2>1, <2>2, <2>3 DEF TypeOK, TakeTicket, seen
<1>6. ASSUME NEW r \in Requests, StartScan(r)
      PROVE  TypeOK'
  BY <1>6 DEF TypeOK, StartScan, locals, seen
<1>7. ASSUME NEW r \in Requests, Panic(r)
      PROVE  TypeOK'
  BY <1>7 DEF TypeOK, Panic, locals, seen
<1>8. ASSUME NEW r \in Requests, Accept(r)
      PROVE  TypeOK'
  BY <1>8, CurrentIsListed, ReturnTyped DEF Accept
<1>9. ASSUME NEW r \in Requests, PassBy(r)
      PROVE  TypeOK'
  <2>1. Current(r) \in Backends
    BY <1>9, CurrentIsListed DEF PassBy
  <2>2. QED
    BY <1>9, <2>1 DEF TypeOK, PassBy, Scanning, seen
<1>10. ASSUME NEW r \in Requests, Finish(r)
       PROVE  TypeOK'
  <2>1. found[r] \subseteq Backends
    BY DEF TypeOK
  <2>2. QED
    BY <1>10, <2>1, ReturnTyped DEF Finish
<1>11. CASE UNCHANGED vars
  BY <1>11 DEF TypeOK, vars, locals, seen
<1>12. QED
  BY <1>1, <1>2, <1>3, <1>4, <1>5, <1>6, <1>7, <1>8, <1>9, <1>10, <1>11
     DEF Next, Step

(***************************************************************************)
(* Tickets stay tickets, and a scan never gets past the end of its list.   *)
(***************************************************************************)
THEOREM PlainTypeCorrect == Spec => []TypeOK
BY InitTyped, StepTyped, PTL DEF Spec

-----------------------------------------------------------------------------
LEMMA InitFlagsSeen == Init => FlagsSeen
BY DEF Init, FlagsSeen, Working

LEMMA StepFlagsSeen == TypeOK /\ FlagsSeen /\ [Next]_vars => FlagsSeen'
<1> SUFFICES ASSUME TypeOK, FlagsSeen, [Next]_vars PROVE FlagsSeen'
  OBVIOUS
<1> USE DEF Working
<1>1. ASSUME NEW b \in Flaky, NEW value \in BOOLEAN, SetHealthy(b, value)
      PROVE  FlagsSeen'
  BY <1>1, FlakyAssumption DEF TypeOK, FlagsSeen, SetHealthy, Seen
<1>2. ASSUME NEW r \in Requests, Enter(r)
      PROVE  FlagsSeen'
  BY <1>2 DEF TypeOK, FlagsSeen, Enter
<1>3. ASSUME NEW r \in Requests, NEW p, Return(r, p)
      PROVE  FlagsSeen'
  <2>1. pc'[r] \in {"refused", "routed"} /\ healthy' = healthy
        /\ \A q \in Requests \ {r} : pc'[q] = pc[q] /\ wasUp'[q] = wasUp[q] /\ wasDown'[q] = wasDown[q]
    BY <1>3 DEF TypeOK, Return
  <2>2. QED
    BY <2>1 DEF FlagsSeen
<1>4. ASSUME UNCHANGED <<healthy, seen>>,
             \A r \in Requests : pc'[r] \in Working => pc[r] \in Working
      PROVE  FlagsSeen'
  BY <1>4 DEF FlagsSeen, seen
<1>5. ASSUME NEW l \in Lists, SetBackends(l)
      PROVE  FlagsSeen'
  BY <1>5, <1>4 DEF SetBackends
<1>6. ASSUME NEW r \in Requests, TakeTicket(r) \/ StartScan(r) \/ Panic(r) \/ PassBy(r)
      PROVE  FlagsSeen'
  BY <1>6, <1>4 DEF TypeOK, TakeTicket, StartScan, Panic, PassBy, Scanning
<1>7. CASE UNCHANGED vars
  BY <1>7, <1>4 DEF vars
<1>8. ASSUME NEW r \in Requests, RefuseEmpty(r) \/ Accept(r) \/ Finish(r)
      PROVE  FlagsSeen'
  BY <1>8, <1>3 DEF RefuseEmpty, Accept, Finish
<1>9. QED
  BY <1>1, <1>2, <1>5, <1>6, <1>7, <1>8 DEF Next, Step

-----------------------------------------------------------------------------
LEMMA InitScanKnows == Init => ScanKnows
BY DEF Init, ScanKnows, Knows

(* A call that does not move keeps what it knows. *)
LEMMA KnowsFrame ==
  ASSUME NEW q \in Requests, Knows(q), kind' = kind, pc'[q] = pc[q],
         list'[q] = list[q], start'[q] = start[q], i'[q] = i[q],
         found'[q] = found[q], ticket'[q] = ticket[q],
         wasUp[q] \subseteq wasUp'[q], wasDown[q] \subseteq wasDown'[q]
  PROVE  Knows(q)'
<1>1. LookedAt(q)' = LookedAt(q)
  BY DEF LookedAt
<1>2. QED
  BY <1>1 DEF Knows

LEMMA TakeTicketKnows ==
  ASSUME TypeOK, NEW r \in Requests, Knows(r), TakeTicket(r)
  PROVE  Knows(r)'
<1>1. i'[r] = 0 /\ found'[r] = {} /\ pc'[r] = "scan" /\ kind' = "round_robin"
  BY DEF TypeOK, TakeTicket, Knows
<1>2. start'[r] = StartOf(ticket'[r], Len(list'[r]))
  BY DEF TypeOK, TakeTicket
<1>3. LookedAt(r)' = {}
  BY <1>1 DEF LookedAt
<1>4. QED
  BY <1>1, <1>2, <1>3 DEF Knows

LEMMA StartScanKnows ==
  ASSUME TypeOK, NEW r \in Requests, Knows(r), StartScan(r)
  PROVE  Knows(r)'
<1>1. i'[r] = 0 /\ found'[r] = {} /\ start'[r] = 0 /\ pc'[r] = "scan" /\ kind' = "random"
  BY DEF TypeOK, StartScan, Knows, locals
<1>2. LookedAt(r)' = {}
  BY <1>1 DEF LookedAt
<1>3. QED
  BY <1>1, <1>2 DEF Knows

(* The scan gets past a backend: it was down, or random has found it.      *)
LEMMA PassByKnows ==
  ASSUME TypeOK, FlagsSeen, NEW r \in Requests, Knows(r), PassBy(r)
  PROVE  Knows(r)'
<1> DEFINE n == Len(list[r])
<1>1. /\ pc[r] = "scan" /\ pc' = pc /\ kind' = kind /\ list' = list /\ start' = start
      /\ ticket' = ticket /\ wasUp' = wasUp /\ wasDown' = wasDown /\ i'[r] = i[r] + 1
      /\ found'[r] = IF healthy[Current(r)] THEN found[r] \cup {Current(r)} ELSE found[r]
  BY DEF TypeOK, PassBy, Scanning, seen
<1>2. Current(r) \in Listed(list[r]) /\ Current(r) \in Backends
  BY CurrentIsListed DEF PassBy
<1>3. n \in Nat \ {0} /\ start[r] \in Int /\ i[r] \in Nat
  BY DEF TypeOK, PassBy, Scanning
<1>4. start[r] >= 0
  <2>1. CASE i[r] > 0
    BY <1>1, <2>1 DEF Knows
  <2>2. CASE i[r] = 0
    <3>1. Rem(start[r], n) >= 0
      BY <1>3, <2>2 DEF PassBy, Index
    <3>2. -n < start[r]
      <4>1. CASE kind = "random"
        BY <1>1, <1>3, <4>1 DEF Knows
      <4>2. CASE kind # "random"
        <5>1. ticket[r] \in Tickets
          BY DEF TypeOK
        <5>2. start[r] = Rem(Signed(ticket[r]), n)
          BY <1>1, <4>2 DEF Knows, StartOf
        <5>3. QED
          BY <1>3, <5>1, <5>2, SignedRange, RemRange
      <4>3. QED
        BY <4>1, <4>2
    <3>3. QED
      BY <1>3, <3>1, <3>2, RemOfSmall
  <2>3. QED
    BY <1>3, <2>1, <2>2
<1>5. LookedAt(r)' = LookedAt(r) \cup {Current(r)}
  <2>1. 0..(i'[r] - 1) = 0..(i[r] - 1) \cup {i[r]}
    BY <1>1, <1>3
  <2>2. QED
    BY <1>1, <2>1 DEF LookedAt, Current, Index
<1>6. IF healthy[Current(r)] THEN Current(r) \in wasUp[r] ELSE Current(r) \in wasDown[r]
  BY <1>1, <1>2 DEF FlagsSeen, Working
<1>7. kind = "round_robin" => ~healthy[Current(r)]
  BY DEF PassBy
<1>8. QED
  BY <1>1, <1>2, <1>4, <1>5, <1>6, <1>7 DEF Knows

LEMMA StepScanKnows == TypeOK /\ FlagsSeen /\ ScanKnows /\ [Next]_vars => ScanKnows'
<1> SUFFICES ASSUME TypeOK, FlagsSeen, ScanKnows, [Next]_vars, NEW q \in Requests
             PROVE  Knows(q)'
  BY DEF ScanKnows
<1>0. Knows(q)
  BY DEF ScanKnows
<1>1. ASSUME NEW b \in Flaky, NEW value \in BOOLEAN, SetHealthy(b, value)
      PROVE  Knows(q)'
  BY <1>0, <1>1, KnowsFrame DEF SetHealthy, Seen, locals
<1>2. ASSUME NEW l \in Lists, SetBackends(l)
      PROVE  Knows(q)'
  BY <1>0, <1>2, KnowsFrame DEF SetBackends, locals, seen
<1>3. ASSUME NEW r \in Requests, Enter(r)
      PROVE  Knows(q)'
  BY <1>0, <1>3, KnowsFrame DEF TypeOK, Enter, Knows
<1>4. ASSUME NEW r \in Requests, NEW p, Return(r, p)
      PROVE  Knows(q)'
  <2>1. CASE q = r
    BY <1>4, <2>1 DEF TypeOK, Return, Knows
  <2>2. CASE q # r
    BY <1>0, <1>4, <2>2, KnowsFrame DEF TypeOK, Return
  <2>3. QED
    BY <2>1, <2>2
<1>5. ASSUME NEW r \in Requests, TakeTicket(r) \/ StartScan(r) \/ PassBy(r)
      PROVE  Knows(q)'
  <2>1. CASE q = r
    BY <1>0, <1>5, <2>1, TakeTicketKnows, StartScanKnows, PassByKnows
  <2>2. CASE q # r
    BY <1>0, <1>5, <2>2, KnowsFrame DEF TypeOK, TakeTicket, StartScan, PassBy, locals, seen
  <2>3. QED
    BY <2>1, <2>2
<1>6. ASSUME NEW r \in Requests, Panic(r)
      PROVE  Knows(q)'
  <2>1. CASE q = r
    BY <1>6, <2>1 DEF TypeOK, Panic, Knows
  <2>2. CASE q # r
    BY <1>0, <1>6, <2>2, KnowsFrame DEF TypeOK, Panic, locals, seen
  <2>3. QED
    BY <2>1, <2>2
<1>7. ASSUME NEW r \in Requests, RefuseEmpty(r) \/ Accept(r) \/ Finish(r)
      PROVE  Knows(q)'
  BY <1>4, <1>7 DEF RefuseEmpty, Accept, Finish
<1>8. CASE UNCHANGED vars
  BY <1>0, <1>8, KnowsFrame DEF vars, locals, seen
<1>9. QED
  BY <1>1, <1>2, <1>3, <1>5, <1>6, <1>7, <1>8 DEF Next, Step

-----------------------------------------------------------------------------
(* An index out of range comes from a ticket that does not fit an int.     *)
LEMMA NegativeIsLate ==
  ASSUME TypeOK, NEW r \in Requests, Knows(r), Panic(r)
  PROVE  ticket[r] >= Half
<1> DEFINE n == Len(list[r])
<1>1. n \in Nat \ {0} /\ start[r] \in Int /\ i[r] \in Nat /\ pc[r] = "scan"
      /\ ticket[r] \in Tickets /\ Half \in Nat
  BY HalfAssumption DEF TypeOK, Panic, Scanning
<1>2. start[r] < 0
  <2>1. Rem(start[r] + i[r], n) < 0
    BY DEF Panic, Index
  <2>2. start[r] >= 0 => start[r] + i[r] \in Int /\ start[r] + i[r] >= 0
    BY <1>1
  <2>3. start[r] >= 0 => Rem(start[r] + i[r], n) \in 0..(n - 1)
    BY <1>1, <2>2, RemRange
  <2>4. QED
    BY <1>1, <2>1, <2>3
<1>3. start[r] = Rem(Signed(ticket[r]), n)
  BY <1>1, <1>2 DEF Knows, StartOf
<1>4. Signed(ticket[r]) \in Int /\ (ticket[r] < Half => Signed(ticket[r]) >= 0)
  BY <1>1, SignedRange
<1>5. Signed(ticket[r]) >= 0 => start[r] \in 0..(n - 1)
  BY <1>1, <1>3, <1>4, RemRange
<1>6. ticket[r] \in Int
  BY <1>1, HalfAssumption DEF Tickets
<1>7. QED
  BY <1>1, <1>2, <1>4, <1>5, <1>6

(* Nothing but an index out of range makes a call panic, and that is final. *)
LEMMA OnlyPanics ==
  ASSUME TypeOK, [Next]_vars, NEW q \in Requests, pc'[q] = "panicked"
  PROVE  Panic(q) \/ (pc[q] = "panicked" /\ ticket'[q] = ticket[q])
<1>1. ASSUME NEW b \in Flaky, NEW value \in BOOLEAN, SetHealthy(b, value)
      PROVE  pc[q] = "panicked" /\ ticket'[q] = ticket[q]
  BY <1>1 DEF SetHealthy
<1>2. ASSUME NEW l \in Lists, SetBackends(l)
      PROVE  pc[q] = "panicked" /\ ticket'[q] = ticket[q]
  BY <1>2 DEF SetBackends
<1>3. ASSUME NEW r \in Requests, Enter(r) \/ TakeTicket(r) \/ StartScan(r) \/ PassBy(r)
      PROVE  pc[q] = "panicked" /\ ticket'[q] = ticket[q]
  <2>1. CASE Enter(r)
    BY <2>1 DEF TypeOK, Enter
  <2>2. CASE TakeTicket(r)
    BY <2>2 DEF TypeOK, TakeTicket
  <2>3. CASE StartScan(r)
    BY <2>3 DEF TypeOK, StartScan
  <2>4. CASE PassBy(r)
    BY <2>4 DEF TypeOK, PassBy
  <2>5. QED
    BY <1>3, <2>1, <2>2, <2>3, <2>4
<1>4. ASSUME NEW r \in Requests, NEW p, Return(r, p)
      PROVE  pc[q] = "panicked" /\ ticket'[q] = ticket[q]
  <2>1. pc'[q] = IF q = r THEN IF p = {} THEN "refused" ELSE "routed" ELSE pc[q]
    BY <1>4 DEF TypeOK, Return
  <2>2. QED
    BY <1>4, <2>1 DEF Return
<1>5. ASSUME NEW r \in Requests, RefuseEmpty(r) \/ Accept(r) \/ Finish(r)
      PROVE  pc[q] = "panicked" /\ ticket'[q] = ticket[q]
  BY <1>4, <1>5 DEF RefuseEmpty, Accept, Finish
<1>6. ASSUME NEW r \in Requests, Panic(r)
      PROVE  Panic(q) \/ (pc[q] = "panicked" /\ ticket'[q] = ticket[q])
  <2>1. q # r => pc[q] = "panicked" /\ ticket'[q] = ticket[q]
    BY <1>6 DEF TypeOK, Panic
  <2>2. QED
    BY <1>6, <2>1
<1>7. CASE UNCHANGED vars
  BY <1>7 DEF vars
<1>8. QED
  BY <1>1, <1>2, <1>3, <1>5, <1>6, <1>7 DEF Next, Step

LEMMA StepPanicsOnlyLate ==
  TypeOK /\ ScanKnows /\ PanicsOnlyLate /\ [Next]_vars => PanicsOnlyLate'
<1> SUFFICES ASSUME TypeOK, ScanKnows, PanicsOnlyLate, [Next]_vars,
                    NEW q \in Requests, pc'[q] = "panicked"
             PROVE  ticket'[q] >= Half
  BY DEF PanicsOnlyLate
<1>1. CASE pc[q] = "panicked" /\ ticket'[q] = ticket[q]
  BY <1>1 DEF PanicsOnlyLate
<1>2. CASE Panic(q)
  <2>1. ticket'[q] = ticket[q]
    BY <1>2 DEF Panic
  <2>2. QED
    BY <1>2, <2>1, NegativeIsLate DEF ScanKnows
<1>3. QED
  BY <1>1, <1>2, OnlyPanics

(***************************************************************************)
(* Select never indexes its list out of range before half of the tickets   *)
(* are used up, for any list and any number of tickets (2^64 in the code): *)
(* 2^63 calls, or 2^31 on a platform whose int has 32 bits.                *)
(***************************************************************************)
THEOREM PanicsAreLate == Spec => []PanicsOnlyLate
<1>1. Init => TypeOK /\ FlagsSeen /\ ScanKnows /\ PanicsOnlyLate
  BY InitTyped, InitFlagsSeen, InitScanKnows DEF Init, PanicsOnlyLate
<1>2. TypeOK /\ FlagsSeen /\ ScanKnows /\ PanicsOnlyLate /\ [Next]_vars
        => TypeOK' /\ FlagsSeen' /\ ScanKnows' /\ PanicsOnlyLate'
  BY StepTyped, StepFlagsSeen, StepScanKnows, StepPanicsOnlyLate
<1>3. QED
  BY <1>1, <1>2, PTL DEF Spec

-----------------------------------------------------------------------------
LEMMA InitNothingPicked == Init => NothingPicked
BY DEF Init, NothingPicked

LEMMA StepNothingPicked == TypeOK /\ NothingPicked /\ [Next]_vars => NothingPicked'
<1> SUFFICES ASSUME TypeOK, NothingPicked, [Next]_vars PROVE NothingPicked'
  OBVIOUS
<1> USE DEF Working
<1>1. ASSUME pick' = pick,
             \A r \in Requests : pc'[r] \in Working \cup {"idle"} => pc[r] \in Working \cup {"idle"}
      PROVE  NothingPicked'
  BY <1>1 DEF NothingPicked
<1>2. ASSUME NEW b \in Flaky, NEW value \in BOOLEAN, SetHealthy(b, value)
      PROVE  NothingPicked'
  BY <1>1, <1>2 DEF SetHealthy
<1>3. ASSUME NEW l \in Lists, SetBackends(l)
      PROVE  NothingPicked'
  BY <1>1, <1>3 DEF SetBackends
<1>4. ASSUME NEW r \in Requests, Enter(r)
      PROVE  NothingPicked'
  BY <1>1, <1>4 DEF TypeOK, Enter
<1>5. ASSUME NEW r \in Requests, TakeTicket(r)
      PROVE  NothingPicked'
  BY <1>1, <1>5 DEF TypeOK, TakeTicket
<1>6. ASSUME NEW r \in Requests, StartScan(r)
      PROVE  NothingPicked'
  BY <1>1, <1>6 DEF TypeOK, StartScan
<1>7. ASSUME NEW r \in Requests, Panic(r)
      PROVE  NothingPicked'
  BY <1>1, <1>7 DEF TypeOK, Panic, Scanning
<1>8. ASSUME NEW r \in Requests, PassBy(r)
      PROVE  NothingPicked'
  BY <1>1, <1>8 DEF PassBy
<1>9. ASSUME NEW r \in Requests, NEW p, Return(r, p)
      PROVE  NothingPicked'
  <2>1. pc'[r] \in {"refused", "routed"}
        /\ \A q \in Requests \ {r} : pc'[q] = pc[q] /\ pick'[q] = pick[q]
    BY <1>9 DEF TypeOK, Return
  <2>2. QED
    BY <2>1 DEF NothingPicked
<1>10. ASSUME NEW r \in Requests, RefuseEmpty(r) \/ Accept(r) \/ Finish(r)
       PROVE  NothingPicked'
  BY <1>9, <1>10 DEF RefuseEmpty, Accept, Finish
<1>11. CASE UNCHANGED vars
  BY <1>1, <1>11 DEF vars
<1>12. QED
  BY <1>2, <1>3, <1>4, <1>5, <1>6, <1>7, <1>8, <1>10, <1>11 DEF Next, Step

LEMMA InitRefines == Init => Abstraction!Init
<1> SUFFICES ASSUME Init PROVE Abstraction!Init
  OBVIOUS
<1>1. Listed(<< >>) = {}
  BY DEF Listed
<1>2. QED
  BY <1>1, ListsAssumption DEF Init, Abstraction!Init, Working

(* The values of the mapped variables. *)
Stage == [r \in Requests |-> IF pc[r] \in Working THEN "selecting" ELSE pc[r]]
Offered == [r \in Requests |-> Listed(list[r])]

(* A full scan that found nothing saw every listed backend down.           *)
LEMMA NothingFound ==
  ASSUME TypeOK, NEW r \in Requests, Knows(r), pc[r] = "scan",
         i[r] = Len(list[r]), found[r] = {}
  PROVE  Listed(list[r]) \subseteq wasDown[r]
<1> DEFINE n == Len(list[r])
<1>1. n \in Nat \ {0} /\ start[r] \in Int /\ start[r] >= 0
  BY DEF TypeOK, Knows
<1>2. start[r] \in 0..(n - 1)
  <2>1. CASE kind = "random"
    BY <1>1, <2>1 DEF Knows
  <2>2. CASE kind # "random"
    <3>1. start[r] = Rem(Signed(ticket[r]), n) /\ ticket[r] \in Tickets
      BY <2>2 DEF TypeOK, Knows, StartOf
    <3>2. start[r] < n
      BY <1>1, <3>1, SignedRange, RemRange
    <3>3. QED
      BY <1>1, <3>2
  <2>3. QED
    BY <2>1, <2>2
<1>3. ASSUME NEW p \in 1..n
      PROVE  list[r][p] \in wasDown[r]
  <2>1. p - 1 \in 0..(n - 1)
    BY <1>1
  <2>2. PICK j \in 0..(n - 1) : Rem(start[r] + j, n) = p - 1
    BY <1>1, <1>2, <2>1, ScanComesByAll
  <2>3. list[r][Rem(start[r] + j, n) + 1] \in LookedAt(r)
    BY <2>2 DEF LookedAt
  <2>4. Rem(start[r] + j, n) + 1 = p
    BY <1>1, <2>1, <2>2
  <2>5. QED
    BY <2>3, <2>4 DEF Knows
<1>4. QED
  BY <1>3 DEF Listed

(* A return with a backend that was listed and seen up, or with none after *)
(* every listed backend was seen down, is one of Selection.                *)
LEMMA ReturnRefines ==
  ASSUME TypeOK, NEW r \in Requests, NEW p \in SUBSET Backends, pc[r] \in Working,
         Return(r, p), pick[r] = {},
         \/ \E b \in Listed(list[r]) \cap wasUp[r] : p = {b}
         \/ p = {} /\ Listed(list[r]) \subseteq wasDown[r]
  PROVE  Abstraction!Next
<1>1. Listed(<< >>) = {}
  BY DEF Listed
<1> DEFINE to == IF p = {} THEN "refused" ELSE "routed"
<1>2. Abstraction!Return(r, to)
  <2>1. Stage' = [Stage EXCEPT ![r] = to]
    BY DEF TypeOK, Return, Stage, Working
  <2>2. Offered' = [Offered EXCEPT ![r] = {}]
    BY <1>1 DEF TypeOK, Return, Offered
  <2>3. QED
    BY <2>1, <2>2 DEF Abstraction!Return, Return, Stage, Offered
<1>3. Stage[r] = "selecting" /\ Offered[r] = Listed(list[r])
  BY DEF Stage, Offered
<1>4. UNCHANGED <<healthy, Listed(backends)>>
  BY DEF Return
<1>5. CASE p = {}
  <2>1. Listed(list[r]) \subseteq wasDown[r]
    BY <1>5
  <2>2. pick' = pick
    BY <1>5 DEF TypeOK, Return
  <2>3. Abstraction!Refuse(r)
    BY <1>2, <1>3, <1>4, <1>5, <2>1, <2>2 DEF Abstraction!Refuse, Stage, Offered
  <2>4. QED
    BY <2>3 DEF Abstraction!Next
<1>6. ASSUME NEW b \in Listed(list[r]) \cap wasUp[r], p = {b}
      PROVE  Abstraction!Next
  <2>1. b \in Backends
    BY ListedIsBackends DEF TypeOK
  <2>2. pick' = [pick EXCEPT ![r] = {b}]
    BY <1>6 DEF Return
  <2>3. Abstraction!Route(r, b)
    BY <1>2, <1>3, <1>4, <1>6, <2>2 DEF Abstraction!Route, Stage, Offered
  <2>4. QED
    BY <2>1, <2>3 DEF Abstraction!Next
<1>7. QED
  BY <1>5, <1>6

(* A step that leaves the mapped variables as they are stutters. *)
LEMMA Stutters ==
  ASSUME TypeOK, UNCHANGED <<healthy, backends, list, pick, seen>>,
         \A r \in Requests : pc'[r] = pc[r] \/ (pc[r] \in Working /\ pc'[r] \in Working)
  PROVE  UNCHANGED Abstraction!vars
<1>1. Stage' = Stage /\ Offered' = Offered
  BY DEF Stage, Offered
<1>2. QED
  BY <1>1 DEF Abstraction!vars, Stage, Offered, seen

(* Each step of PlainStrategy is a step of Selection, or stutters.         *)
LEMMA StepRefines ==
  TypeOK /\ FlagsSeen /\ ScanKnows /\ NothingPicked /\ [Next]_vars
    => [Abstraction!Next]_Abstraction!vars
<1> SUFFICES ASSUME TypeOK, FlagsSeen, ScanKnows, NothingPicked, [Next]_vars
             PROVE  Abstraction!Next \/ UNCHANGED Abstraction!vars
  OBVIOUS
<1>1. ASSUME NEW b \in Flaky, NEW value \in BOOLEAN, SetHealthy(b, value)
      PROVE  Abstraction!Next
  <2>1. Stage' = Stage /\ Offered' = Offered /\ Listed(backends)' = Listed(backends)
    BY <1>1 DEF SetHealthy, Stage, Offered, locals
  <2>2. \A h : Abstraction!Seen(h, b) = Seen(h, b)
    BY DEF Abstraction!Seen, Seen, Working, TypeOK, Stages
  <2>3. Abstraction!SetHealthy(b, value)
    BY <1>1, <2>1, <2>2 DEF Abstraction!SetHealthy, SetHealthy, Stage, Offered
  <2>4. QED
    BY <2>3, FlakyAssumption DEF Abstraction!Next
<1>2. ASSUME NEW l \in Lists, SetBackends(l)
      PROVE  Abstraction!Next
  <2>1. Stage' = Stage /\ Offered' = Offered
    BY <1>2 DEF SetBackends, Stage, Offered, locals
  <2>2. Abstraction!SetBackends(Listed(l))
    BY <1>2, <2>1 DEF Abstraction!SetBackends, SetBackends, Stage, Offered, seen
  <2>3. QED
    BY <2>2 DEF Abstraction!Next
<1>3. ASSUME NEW r \in Requests, Enter(r)
      PROVE  Abstraction!Next
  <2>1. Stage[r] = "idle" /\ Stage' = [Stage EXCEPT ![r] = "selecting"]
    BY <1>3 DEF TypeOK, Enter, Stage, Working
  <2>2. Offered' = [Offered EXCEPT ![r] = Listed(backends)]
    BY <1>3 DEF TypeOK, Enter, Offered
  <2>3. UNCHANGED <<healthy, Listed(backends), pick>>
    BY <1>3 DEF Enter
  <2>4. Abstraction!Begin(r)
    BY <1>3, <2>1, <2>2, <2>3
       DEF Abstraction!Begin, Abstraction!Up, Abstraction!Down, Enter, Stage, Offered
  <2>5. QED
    BY <2>4 DEF Abstraction!Next
<1>4. ASSUME NEW r \in Requests, RefuseEmpty(r)
      PROVE  Abstraction!Next
  <2>1. pc[r] \in Working /\ pick[r] = {} /\ Return(r, {})
    BY <1>4 DEF RefuseEmpty, NothingPicked, Working
  <2>2. Listed(list[r]) = {}
    BY <1>4 DEF RefuseEmpty, Listed
  <2>3. QED
    BY <2>1, <2>2, ReturnRefines
<1>5. ASSUME NEW r \in Requests, Accept(r)
      PROVE  Abstraction!Next
  <2>1. pc[r] \in Working /\ pick[r] = {} /\ Return(r, {Current(r)})
    BY <1>5 DEF Accept, Scanning, NothingPicked, Working
  <2>2. Current(r) \in Listed(list[r]) /\ Current(r) \in Backends
    BY <1>5, CurrentIsListed DEF Accept
  <2>3. Current(r) \in wasUp[r]
    BY <1>5, <2>1, <2>2 DEF Accept, FlagsSeen
  <2>4. {Current(r)} \in SUBSET Backends
    BY <2>2
  <2>5. QED
    BY <2>1, <2>2, <2>3, <2>4, ReturnRefines
<1>6. ASSUME NEW r \in Requests, Finish(r)
      PROVE  Abstraction!Next
  <2>1. pc[r] = "scan" /\ i[r] = Len(list[r]) /\ pc[r] \in Working /\ pick[r] = {} /\ Knows(r)
    BY <1>6 DEF Finish, NothingPicked, Working, ScanKnows
  <2>2. CASE found[r] = {} /\ Return(r, {})
    <3>1. Listed(list[r]) \subseteq wasDown[r]
      BY <2>1, <2>2, NothingFound
    <3>2. QED
      BY <2>1, <2>2, <3>1, ReturnRefines
  <2>3. ASSUME NEW b \in found[r], Return(r, {b})
        PROVE  Abstraction!Next
    <3>1. b \in Listed(list[r]) \cap wasUp[r] /\ {b} \in SUBSET Backends
      BY <2>1 DEF Knows, TypeOK
    <3>2. QED
      BY <2>1, <2>3, <3>1, ReturnRefines
  <2>4. QED
    BY <1>6, <2>2, <2>3 DEF Finish
<1>7. ASSUME NEW r \in Requests, TakeTicket(r)
      PROVE  UNCHANGED Abstraction!vars
  BY <1>7, Stutters DEF TypeOK, TakeTicket, Working
<1>8. ASSUME NEW r \in Requests, StartScan(r)
      PROVE  UNCHANGED Abstraction!vars
  BY <1>8, Stutters DEF TypeOK, StartScan, Working, locals
<1>9. ASSUME NEW r \in Requests, Panic(r)
      PROVE  UNCHANGED Abstraction!vars
  BY <1>9, Stutters DEF TypeOK, Panic, Scanning, Working, locals
<1>10. ASSUME NEW r \in Requests, PassBy(r)
       PROVE  UNCHANGED Abstraction!vars
  BY <1>10, Stutters DEF PassBy
<1>11. CASE UNCHANGED vars
  BY <1>11, Stutters DEF vars, locals
<1>12. QED
  BY <1>1, <1>2, <1>3, <1>4, <1>5, <1>6, <1>7, <1>8, <1>9, <1>10, <1>11
     DEF Next, Step

(***************************************************************************)
(* For any lists, calls and flags: both strategies route only to a backend *)
(* that was listed and up at an instant of the call, and refuse only if    *)
(* each listed backend was down at one.                                    *)
(***************************************************************************)
THEOREM PlainImplementsSelection == Spec => ImplementsSelection
<1>1. Init => Abstraction!Init /\ TypeOK /\ FlagsSeen /\ ScanKnows /\ NothingPicked
  BY InitRefines, InitTyped, InitFlagsSeen, InitScanKnows, InitNothingPicked
<1>2. TypeOK /\ FlagsSeen /\ ScanKnows /\ NothingPicked /\ [Next]_vars
        => TypeOK' /\ FlagsSeen' /\ ScanKnows' /\ NothingPicked'
  BY StepTyped, StepFlagsSeen, StepScanKnows, StepNothingPicked
<1>3. QED
  BY <1>1, <1>2, StepRefines, PTL DEF Spec, ImplementsSelection, Abstraction!Spec
-----------------------------------------------------------------------------
LEMMA InitSteady == Init => SteadyScans
BY DEF Init, SteadyScans, Working

(* A step that takes no call into a scan or out of it. *)
LEMMA SteadyFrame ==
  ASSUME SteadyScans, steady' => steady, steady' => \A b \in Backends : healthy'[b],
         UNCHANGED <<kind, backends, list, i, ticket, pick>>,
         \A r \in Requests :
            pc'[r] = pc[r] \/ (pc[r] \in Working /\ pc'[r] = "panicked")
  PROVE  SteadyScans'
BY DEF SteadyScans, Working

LEMMA ReturnSteady ==
  ASSUME TypeOK, SteadyScans, NEW r \in Requests, NEW p, Return(r, p),
         steady /\ kind = "round_robin" /\ p # {} =>
            /\ backends # << >>
            /\ ticket[r] < Half => p = {backends[(ticket[r] % Len(backends)) + 1]}
  PROVE  SteadyScans'
<1>1. UNCHANGED <<kind, healthy, backends, ticket, steady>>
  BY DEF Return
<1>2. pc'[r] = (IF p = {} THEN "refused" ELSE "routed") /\ pick'[r] = p
  BY DEF Return, TypeOK
<1>3. \A q \in Requests \ {r} : pc'[q] = pc[q] /\ list'[q] = list[q] /\ i'[q] = i[q]
                                /\ pick'[q] = pick[q]
  BY DEF Return, TypeOK
<1>4. QED
  BY <1>1, <1>2, <1>3 DEF SteadyScans, Working

(* A ticket that fits an int starts the scan at its remainder. *)
LEMMA EarlyStart ==
  ASSUME NEW t \in Tickets, t < Half, NEW n \in Nat \ {0}
  PROVE  StartOf(t, n) = t % n /\ Rem(StartOf(t, n) + 0, n) = t % n
<1>1. t \in Nat /\ Signed(t) = t
  BY HalfAssumption DEF Tickets, Signed
<1>2. Rem(t, n) = t % n /\ t % n \in 0..(n - 1)
  BY <1>1 DEF Rem
<1>3. Rem(t % n, n) = t % n
  BY <1>2, RemWraps
<1>4. QED
  BY <1>1, <1>2, <1>3 DEF StartOf

(* The first backend a call accepts is that of its ticket. *)
LEMMA AcceptSteady ==
  ASSUME TypeOK, ScanKnows, SteadyScans, NEW r \in Requests, Accept(r)
  PROVE  SteadyScans'
<1>1. kind = "round_robin" /\ pc[r] = "scan" /\ Return(r, {Current(r)})
  BY DEF Accept, Scanning
<1>2. CASE steady
  <2>1. list[r] = backends /\ i[r] = 0 /\ backends # << >> /\ backends \in Seq(Backends)
    BY <1>1, <1>2 DEF SteadyScans, Working, TypeOK
  <2>2. start[r] = StartOf(ticket[r], Len(backends)) /\ ticket[r] \in Tickets
    BY <1>1, <2>1 DEF ScanKnows, Knows, TypeOK
  <2>3. ticket[r] < Half => Index(r) = ticket[r] % Len(backends)
    BY <2>1, <2>2, EarlyStart DEF Index
  <2>4. ticket[r] < Half => Current(r) = backends[(ticket[r] % Len(backends)) + 1]
    BY <2>1, <2>3 DEF Current
  <2>5. QED
    BY <1>1, <2>1, <2>4, ReturnSteady
<1>3. CASE ~steady
  BY <1>1, <1>3, ReturnSteady
<1>4. QED
  BY <1>2, <1>3

LEMMA StepSteady == TypeOK /\ ScanKnows /\ SteadyScans /\ [Next]_vars => SteadyScans'
<1> SUFFICES ASSUME TypeOK, ScanKnows, SteadyScans, [Next]_vars PROVE SteadyScans'
  OBVIOUS
<1>1. ASSUME NEW b \in Flaky, NEW value \in BOOLEAN, SetHealthy(b, value)
      PROVE  SteadyScans'
  <2>1. steady' => steady /\ value
    BY <1>1 DEF SetHealthy
  <2>2. steady' => \A e \in Backends : healthy'[e]
    BY <1>1, <2>1 DEF SetHealthy, SteadyScans, TypeOK
  <2>3. QED
    BY <1>1, <2>1, <2>2, SteadyFrame DEF SetHealthy, locals
<1>2. ASSUME NEW l \in Lists, SetBackends(l)
      PROVE  SteadyScans'
  BY <1>2 DEF SetBackends, SteadyScans
<1>3. ASSUME NEW r \in Requests, Enter(r)
      PROVE  SteadyScans'
  BY <1>3 DEF Enter, SteadyScans, TypeOK, Working
<1>4. ASSUME NEW r \in Requests, RefuseEmpty(r)
      PROVE  SteadyScans'
  BY <1>4, ReturnSteady DEF RefuseEmpty
<1>5. ASSUME NEW r \in Requests, TakeTicket(r)
      PROVE  SteadyScans'
  <2>1. UNCHANGED <<kind, healthy, backends, list, i, pick, steady>>
    BY <1>5 DEF TakeTicket
  <2>2. pc[r] = "entered" /\ pc'[r] = "scan" /\ i[r] = 0
    BY <1>5 DEF TakeTicket, TypeOK
  <2>3. \A q \in Requests \ {r} : pc'[q] = pc[q] /\ ticket'[q] = ticket[q]
    BY <1>5 DEF TakeTicket, TypeOK
  <2>4. QED
    BY <2>1, <2>2, <2>3 DEF SteadyScans, Working
<1>6. ASSUME NEW r \in Requests, StartScan(r)
      PROVE  SteadyScans'
  BY <1>6 DEF StartScan, SteadyScans, TypeOK, Working, locals
<1>7. ASSUME NEW r \in Requests, Panic(r)
      PROVE  SteadyScans'
  <2>1. \A q \in Requests : pc'[q] = pc[q] \/ (pc[q] \in Working /\ pc'[q] = "panicked")
    BY <1>7 DEF Panic, Scanning, TypeOK, Working
  <2>2. steady => \A b \in Backends : healthy[b]
    BY DEF SteadyScans
  <2>3. QED
    BY <1>7, <2>1, <2>2, SteadyFrame DEF Panic, locals
<1>8. ASSUME NEW r \in Requests, Accept(r)
      PROVE  SteadyScans'
  BY <1>8, AcceptSteady
<1>9. ASSUME NEW r \in Requests, PassBy(r)
      PROVE  SteadyScans'
  <2>1. UNCHANGED <<kind, healthy, backends, pc, list, ticket, pick, steady>>
    BY <1>9 DEF PassBy
  <2>2. Current(r) \in Backends
    BY <1>9, CurrentIsListed DEF PassBy
  <2>3. steady => kind = "random"
    BY <1>9, <2>2 DEF PassBy, SteadyScans, TypeOK
  <2>4. QED
    BY <2>1, <2>3 DEF SteadyScans
<1>10. ASSUME NEW r \in Requests, Finish(r)
       PROVE  SteadyScans'
  <2>1. kind = "round_robin" => found[r] = {}
    BY <1>10 DEF Finish, ScanKnows, Knows
  <2>2. CASE found[r] = {}
    BY <1>10, <2>2, ReturnSteady DEF Finish
  <2>3. CASE found[r] # {}
    BY <1>10, <2>1, <2>3, ReturnSteady DEF Finish
  <2>4. QED
    BY <2>2, <2>3
<1>11. CASE UNCHANGED vars
  BY <1>11, SteadyFrame DEF vars, locals, SteadyScans
<1>12. QED
  BY <1>1, <1>2, <1>3, <1>4, <1>5, <1>6, <1>7, <1>8, <1>9, <1>10, <1>11
     DEF Next, Step

-----------------------------------------------------------------------------
LEMMA InitApart == Init => TicketsApart
BY DEF Init, TicketsApart, Holding

(* A call past the dispenser is one of finitely many. *)
LEMMA GotPastCounts ==
  ASSUME CallsFit
  PROVE  IsFiniteSet(GotPast) /\ Cardinality(GotPast) \in Nat
<1>1. GotPast \in SUBSET Requests
  BY DEF GotPast
<1>2. IsFiniteSet(GotPast)
  BY <1>1, FS_Subset DEF CallsFit
<1>3. QED
  BY <1>2, FS_CardinalityType

(* No call draws a ticket, and more of them get past the dispenser.        *)
LEMMA ApartFrame ==
  ASSUME CallsFit, TicketsApart, kind' = kind, next' = next, ticket' = ticket,
         kind = "round_robin" => Holding' \subseteq Holding, GotPast \subseteq GotPast'
  PROVE  TicketsApart'
<1>1. GotPast' \in SUBSET Requests
  BY DEF GotPast
<1>2. IsFiniteSet(GotPast')
  BY <1>1, FS_Subset DEF CallsFit
<1>3. Cardinality(GotPast) <= Cardinality(GotPast')
  BY <1>2, FS_Subset
<1>4. Cardinality(GotPast) \in Nat /\ Cardinality(GotPast') \in Nat
  BY <1>2, GotPastCounts, FS_CardinalityType
<1>5. \A n \in 1..Cardinality(GotPast) : n \in 1..Cardinality(GotPast')
  BY <1>3, <1>4
<1>6. QED
  BY <1>5 DEF TicketsApart

(* A ticket that is n behind the dispenser is n + 1 behind the next one,   *)
(* and not the dispenser's own.                                            *)
LEMMA OneFurther ==
  ASSUME NEW N \in Nat \ {0}, NEW t \in 0..(N - 1), NEW n \in 1..(N - 1)
  PROVE  (t + (n + 1)) % N = (((t + n) % N) + 1) % N /\ (t + n) % N # t
<1> DEFINE x == t + n
           y == IF x < N THEN x ELSE x - N
<1>1. x \in 0..(2 * N - 2) /\ y \in 0..(N - 1) /\ y # t /\ t + (n + 1) = x + 1
  OBVIOUS
<1> HIDE DEF x
<1>2. x % N = y
  BY <1>1
<1>3. (x + 1) % N = IF x + 1 < N THEN x + 1 ELSE x + 1 - N
  <2>1. x + 1 \in 0..(2 * N - 1)
    BY <1>1
  <2>2. QED
    BY <1>1, <2>1
<1>4. (y + 1) % N = IF y + 1 < N THEN y + 1 ELSE y + 1 - N
  <2>1. y + 1 \in 0..(2 * N - 1)
    BY <1>1
  <2> HIDE DEF y
  <2>2. QED
    BY <1>1, <2>1
<1>5. (x + 1) % N = (y + 1) % N
  BY <1>1, <1>3, <1>4
<1>6. QED
  BY <1>1, <1>2, <1>5 DEF x

(* The ticket that is drawn is held by nobody, as fewer calls than there   *)
(* are tickets got past the dispenser before.                              *)
LEMMA TakeTicketApart ==
  ASSUME CallsFit, TypeOK, TicketsApart, NEW r \in Requests, TakeTicket(r)
  PROVE  TicketsApart'
<1> DEFINE N == 2 * Half
           past == Cardinality(GotPast)
<1>1. N \in Nat \ {0} /\ next \in 0..(N - 1)
  BY HalfAssumption DEF TypeOK, Tickets
<1>2. kind = "round_robin" /\ kind' = kind /\ next' = (next + 1) % N
  BY DEF TakeTicket, TicketAfter
<1>3. pc[r] = "entered" /\ pc'[r] = "scan" /\ ticket'[r] = next
      /\ \A q \in Requests \ {r} : pc'[q] = pc[q] /\ ticket'[q] = ticket[q]
  BY DEF TakeTicket, TypeOK
<1>4. GotPast' = GotPast \cup {r} /\ r \notin GotPast /\ Holding' \subseteq Holding \cup {r}
  BY <1>3 DEF GotPast, Holding
<1>5. Cardinality(GotPast') = past + 1 /\ past \in Nat
  BY <1>4, GotPastCounts, FS_AddElement
<1>6. past + 1 <= N
  <2>1. GotPast' \in SUBSET Requests
    BY DEF GotPast
  <2>2. Cardinality(GotPast') <= Cardinality(Requests) /\ Cardinality(Requests) \in Nat
    BY <2>1, FS_Subset, FS_CardinalityType DEF CallsFit
  <2>3. QED
    BY <1>1, <1>5, <2>2 DEF CallsFit
<1> HIDE DEF N, past
<1>7. ASSUME NEW q \in Holding
      PROVE  /\ ticket[q] \in 0..(N - 1) /\ ticket[q] # next
             /\ \E n \in 1..(past + 1) : (ticket[q] + n) % N = next'
  <2>1. ticket[q] \in 0..(N - 1)
    BY DEF TypeOK, Tickets, Holding, N
  <2>2. PICK n \in 1..past : (ticket[q] + n) % N = next
    BY <1>2 DEF TicketsApart, N, past
  <2>3. n \in 1..(N - 1) /\ n + 1 \in 1..(past + 1)
    BY <1>1, <1>5, <1>6
  <2>4. (ticket[q] + (n + 1)) % N = next' /\ ticket[q] # next
    BY <1>1, <1>2, <2>1, <2>2, <2>3, OneFurther
  <2>5. QED
    BY <2>1, <2>3, <2>4
<1>8. ASSUME NEW q \in Holding'
      PROVE  \E n \in 1..Cardinality(GotPast') : (ticket'[q] + n) % N = next'
  <2>1. CASE q = r
    BY <1>2, <1>3, <1>5, <2>1
  <2>2. CASE q # r
    BY <1>3, <1>4, <1>5, <1>7, <2>2 DEF Holding
  <2>3. QED
    BY <2>1, <2>2
<1>9. ASSUME NEW p \in Holding', NEW q \in Holding', p # q
      PROVE  ticket'[p] # ticket'[q]
  <2>1. CASE p # r /\ q # r
    <3>1. p \in Holding /\ q \in Holding /\ ticket'[p] = ticket[p] /\ ticket'[q] = ticket[q]
      BY <1>3, <1>4, <2>1 DEF Holding
    <3>2. QED
      BY <1>2, <1>9, <3>1 DEF TicketsApart
  <2>2. CASE p = r
    <3>1. q \in Holding /\ ticket'[q] = ticket[q]
      BY <1>3, <1>4, <1>9, <2>2 DEF Holding
    <3>2. QED
      BY <1>3, <1>7, <2>2, <3>1
  <2>3. CASE q = r
    <3>1. p \in Holding /\ ticket'[p] = ticket[p]
      BY <1>3, <1>4, <1>9, <2>3 DEF Holding
    <3>2. QED
      BY <1>3, <1>7, <2>3, <3>1
  <2>4. QED
    BY <2>1, <2>2, <2>3
<1>10. QED
  BY <1>8, <1>9 DEF TicketsApart, N

LEMMA StepApart ==
  CallsFit /\ TypeOK /\ ScanKnows /\ TicketsApart /\ [Next]_vars => TicketsApart'
<1> SUFFICES ASSUME CallsFit, TypeOK, ScanKnows, TicketsApart, [Next]_vars
             PROVE  TicketsApart'
  OBVIOUS
<1>1. ASSUME UNCHANGED <<kind, next, ticket>>, pc' = pc
      PROVE  TicketsApart'
  BY <1>1, ApartFrame DEF Holding, GotPast
<1>2. ASSUME NEW b \in Flaky, NEW value \in BOOLEAN, SetHealthy(b, value)
      PROVE  TicketsApart'
  BY <1>1, <1>2 DEF SetHealthy
<1>3. ASSUME NEW l \in Lists, SetBackends(l)
      PROVE  TicketsApart'
  BY <1>1, <1>3 DEF SetBackends
<1>4. ASSUME NEW r \in Requests, Enter(r)
      PROVE  TicketsApart'
  <2>1. Holding' \subseteq Holding /\ GotPast \subseteq GotPast'
    BY <1>4 DEF Enter, TypeOK, Holding, GotPast
  <2>2. QED
    BY <1>4, <2>1, ApartFrame DEF Enter
<1>5. ASSUME NEW r \in Requests, NEW p, Return(r, p), pc[r] = "entered" => p = {},
             pc[r] \in {"entered", "scan"}
      PROVE  TicketsApart'
  <2>1. pc'[r] = (IF p = {} THEN "refused" ELSE "routed")
        /\ \A q \in Requests \ {r} : pc'[q] = pc[q]
    BY <1>5 DEF Return, TypeOK
  <2>2. Holding' \subseteq Holding /\ GotPast \subseteq GotPast'
    BY <1>5, <2>1 DEF Holding, GotPast
  <2>3. QED
    BY <1>5, <2>2, ApartFrame DEF Return
<1>6. ASSUME NEW r \in Requests, RefuseEmpty(r)
      PROVE  TicketsApart'
  BY <1>5, <1>6 DEF RefuseEmpty
<1>7. ASSUME NEW r \in Requests, Accept(r)
      PROVE  TicketsApart'
  BY <1>5, <1>7 DEF Accept, Scanning
<1>8. ASSUME NEW r \in Requests, Finish(r)
      PROVE  TicketsApart'
  BY <1>5, <1>8 DEF Finish
<1>9. ASSUME NEW r \in Requests, TakeTicket(r)
      PROVE  TicketsApart'
  BY <1>9, TakeTicketApart
<1>10. ASSUME NEW r \in Requests, StartScan(r)
       PROVE  TicketsApart'
  <2>1. kind # "round_robin" /\ GotPast \subseteq GotPast'
    BY <1>10 DEF StartScan, TypeOK, GotPast
  <2>2. QED
    BY <1>10, <2>1, ApartFrame DEF StartScan
<1>11. ASSUME NEW r \in Requests, Panic(r)
       PROVE  TicketsApart'
  <2>1. Holding' \subseteq Holding /\ GotPast \subseteq GotPast'
    BY <1>11 DEF Panic, Scanning, TypeOK, Holding, GotPast
  <2>2. QED
    BY <1>11, <2>1, ApartFrame DEF Panic
<1>12. ASSUME NEW r \in Requests, PassBy(r)
       PROVE  TicketsApart'
  BY <1>1, <1>12 DEF PassBy
<1>13. CASE UNCHANGED vars
  BY <1>1, <1>13 DEF vars
<1>14. QED
  BY <1>2, <1>3, <1>4, <1>6, <1>7, <1>8, <1>9, <1>10, <1>11, <1>12, <1>13
     DEF Next, Step

-----------------------------------------------------------------------------
(* Numbers less than n apart have different remainders. *)
LEMMA RemaindersDiffer ==
  ASSUME NEW n \in Nat \ {0}, NEW x \in Nat, NEW y \in Nat, x < y, y - x < n
  PROVE  x % n # y % n
<1> DEFINE dx == x \div n
           dy == y \div n
<1>1. /\ x % n \in 0..(n - 1) /\ dx \in Nat /\ x = n * dx + (x % n)
      /\ y % n \in 0..(n - 1) /\ dy \in Nat /\ y = n * dy + (y % n)
  OBVIOUS
<1> HIDE DEF dx, dy
<1> SUFFICES ASSUME x % n = y % n PROVE FALSE
  OBVIOUS
<1>2. y - x = n * dy - n * dx
  BY <1>1
<1>3. CASE dy <= dx
  <2>1. n * dy <= n * dx
    BY <1>1, <1>3
  <2>2. QED
    BY <1>1, <1>2, <2>1
<1>4. CASE dy >= dx + 1
  <2>1. n * dy >= n * (dx + 1) /\ n * (dx + 1) = n * dx + n
    BY <1>1, <1>4
  <2>2. QED
    BY <1>1, <1>2, <2>1
<1>5. QED
  BY <1>1, <1>3, <1>4

(* Tickets that fit an int and are fewer than n apart start at different   *)
(* places of n.                                                            *)
LEMMA PlacesDiffer ==
  ASSUME NEW n \in Nat \ {0}, NEW r \in Requests, NEW q \in Requests,
         ticket[r] \in 0..(Half - 1), ticket[q] \in 0..(Half - 1),
         ticket[r] # ticket[q], Distance(r, q) < n
  PROVE  ticket[r] % n # ticket[q] % n
<1> DEFINE x == ticket[r]
           y == ticket[q]
<1>1. Half \in Nat \ {0} /\ x \in Nat /\ y \in Nat
  BY HalfAssumption
<1>2. CASE x < y
  <2>1. y - x \in 0..(2 * Half - 1)
    BY <1>1, <1>2
  <2>2. (y - x) % (2 * Half) = y - x
    BY <1>1, <2>1
  <2>3. QED
    BY <1>1, <1>2, <2>2, RemaindersDiffer DEF Distance
<1>3. CASE y < x
  <2>1. y - x + 2 * Half \in 0..(2 * Half - 1) /\ y - x + 2 * Half > Half
    BY <1>1, <1>3
  <2>2. (y - x) % (2 * Half) = y - x + 2 * Half
    BY <1>1, <1>3, <2>1
  <2>3. Half < n
    BY <1>1, <2>1, <2>2 DEF Distance
  <2>4. x < n /\ y < n
    BY <1>1, <2>3
  <2>5. x % n = x /\ y % n = y
    BY <1>1, <2>4
  <2>6. QED
    BY <2>5
<1>4. QED
  BY <1>1, <1>2, <1>3

(* A remainder is a place of the list. *)
LEMMA PlaceOf ==
  ASSUME NEW m \in Nat \ {0}, NEW t \in Nat
  PROVE  t % m \in 0..(m - 1)
OBVIOUS

LEMMA ApartTakeTurns == TypeOK /\ SteadyScans /\ TicketsApart => TurnsAreTaken
<1> SUFFICES ASSUME TypeOK, SteadyScans, TicketsApart, kind = "round_robin", steady,
                    Distinct(backends),
                    NEW r \in Requests, pc[r] = "routed", ticket[r] < Half,
                    NEW q \in Requests, pc[q] = "routed", ticket[q] < Half,
                    r # q, Distance(r, q) < Len(backends)
             PROVE  pick[r] # pick[q]
  BY DEF TurnsAreTaken
<1> DEFINE n == Len(backends)
<1>1. backends # << >> /\ backends \in Seq(Backends)
  BY DEF SteadyScans, TypeOK
<1>2. n \in Nat \ {0}
  BY <1>1
<1>3. ticket[r] # ticket[q]
  BY DEF TicketsApart, Holding
<1>4. ticket[r] \in 0..(Half - 1) /\ ticket[q] \in 0..(Half - 1)
  BY HalfAssumption DEF TypeOK, Tickets
<1>5. ticket[r] % n # ticket[q] % n
  BY <1>2, <1>3, <1>4, PlacesDiffer
<1>6. /\ (ticket[r] % n) + 1 \in 1..n /\ (ticket[q] % n) + 1 \in 1..n
      /\ (ticket[r] % n) + 1 # (ticket[q] % n) + 1
  <2>1. ticket[r] \in Nat /\ ticket[q] \in Nat
    BY <1>4, HalfAssumption
  <2>2. (ticket[r] % n) \in 0..(n - 1) /\ (ticket[q] % n) \in 0..(n - 1)
    BY <1>2, <2>1, PlaceOf
  <2> HIDE DEF n
  <2>3. QED
    BY <1>2, <1>5, <2>2
<1>7. backends[(ticket[r] % n) + 1] # backends[(ticket[q] % n) + 1]
  BY <1>6 DEF Distinct
<1>8. /\ pick[r] = {backends[(ticket[r] % n) + 1]}
      /\ pick[q] = {backends[(ticket[q] % n) + 1]}
  BY DEF SteadyScans
<1>9. QED
  BY <1>7, <1>8

(***************************************************************************)
(* Turns are taken over any list of different backends, by any number of   *)
(* calls up to the number of tickets: as long as no flag goes down and the *)
(* list stands, calls fewer than n tickets apart get different backends.   *)
(***************************************************************************)
THEOREM TurnsTaken == ASSUME CallsFit PROVE Spec => []TurnsAreTaken
<1> DEFINE IInv == TypeOK /\ FlagsSeen /\ ScanKnows /\ SteadyScans /\ TicketsApart
<1>1. Init => IInv
  BY InitTyped, InitFlagsSeen, InitScanKnows, InitSteady, InitApart
<1>2. IInv /\ [Next]_vars => IInv'
  BY StepTyped, StepFlagsSeen, StepScanKnows, StepSteady, StepApart
<1>3. IInv => TurnsAreTaken
  BY ApartTakeTurns
<1>4. QED
  BY <1>1, <1>2, <1>3, PTL DEF Spec
=============================================================================
