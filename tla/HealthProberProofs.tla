------------------------- MODULE HealthProberProofs -------------------------
(* Theorems about HealthProber, for any backends, requests and closers. *)
EXTENDS HealthProber, TLAPS

(* There are backends, and Order lists only them. *)
LEMMA OrderLists == Order \in Seq(Backends) /\ Order # << >>
BY OrderAssumption

(* A backend left to visit is a backend. *)
LEMMA HeadIsBackend ==
  ASSUME TypeOK, round # << >>
  PROVE  Head(round) \in Backends /\ Tail(round) \in Seq(Backends)
BY DEF TypeOK

LEMMA InitTypeOK == Init => TypeOK
<1> SUFFICES ASSUME Init PROVE TypeOK
  OBVIOUS
<1>1. round \in Seq(Backends) /\ (round = << >> <=> prober \in {"select", "done"})
  BY OrderLists DEF Init
<1>2. /\ alive \in [Backends -> BOOLEAN] /\ healthy \in [Backends -> BOOLEAN]
      /\ fresh \in [Backends -> 0..2] /\ knocked \in [Backends -> BOOLEAN]
      /\ changes \in 0..MaxChanges
  BY ChangesAssumption DEF Init
<1>3. QED
  BY <1>1, <1>2 DEF Init, TypeOK

LEMMA StepTypeOK == TypeOK /\ [Next]_vars => TypeOK'
<1> SUFFICES ASSUME TypeOK, [Next]_vars PROVE TypeOK'
  OBVIOUS
<1> USE DEF TypeOK, proberVars, closeVars, requestVars
<1>1. ASSUME NEW b \in Backends, Change(b) PROVE TypeOK'
  BY <1>1, ChangesAssumption DEF Change
<1>2. CASE HealthCheck
  BY <1>2, HeadIsBackend DEF HealthCheck
<1>3. CASE ApplyVerdict
  <2>1. round # << >>
    BY <1>3 DEF ApplyVerdict
  <2>2. Head(round) \in Backends /\ Tail(round) \in Seq(Backends)
    BY <2>1, HeadIsBackend
  <2>3. prober' \in {"ask", "select"} /\ (Tail(round) = << >> <=> prober' = "select")
    BY <1>3 DEF ApplyVerdict, AfterVerdict
  <2>4. healthy' \in [Backends -> BOOLEAN] /\ knocked' \in [Backends -> BOOLEAN]
    BY <1>3 DEF ApplyVerdict, Judged
  <2>5. fresh' \in [Backends -> 0..2]
    BY <1>3 DEF ApplyVerdict
  <2>6. ticking' \in BOOLEAN
    BY <1>3 DEF ApplyVerdict
  <2>7. QED
    BY <1>3, <2>2, <2>3, <2>4, <2>5, <2>6 DEF ApplyVerdict
<1>4. CASE Fire
  BY <1>4 DEF Fire
<1>5. CASE StartRound
  BY <1>5, OrderLists DEF StartRound
<1>6. CASE StopProber
  BY <1>6 DEF StopProber, MayStop
<1>7. ASSUME NEW c \in Closers, CallShutdown(c) \/ Closing(c) PROVE TypeOK'
  BY <1>7 DEF CallShutdown, Closing, CloseStop, Join, Follow, StartDrain, EndDrain
<1>8. ASSUME NEW r \in Requests, NEW b \in Backends, Send(r, b) PROVE TypeOK'
  BY <1>8 DEF Send
<1>9. ASSUME NEW r \in Requests, Finishing(r) PROVE TypeOK'
  BY <1>9 DEF Finishing, Succeed, Fail, KnockDown
<1>10. CASE UNCHANGED vars
  BY <1>10 DEF vars
<1>11. QED
  BY <1>1, <1>2, <1>3, <1>4, <1>5, <1>6, <1>7, <1>8, <1>9, <1>10 DEF Next, Probing

(***************************************************************************)
(* The prober, the request handlers and the callers of Shutdown keep every *)
(* variable in its domain; the prober has backends left to visit exactly   *)
(* while it asks or judges.                                                *)
(***************************************************************************)
THEOREM TypeCorrect == Spec => []TypeOK
BY InitTypeOK, StepTypeOK, PTL DEF Spec

-----------------------------------------------------------------------------
(* What two verdicts settle follows from the verdict being current. *)
Settled == TypeOK /\ VerdictIsCurrent /\ TwoVerdictsSettle

LEMMA InitSettled == Init => Settled
BY InitTypeOK DEF Init, Settled, VerdictIsCurrent, TwoVerdictsSettle

(* The prober stores a verdict: the second since a change was current. *)
LEMMA ApplyVerdictSettles == Settled /\ ApplyVerdict => (VerdictIsCurrent /\ TwoVerdictsSettle)'
<1> SUFFICES ASSUME Settled, ApplyVerdict
             PROVE  (VerdictIsCurrent /\ TwoVerdictsSettle)'
  OBVIOUS
<1> DEFINE b == Head(round)
<1>1. TypeOK /\ b \in Backends
  BY HeadIsBackend DEF Settled, ApplyVerdict, TypeOK
<1>2. VerdictIsCurrent'
  BY DEF ApplyVerdict, AfterVerdict, VerdictIsCurrent
<1>3. ASSUME NEW d \in Backends, fresh'[d] = 2
      PROVE  healthy'[d] = (alive'[d] /\ ~knocked'[d])
  <2>1. CASE d = b
    <3>1. fresh[b] > 0
      BY <1>1, <1>3, <2>1 DEF ApplyVerdict, TypeOK
    <3>2. verdict = alive[b]
      BY <3>1 DEF Settled, VerdictIsCurrent, ApplyVerdict
    <3>3. healthy'[b] = verdict /\ knocked'[b] = FALSE /\ alive' = alive
      BY <1>1 DEF ApplyVerdict, TypeOK, Judged
    <3>4. alive[b] \in BOOLEAN
      BY <1>1 DEF TypeOK
    <3>5. QED
      BY <2>1, <3>2, <3>3, <3>4
  <2>2. CASE d # b
    <3>1. fresh[d] = 2
      BY <1>1, <1>3, <2>2 DEF ApplyVerdict, TypeOK
    <3>2. healthy'[d] = healthy[d] /\ knocked'[d] = knocked[d] /\ alive' = alive
      BY <1>1, <2>2 DEF ApplyVerdict, TypeOK
    <3>3. QED
      BY <3>1, <3>2 DEF Settled, TwoVerdictsSettle
  <2>3. QED
    BY <2>1, <2>2
<1>4. QED
  BY <1>2, <1>3 DEF TwoVerdictsSettle

LEMMA StepSettled == Settled /\ [Next]_vars => Settled'
<1> SUFFICES ASSUME Settled, [Next]_vars PROVE (VerdictIsCurrent /\ TwoVerdictsSettle)'
  BY StepTypeOK DEF Settled
<1> TypeOK
  BY DEF Settled
<1>1. ASSUME NEW b \in Backends, Change(b) PROVE (VerdictIsCurrent /\ TwoVerdictsSettle)'
  <2>1. ASSUME NEW d \in Backends
        PROVE  /\ d = b => fresh'[d] = 0
               /\ d # b => fresh'[d] = fresh[d] /\ alive'[d] = alive[d]
    BY <1>1 DEF Change, TypeOK
  <2>2. TwoVerdictsSettle'
    BY <1>1, <2>1 DEF Settled, TwoVerdictsSettle, Change
  <2>3. prober = "judge" => Head(round) \in Backends
    BY HeadIsBackend DEF TypeOK
  <2>4. VerdictIsCurrent'
    BY <1>1, <2>1, <2>3 DEF Settled, VerdictIsCurrent, Change, proberVars
  <2>5. QED
    BY <2>2, <2>4
<1>2. CASE HealthCheck
  BY <1>2 DEF HealthCheck, Settled, VerdictIsCurrent, TwoVerdictsSettle
<1>3. CASE ApplyVerdict
  BY <1>3, ApplyVerdictSettles
<1>4. CASE Fire \/ StartRound \/ StopProber
  BY <1>4 DEF Fire, StartRound, StopProber, MayStop, Settled, VerdictIsCurrent, TwoVerdictsSettle
<1>5. ASSUME NEW c \in Closers, CallShutdown(c) \/ Closing(c)
      PROVE  (VerdictIsCurrent /\ TwoVerdictsSettle)'
  BY <1>5 DEF CallShutdown, Closing, CloseStop, Join, Follow, StartDrain, EndDrain,
              Settled, VerdictIsCurrent, TwoVerdictsSettle, proberVars
<1>6. ASSUME NEW r \in Requests, NEW b \in Backends, Send(r, b)
      PROVE  (VerdictIsCurrent /\ TwoVerdictsSettle)'
  BY <1>6 DEF Send, Settled, VerdictIsCurrent, TwoVerdictsSettle, proberVars
<1>7. ASSUME NEW r \in Requests, Succeed(r) \/ Fail(r)
      PROVE  (VerdictIsCurrent /\ TwoVerdictsSettle)'
  BY <1>7 DEF Succeed, Fail, Settled, VerdictIsCurrent, TwoVerdictsSettle, proberVars
<1>8. ASSUME NEW r \in Requests, KnockDown(r)
      PROVE  (VerdictIsCurrent /\ TwoVerdictsSettle)'
  <2>1. ASSUME NEW d \in Backends
        PROVE  /\ d = target[r] => healthy'[d] = FALSE /\ knocked'[d] = TRUE
               /\ d # target[r] => healthy'[d] = healthy[d] /\ knocked'[d] = knocked[d]
    BY <1>8 DEF KnockDown, TypeOK
  <2>2. TwoVerdictsSettle'
    BY <1>8, <2>1 DEF Settled, TwoVerdictsSettle, KnockDown
  <2>3. VerdictIsCurrent'
    BY <1>8 DEF Settled, VerdictIsCurrent, KnockDown, proberVars
  <2>4. QED
    BY <2>2, <2>3
<1>9. CASE UNCHANGED vars
  BY <1>9 DEF vars, proberVars, Settled, VerdictIsCurrent, TwoVerdictsSettle
<1>10. QED
  BY <1>1, <1>2, <1>3, <1>4, <1>5, <1>6, <1>7, <1>8, <1>9 DEF Next, Probing, Finishing

(***************************************************************************)
(* Two verdicts after a backend last changed, its flag is right unless a   *)
(* request that failed since the last verdict cleared it (server.go:237    *)
(* and 269-276), however probes, failures and changes interleave.          *)
(***************************************************************************)
THEOREM FlagsSettle == Spec => []TwoVerdictsSettle
<1>1. Settled => TwoVerdictsSettle
  BY DEF Settled
<1>2. QED
  BY <1>1, InitSettled, StepSettled, PTL DEF Spec

-----------------------------------------------------------------------------
(* Whoever left stopOnce.Do found the prober gone, and it stays gone. *)
Joined == TypeOK /\ JoinedAfterProber

LEMMA InitJoined == Init => Joined
BY InitTypeOK DEF Init, Joined, JoinedAfterProber

(* The goroutine that has returned does not come back. *)
LEMMA ProberStaysGone == TypeOK /\ [Next]_vars /\ prober = "done" => prober' = "done"
BY DEF Next, vars, proberVars, Change, Probing, HealthCheck, ApplyVerdict, Fire, StartRound,
       StopProber, CallShutdown, Closing, CloseStop, Join, Follow, StartDrain, EndDrain,
       Send, Finishing, Succeed, Fail, KnockDown

LEMMA StepJoined == Joined /\ [Next]_vars => Joined'
<1> SUFFICES ASSUME Joined, [Next]_vars, prober # "done" PROVE JoinedAfterProber'
  BY StepTypeOK, ProberStaysGone DEF Joined, JoinedAfterProber
<1>1. TypeOK /\ once # "done"
  BY DEF Joined, JoinedAfterProber
<1>2. \A c \in Closers : closer[c] \in {"idle", "calling", "waiting"}
  BY DEF Joined, JoinedAfterProber
<1>3. ASSUME NEW c \in Closers, CallShutdown(c) \/ Closing(c) PROVE JoinedAfterProber'
  <2>1. CASE CallShutdown(c)
    BY <1>1, <1>2, <2>1 DEF CallShutdown, JoinedAfterProber, TypeOK
  <2>2. CASE CloseStop(c)
    BY <1>1, <1>2, <2>2 DEF CloseStop, JoinedAfterProber, TypeOK
  <2>3. CASE Join(c) \/ Follow(c)
    BY <1>1, <2>3 DEF Join, Follow, ProberGone
  <2>4. CASE StartDrain(c) \/ EndDrain(c)
    BY <1>2, <2>4 DEF StartDrain, EndDrain
  <2>5. QED
    BY <1>3, <2>1, <2>2, <2>3, <2>4 DEF Closing
<1>4. CASE closer' = closer /\ once' = once
  BY <1>1, <1>2, <1>4 DEF JoinedAfterProber
<1>5. CASE \E b \in Backends : Change(b)
  BY <1>4, <1>5 DEF Change, closeVars
<1>6. CASE Probing \/ Fire \/ StopProber
  BY <1>4, <1>6 DEF Probing, HealthCheck, ApplyVerdict, StartRound, Fire, StopProber, closeVars
<1>7. CASE \E r \in Requests, b \in Backends : Send(r, b)
  BY <1>4, <1>7 DEF Send, closeVars
<1>8. CASE \E r \in Requests : Finishing(r)
  BY <1>4, <1>8 DEF Finishing, Succeed, Fail, KnockDown, closeVars
<1>9. CASE UNCHANGED vars
  BY <1>4, <1>9 DEF vars, closeVars
<1>10. QED
  BY <1>3, <1>5, <1>6, <1>7, <1>8, <1>9 DEF Next

(* Only a verdict raises a flag, and only a prober that runs stores one. *)
LEMMA OnlyProberRevives ==
  ASSUME TypeOK, [Next]_vars, NEW b \in Backends, healthy'[b], ~healthy[b]
  PROVE  prober # "done"
<1>1. ASSUME NEW r \in Requests, KnockDown(r) PROVE FALSE
  <2>1. healthy'[b] = IF b = target[r] THEN FALSE ELSE healthy[b]
    BY <1>1 DEF KnockDown, TypeOK
  <2>2. QED
    BY <2>1
<1>2. healthy' # healthy
  OBVIOUS
<1>3. CASE ApplyVerdict
  BY <1>3 DEF ApplyVerdict
<1>4. ASSUME NEW r \in Requests, Finishing(r) PROVE FALSE
  BY <1>1, <1>2, <1>4 DEF Finishing, Succeed, Fail
<1>5. CASE Probing \/ Fire \/ StopProber
  BY <1>2, <1>3, <1>5 DEF Probing, HealthCheck, StartRound, Fire, StopProber
<1>6. ASSUME NEW c \in Closers, CallShutdown(c) \/ Closing(c) PROVE FALSE
  BY <1>2, <1>6 DEF CallShutdown, Closing, CloseStop, Join, Follow, StartDrain, EndDrain
<1>7. QED
  BY <1>2, <1>4, <1>5, <1>6 DEF Next, vars, Change, Send

(***************************************************************************)
(* Once a caller of Shutdown goes on to drain, no backend is put into      *)
(* service again (server.go:81-85): close(stopCh) and <-probeDone order    *)
(* the last verdict before it, whichever caller came first.                *)
(***************************************************************************)
THEOREM ShutdownEndsRevival == Spec => NoRevivalAfterJoin
<1>1. Joined /\ [Next]_vars =>
        [(\E c \in Closers : closer[c] \in {"joined", "draining", "done"}) =>
            \A b \in Backends : healthy'[b] => healthy[b]]_vars
  BY OnlyProberRevives DEF Joined, JoinedAfterProber
<1>2. QED
  BY <1>1, InitJoined, StepJoined, PTL DEF Spec, NoRevivalAfterJoin
=============================================================================
