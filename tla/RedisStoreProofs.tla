-------------------------- MODULE RedisStoreProofs --------------------------
(* Theorems about RedisStore, for any callers, keys, names and retries.    *)
EXTENDS RedisStore, TLAPS


LEMMA InitTyped == Init => TypeOK
BY TriesAssumption DEF Init, TypeOK

LEMMA InitOffered == Init => RepliesOffered
BY DEF Init, RepliesOffered

(* A write adds to what is offered and takes nothing away.                 *)
LEMMA WriteTyped ==
  ASSUME TypeOK, NEW k \in Keys, NEW n \in Names, Write(k, n)
  PROVE  /\ store' \in [Keys -> Names \cup {None}]
         /\ offered' \in [Callers -> SUBSET Names]
         /\ \A c \in Callers : offered[c] \subseteq offered'[c]
BY DEF TypeOK, Write

LEMMA WriteOffers ==
  ASSUME TypeOK, RepliesOffered, NEW k \in Keys, NEW n \in Names, Write(k, n), NEW c \in Callers
  PROVE  /\ offered[c] \subseteq offered'[c]
         /\ pc[c] = "get" => store'[key[c]] \in offered'[c] \cup {None}
BY DEF TypeOK, RepliesOffered, Write

LEMMA EndTyped ==
  ASSUME TypeOK, NEW c \in Callers, NEW stage \in {"hit", "missed"}, End(c, stage),
         stage = "hit" => reply[c] # None
  PROVE  TypeOK'
BY TriesAssumption DEF TypeOK, End

LEMMA StepTyped == TypeOK /\ RepliesOffered /\ [Next]_vars => TypeOK'
<1> SUFFICES ASSUME TypeOK, RepliesOffered, [Next]_vars PROVE TypeOK'
  OBVIOUS
<1>1. ASSUME NEW ks \in SUBSET Keys, Forget(ks) PROVE TypeOK'
  BY <1>1 DEF TypeOK, Forget, call
<1>2. ASSUME NEW k \in Keys, NEW n \in Names, ExecuteLate(k, n) PROVE TypeOK'
  <2>1. late' \subseteq Keys \X Names
    BY <1>2 DEF TypeOK, ExecuteLate
  <2>2. CASE Write(k, n)
    BY <1>2, <2>1, <2>2, WriteTyped DEF TypeOK, ExecuteLate, call
  <2>3. CASE UNCHANGED <<store, offered>>
    BY <1>2, <2>1, <2>3 DEF TypeOK, ExecuteLate, call
  <2>4. QED
    BY <1>2, <2>2, <2>3 DEF ExecuteLate
<1>3. ASSUME NEW c \in Callers, NEW k \in Keys, PreferredBackend(c, k) PROVE TypeOK'
  BY <1>3, TriesAssumption DEF TypeOK, PreferredBackend, Begin
<1>4. ASSUME NEW c \in Callers, NEW k \in Keys, NEW n \in Names, RememberBackend(c, k, n)
      PROVE  TypeOK'
  BY <1>4, TriesAssumption DEF TypeOK, RememberBackend, Begin
<1>5. ASSUME NEW c \in Callers, Execute(c) PROVE TypeOK'
  <2>1. CASE pc[c] = "get" /\ reply' = [reply EXCEPT ![c] = store[key[c]]]
             /\ UNCHANGED <<store, offered>>
    <3>1. store[key[c]] \in Names \cup {None}
      BY <2>1 DEF TypeOK, RepliesOffered
    <3>2. QED
      BY <1>5, <2>1, <3>1 DEF TypeOK, Execute, call
  <2>2. CASE pc[c] = "set" /\ Write(key[c], name[c]) /\ UNCHANGED reply
    <3>1. key[c] \in Keys /\ name[c] \in Names
      BY <2>2 DEF RepliesOffered
    <3>2. QED
      BY <1>5, <2>2, <3>1, WriteTyped DEF TypeOK, Execute, call
  <2>3. QED
    BY <1>5, <2>1, <2>2 DEF Execute
<1>6. ASSUME NEW c \in Callers, Break(c) PROVE TypeOK'
  <2>1. late' \subseteq Keys \X Names
    BY <1>6 DEF TypeOK, RepliesOffered, Break
  <2>2. pc[c] # "hit"
    BY <1>6 DEF RepliesOffered, Break
  <2>3. QED
    BY <1>6, <2>1, <2>2 DEF TypeOK, Break, call
<1>7. ASSUME NEW c \in Callers, Retry(c) PROVE TypeOK'
  BY <1>7, TriesAssumption DEF TypeOK, Retry, MayRetry, NextTry, call
<1>8. ASSUME NEW c \in Callers, Finish(c) PROVE TypeOK'
  BY <1>8, EndTyped DEF Finish, Found
<1>9. ASSUME NEW c \in Callers, GiveUp(c) PROVE TypeOK'
  BY <1>9, EndTyped DEF GiveUp
<1>10. ASSUME NEW c \in Callers, Leave(c) PROVE TypeOK'
  BY <1>10 DEF TypeOK, Leave
<1>11. CASE UNCHANGED vars
  BY <1>11 DEF TypeOK, vars, call
<1>12. QED
  BY <1>1, <1>2, <1>3, <1>4, <1>5, <1>6, <1>7, <1>8, <1>9, <1>10, <1>11
     DEF Next, Progress

LEMMA StepOffered == TypeOK /\ RepliesOffered /\ [Next]_vars => RepliesOffered'
<1> SUFFICES ASSUME TypeOK, RepliesOffered, [Next]_vars PROVE RepliesOffered'
  OBVIOUS
<1>1. ASSUME NEW ks \in SUBSET Keys, Forget(ks) PROVE RepliesOffered'
  BY <1>1 DEF TypeOK, RepliesOffered, Forget, call
<1>2. ASSUME NEW k \in Keys, NEW n \in Names, ExecuteLate(k, n) PROVE RepliesOffered'
  <2>1. UNCHANGED <<pc, key, name, command, reply>>
    BY <1>2 DEF ExecuteLate, call
  <2>2. CASE Write(k, n)
    BY <2>1, <2>2, WriteOffers DEF RepliesOffered
  <2>3. CASE UNCHANGED <<store, offered>>
    BY <2>1, <2>3 DEF RepliesOffered
  <2>4. QED
    BY <1>2, <2>2, <2>3 DEF ExecuteLate
<1>3. ASSUME NEW c \in Callers, NEW k \in Keys, PreferredBackend(c, k) PROVE RepliesOffered'
  BY <1>3 DEF TypeOK, RepliesOffered, PreferredBackend, Begin
<1>4. ASSUME NEW c \in Callers, NEW k \in Keys, NEW n \in Names, RememberBackend(c, k, n)
      PROVE  RepliesOffered'
  BY <1>4 DEF TypeOK, RepliesOffered, RememberBackend, Begin
<1>5. ASSUME NEW c \in Callers, Execute(c) PROVE RepliesOffered'
  <2>1. CASE pc[c] = "get" /\ reply' = [reply EXCEPT ![c] = store[key[c]]]
             /\ UNCHANGED <<store, offered>>
    BY <1>5, <2>1 DEF TypeOK, RepliesOffered, Execute, call
  <2>2. CASE pc[c] = "set" /\ Write(key[c], name[c]) /\ UNCHANGED reply
    <3>1. \A d \in Callers :
            /\ offered[d] \subseteq offered'[d]
            /\ pc[d] = "get" => store'[key[d]] \in offered'[d] \cup {None}
      BY <2>2, WriteOffers DEF RepliesOffered
    <3>2. QED
      BY <1>5, <2>2, <3>1 DEF TypeOK, RepliesOffered, Execute, call
  <2>3. QED
    BY <1>5, <2>1, <2>2 DEF Execute
<1>6. ASSUME NEW c \in Callers, Break(c) PROVE RepliesOffered'
  BY <1>6 DEF TypeOK, RepliesOffered, Break, call
<1>7. ASSUME NEW c \in Callers, Retry(c) PROVE RepliesOffered'
  BY <1>7 DEF TypeOK, RepliesOffered, Retry, call
<1>8. ASSUME NEW c \in Callers, Finish(c) PROVE RepliesOffered'
  BY <1>8 DEF TypeOK, RepliesOffered, Finish, Found, End
<1>9. ASSUME NEW c \in Callers, GiveUp(c) PROVE RepliesOffered'
  BY <1>9 DEF TypeOK, RepliesOffered, GiveUp, End
<1>10. ASSUME NEW c \in Callers, Leave(c) PROVE RepliesOffered'
  BY <1>10 DEF TypeOK, RepliesOffered, Leave
<1>11. CASE UNCHANGED vars
  BY <1>11 DEF RepliesOffered, vars, call
<1>12. QED
  BY <1>1, <1>2, <1>3, <1>4, <1>5, <1>6, <1>7, <1>8, <1>9, <1>10, <1>11
     DEF Next, Progress

(***************************************************************************)
(* The variables of the store and its client keep their types in every     *)
(* run, however commands are lost, late or repeated: in particular no      *)
(* command is sent more often than the client retries.                     *)
(***************************************************************************)
THEOREM RedisTypeCorrect == Spec => []TypeOK
<1>1. Init => TypeOK /\ RepliesOffered
  BY InitTyped, InitOffered
<1>2. TypeOK /\ RepliesOffered /\ [Next]_vars => TypeOK' /\ RepliesOffered'
  BY StepTyped, StepOffered
<1>3. QED
  BY <1>1, <1>2, PTL DEF Spec
-----------------------------------------------------------------------------
LEMMA InitRefines == Init => Abstraction!Init
BY DEF Init, Abstraction!Init, Stage, Asked, Answers, Looking

(* A write at the server, of a caller or late, is a Remember.              *)
LEMMA WriteRefines ==
  ASSUME TypeOK, NEW k \in Keys, NEW n \in Names, Write(k, n),
         UNCHANGED <<pc, key, reply>>
  PROVE  Abstraction!Next
<1>1. offered' = [c \in Callers |-> IF Stage[c] = "looking" /\ Asked[c] = k
                                    THEN offered[c] \cup {n} ELSE offered[c]]
  BY DEF Write, Stage, Asked, Looking, TypeOK
<1>2. UNCHANGED <<Stage, Asked, Answers>>
  BY DEF Stage, Asked, Answers, Looking
<1>3. Abstraction!Remember(k, n)
  BY <1>1, <1>2 DEF Write, Abstraction!Remember
<1>4. QED
  BY <1>3 DEF Abstraction!Next

(* The end of a call is a hit, a miss, or nothing if it was a write.       *)
LEMMA EndRefines ==
  ASSUME TypeOK, RepliesOffered, NEW c \in Callers, NEW stage \in {"hit", "missed"},
         pc[c] \in {"get", "set"}, End(c, stage), stage = "hit" => reply[c] # None
  PROVE  Abstraction!Next \/ UNCHANGED Abstraction!vars
<1>1. UNCHANGED <<store, offered, reply>>
  BY DEF End
<1>2. UNCHANGED Asked
  BY DEF End, Asked, Looking, TypeOK
<1>3. CASE pc[c] = "set"
  <2>1. UNCHANGED <<Stage, Answers>>
    BY <1>3 DEF End, Stage, Answers, TypeOK
  <2>2. QED
    BY <1>1, <1>2, <2>1 DEF Abstraction!vars
<1>4. CASE pc[c] = "get"
  <2>1. Stage[c] = "looking" /\ Stage' = [Stage EXCEPT ![c] = stage]
    BY <1>4 DEF End, Stage, TypeOK
  <2>2. CASE stage = "hit"
    <3>1. Answers' = [Answers EXCEPT ![c] = reply[c]]
      BY <1>1, <1>4, <2>2 DEF End, Answers, TypeOK
    <3>2. reply[c] \in offered[c] /\ reply[c] \in Names
      BY <2>2 DEF RepliesOffered, TypeOK
    <3>3. Abstraction!Hit(c, reply[c])
      BY <1>1, <1>2, <2>1, <2>2, <3>1, <3>2 DEF Abstraction!Hit
    <3>4. QED
      BY <3>2, <3>3 DEF Abstraction!Next
  <2>3. CASE stage = "missed"
    <3>1. UNCHANGED Answers
      BY <1>1, <1>4, <2>3 DEF End, Answers, TypeOK
    <3>2. Abstraction!Miss(c)
      BY <1>1, <1>2, <2>1, <2>3, <3>1 DEF Abstraction!Miss
    <3>3. QED
      BY <3>2 DEF Abstraction!Next
  <2>4. QED
    BY <2>2, <2>3
<1>5. QED
  BY <1>3, <1>4

LEMMA StepRefines ==
  TypeOK /\ RepliesOffered /\ [Next]_vars => [Abstraction!Next]_(Abstraction!vars)
<1> SUFFICES ASSUME TypeOK, RepliesOffered, [Next]_vars
             PROVE  Abstraction!Next \/ UNCHANGED Abstraction!vars
  BY DEF Abstraction!vars
<1>1. ASSUME NEW ks \in SUBSET Keys, Forget(ks) PROVE Abstraction!Next
  <2>1. UNCHANGED <<Stage, Asked, Answers>>
    BY <1>1 DEF Forget, call, Stage, Asked, Answers, Looking
  <2>2. Abstraction!Forget(ks)
    BY <1>1, <2>1 DEF Forget, Abstraction!Forget
  <2>3. QED
    BY <2>2 DEF Abstraction!Next
<1>2. ASSUME NEW k \in Keys, NEW n \in Names, ExecuteLate(k, n)
      PROVE  Abstraction!Next \/ UNCHANGED Abstraction!vars
  <2>1. UNCHANGED <<pc, key, reply>>
    BY <1>2 DEF ExecuteLate, call
  <2>2. CASE Write(k, n)
    BY <2>1, <2>2, WriteRefines
  <2>3. CASE UNCHANGED <<store, offered>>
    BY <2>1, <2>3 DEF Abstraction!vars, Stage, Asked, Answers, Looking
  <2>4. QED
    BY <1>2, <2>2, <2>3 DEF ExecuteLate
<1>3. ASSUME NEW c \in Callers, NEW k \in Keys, PreferredBackend(c, k)
      PROVE  Abstraction!Next
  <2>1. Stage[c] = "idle" /\ Stage' = [Stage EXCEPT ![c] = "looking"]
    BY <1>3 DEF PreferredBackend, Begin, Stage, TypeOK
  <2>2. Asked' = [Asked EXCEPT ![c] = k]
    BY <1>3 DEF PreferredBackend, Begin, Asked, Looking, TypeOK
  <2>3. UNCHANGED <<store, Answers>>
    BY <1>3 DEF PreferredBackend, Begin, Answers, TypeOK
  <2>4. Abstraction!Lookup(c, k)
    BY <1>3, <2>1, <2>2, <2>3 DEF PreferredBackend, Abstraction!Lookup
  <2>5. QED
    BY <2>4 DEF Abstraction!Next
<1>4. ASSUME NEW c \in Callers, NEW k \in Keys, NEW n \in Names, RememberBackend(c, k, n)
      PROVE  UNCHANGED Abstraction!vars
  <2>1. UNCHANGED <<Stage, Asked, Answers>>
    BY <1>4 DEF RememberBackend, Begin, Stage, Asked, Answers, Looking, TypeOK
  <2>2. QED
    BY <1>4, <2>1 DEF RememberBackend, Begin, Abstraction!vars
<1>5. ASSUME NEW c \in Callers, Execute(c)
      PROVE  Abstraction!Next \/ UNCHANGED Abstraction!vars
  <2>1. UNCHANGED <<pc, key>>
    BY <1>5 DEF Execute, call
  <2>2. CASE pc[c] = "get" /\ reply' = [reply EXCEPT ![c] = store[key[c]]]
             /\ UNCHANGED <<store, offered>>
    <3>1. UNCHANGED <<Stage, Asked, Answers>>
      BY <2>1, <2>2 DEF Stage, Asked, Answers, Looking, TypeOK
    <3>2. QED
      BY <2>2, <3>1 DEF Abstraction!vars
  <2>3. CASE pc[c] = "set" /\ Write(key[c], name[c]) /\ UNCHANGED reply
    <3>1. key[c] \in Keys /\ name[c] \in Names
      BY <2>3 DEF RepliesOffered
    <3>2. QED
      BY <2>1, <2>3, <3>1, WriteRefines
  <2>4. QED
    BY <1>5, <2>2, <2>3 DEF Execute
<1>6. ASSUME NEW c \in Callers, Break(c) PROVE UNCHANGED Abstraction!vars
  <2>1. pc[c] # "hit"
    BY <1>6 DEF Break, RepliesOffered
  <2>2. UNCHANGED <<Stage, Asked, Answers>>
    BY <1>6, <2>1 DEF Break, call, Stage, Asked, Answers, Looking, TypeOK
  <2>3. QED
    BY <1>6, <2>2 DEF Break, Abstraction!vars
<1>7. ASSUME NEW c \in Callers, Retry(c) PROVE UNCHANGED Abstraction!vars
  BY <1>7 DEF Retry, call, Abstraction!vars, Stage, Asked, Answers, Looking
<1>8. ASSUME NEW c \in Callers, Finish(c)
      PROVE  Abstraction!Next \/ UNCHANGED Abstraction!vars
  <2>1. pc[c] \in {"get", "set"}
    BY <1>8 DEF Finish, RepliesOffered
  <2>2. QED
    BY <1>8, <2>1, EndRefines DEF Finish, Found
<1>9. ASSUME NEW c \in Callers, GiveUp(c)
      PROVE  Abstraction!Next \/ UNCHANGED Abstraction!vars
  <2>1. pc[c] \in {"get", "set"}
    BY <1>9 DEF GiveUp, RepliesOffered
  <2>2. QED
    BY <1>9, <2>1, EndRefines DEF GiveUp
<1>10. ASSUME NEW c \in Callers, Leave(c) PROVE Abstraction!Next
  <2>1. Stage[c] \in {"hit", "missed"} /\ Stage' = [Stage EXCEPT ![c] = "idle"]
    BY <1>10 DEF Leave, Stage, TypeOK
  <2>2. Asked' = [Asked EXCEPT ![c] = None]
    BY <1>10 DEF Leave, Asked, Looking, TypeOK
  <2>3. Answers' = [Answers EXCEPT ![c] = None]
    BY <1>10 DEF Leave, Answers, TypeOK
  <2>4. Abstraction!Leave(c)
    BY <1>10, <2>1, <2>2, <2>3 DEF Leave, Abstraction!Leave
  <2>5. QED
    BY <2>4 DEF Abstraction!Next
<1>11. CASE UNCHANGED vars
  BY <1>11 DEF vars, call, Abstraction!vars, Stage, Asked, Answers, Looking
<1>12. QED
  BY <1>1, <1>2, <1>3, <1>4, <1>5, <1>6, <1>7, <1>8, <1>9, <1>10, <1>11
     DEF Next, Progress

(***************************************************************************)
(* RedisStore implements AffinityStore for any number of callers, keys,    *)
(* names and retries: with commands lost, repeated and executed long after *)
(* they were given up, and a server that may forget, a hit still names an  *)
(* entry that the key had during the call.                                 *)
(***************************************************************************)
THEOREM RedisImplementsAffinity == Spec => ImplementsAffinity
<1>1. Init => TypeOK /\ RepliesOffered /\ Abstraction!Init
  BY InitTyped, InitOffered, InitRefines
<1>2. TypeOK /\ RepliesOffered /\ [Next]_vars => TypeOK' /\ RepliesOffered'
  BY StepTyped, StepOffered
<1>3. QED
  BY <1>1, <1>2, StepRefines, PTL DEF Spec, ImplementsAffinity, Abstraction!Spec
=============================================================================
