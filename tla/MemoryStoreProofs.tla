------------------------- MODULE MemoryStoreProofs -------------------------
(* Theorems about MemoryStore, for any keys, names, lifetimes and clock.   *)
EXTENDS MemoryStore, TLAPS

LEMMA InitTyped == Init => TypeOK
BY TimeAssumption DEF Init, TypeOK, Looking

LEMMA StepTyped == TypeOK /\ [Next]_vars => TypeOK'
<1> SUFFICES ASSUME TypeOK, [Next]_vars PROVE TypeOK'
  OBVIOUS
<1> USE DEF Looking
<1>1. CASE Tick
  BY <1>1, TimeAssumption DEF TypeOK, Tick
<1>2. ASSUME NEW raw \in RawKeys, NEW name \in Names \cup {None}, NEW ttl \in TTLs,
             RememberBackend(raw, name, ttl)
      PROVE  TypeOK'
  <2>1. Trimmed[raw] \in Keys /\ name \in Names
    BY <1>2, TrimmedAssumption DEF RememberBackend
  <2>2. now + Lifetime(ttl) \in Nat
    BY TTLAssumption, TimeAssumption DEF TypeOK, Lifetime
  <2>3. [backend |-> name, expiresAt |-> now + Lifetime(ttl)] \in Entries
    BY <2>1, <2>2 DEF Entries
  <2>4. entries' \in [Keys -> Entries \cup {NoEntry}]
    BY <1>2, <2>1, <2>3 DEF TypeOK, RememberBackend
  <2>5. offered' \in [Callers -> SUBSET Names] /\ kept' \in [Callers -> BOOLEAN]
    BY <1>2, <2>1 DEF TypeOK, RememberBackend
  <2>6. QED
    BY <1>2, <2>4, <2>5 DEF TypeOK, RememberBackend
<1>3. ASSUME NEW c \in Callers, NEW raw \in RawKeys, Lookup(c, raw)
      PROVE  TypeOK'
  <2>1. Trimmed[raw] \in Keys
    BY <1>3, TrimmedAssumption DEF Lookup
  <2>2. Live(entries[Trimmed[raw]]) => entries[Trimmed[raw]].backend \in Names
    BY <2>1 DEF TypeOK, Live, Entries
  <2>3. Live(entries[Trimmed[raw]]) \in BOOLEAN
    BY DEF Live
  <2>4. offered' \in [Callers -> SUBSET Names]
    BY <1>3, <2>2 DEF TypeOK, Lookup
  <2>5. kept' \in [Callers -> BOOLEAN]
    BY <1>3, <2>3 DEF TypeOK, Lookup
  <2>6. QED
    BY <1>3, <2>1, <2>4, <2>5 DEF TypeOK, Lookup
<1>4. ASSUME NEW c \in Callers, Read(c)
      PROVE  TypeOK'
  BY <1>4 DEF TypeOK, Read, history
<1>5. ASSUME NEW c \in Callers, CheckExpiry(c)
      PROVE  TypeOK'
  BY <1>5 DEF TypeOK, CheckExpiry, history
<1>6. ASSUME NEW c \in Callers, Delete(c)
      PROVE  TypeOK'
  BY <1>6 DEF TypeOK, Delete
<1>7. ASSUME NEW c \in Callers, Leave(c)
      PROVE  TypeOK'
  BY <1>7 DEF TypeOK, Leave
<1>8. CASE UNCHANGED vars
  BY <1>8 DEF TypeOK, vars, history
<1>9. QED
  BY <1>1, <1>2, <1>3, <1>4, <1>5, <1>6, <1>7, <1>8 DEF Next

(***************************************************************************)
(* The variables of the store keep their types in every run: whatever ttl  *)
(* it is given, an entry expires at a time that is not in the past of the  *)
(* clock's zero, and a lookup under way has a key.                         *)
(***************************************************************************)
THEOREM StoreTypeCorrect == Spec => []TypeOK
BY InitTyped, StepTyped, PTL DEF Spec

-----------------------------------------------------------------------------
LEMMA InitOffersSeen == Init => OffersSeen
BY DEF Init, OffersSeen, Looking

(* Time passing makes nothing live. *)
LEMMA StepOffersSeen == TypeOK /\ OffersSeen /\ [Next]_vars => OffersSeen'
<1> SUFFICES ASSUME TypeOK, OffersSeen, [Next]_vars PROVE OffersSeen'
  OBVIOUS
<1> USE DEF Looking
<1>1. CASE Tick
  <2>1. \A e \in Entries : Live(e)' => Live(e)
    BY <1>1, TimeAssumption DEF Tick, Live, Entries, TypeOK
  <2>2. \A e \in Entries \cup {NoEntry} : Live(e)' => Live(e)
    BY <2>1 DEF Live
  <2>3. QED
    BY <1>1, <2>2 DEF Tick, TypeOK, OffersSeen
<1>2. ASSUME NEW raw \in RawKeys, NEW name \in Names \cup {None}, NEW ttl \in TTLs,
             RememberBackend(raw, name, ttl)
      PROVE  OffersSeen'
  <2> DEFINE k == Trimmed[raw]
  <2>1. k \in Keys /\ name \in Names
    BY <1>2, TrimmedAssumption DEF RememberBackend
  <2>2. entries'[k].backend = name /\ \A j \in Keys \ {k} : entries'[j] = entries[j]
    BY <1>2, <2>1 DEF RememberBackend, TypeOK
  <2>3. \A e : Live(e)' <=> Live(e)
    BY <1>2 DEF RememberBackend, Live
  <2>4. \A c \in Callers : offered[c] \subseteq offered'[c]
    BY <1>2 DEF RememberBackend, TypeOK
  <2>5. \A c \in Callers : pc[c] \in Looking /\ key[c] = k => name \in offered'[c]
    BY <1>2 DEF RememberBackend, Overlapping
  <2>6. UNCHANGED <<now, pc, key, entry>>
    BY <1>2 DEF RememberBackend
  <2> HIDE DEF k
  <2>7. ASSUME NEW c \in Callers, pc'[c] \in Looking, Live(entries[key[c]])'
        PROVE  entries'[key'[c]].backend \in offered'[c]
    <3>1. CASE key[c] = k
      BY <2>2, <2>5, <2>6, <2>7, <3>1
    <3>2. CASE key[c] # k
      <4>1. key[c] \in Keys /\ entries'[key'[c]] = entries[key[c]]
        BY <2>2, <2>6, <2>7, <3>2 DEF TypeOK
      <4>2. Live(entries[key[c]])
        BY <2>6, <2>7, <4>1 DEF Live
      <4>3. QED
        BY <2>4, <2>6, <2>7, <4>1, <4>2 DEF OffersSeen
    <3>3. QED
      BY <3>1, <3>2
  <2>8. ASSUME NEW c \in Callers, pc'[c] = "date", Live(entry[c])'
        PROVE  entry'[c].backend \in offered'[c]
    BY <2>4, <2>6, <2>8 DEF OffersSeen, Live
  <2>9. QED
    BY <2>7, <2>8 DEF OffersSeen
<1>3. ASSUME NEW c \in Callers, NEW raw \in RawKeys, Lookup(c, raw)
      PROVE  OffersSeen'
  BY <1>3 DEF Lookup, OffersSeen, TypeOK, Live
<1>4. ASSUME NEW c \in Callers, Read(c)
      PROVE  OffersSeen'
  BY <1>4 DEF Read, OffersSeen, TypeOK, Live, history
<1>5. ASSUME NEW c \in Callers, CheckExpiry(c)
      PROVE  OffersSeen'
  BY <1>5 DEF CheckExpiry, OffersSeen, TypeOK, Live, history
<1>6. ASSUME NEW c \in Callers, Delete(c)
      PROVE  OffersSeen'
  BY <1>6 DEF Delete, OffersSeen, TypeOK, Live
<1>7. ASSUME NEW c \in Callers, Leave(c)
      PROVE  OffersSeen'
  BY <1>7 DEF Leave, OffersSeen, TypeOK, Live
<1>8. CASE UNCHANGED vars
  BY <1>8 DEF OffersSeen, vars, history, Live
<1>9. QED
  BY <1>1, <1>2, <1>3, <1>4, <1>5, <1>6, <1>7, <1>8 DEF Next

-----------------------------------------------------------------------------
LEMMA InitRefines == Init => Abstraction!Init
BY DEF Init, Abstraction!Init, Preferences, Stage, Answers, Live, Looking

LEMMA StepRefines ==
  TypeOK /\ OffersSeen /\ [Next]_vars => [Abstraction!Next]_(Abstraction!vars)
<1> SUFFICES ASSUME TypeOK, OffersSeen, [Next]_vars
             PROVE  Abstraction!Next \/ UNCHANGED Abstraction!vars
  BY DEF Abstraction!vars
<1> USE DEF Looking
<1>1. CASE Tick
  <2> DEFINE ks == {k \in Keys : ~Live(entries[k])'}
  <2>1. Abstraction!Forget(ks)
    <3>1. Preferences' = [k \in Keys |-> IF k \in ks THEN None ELSE Preferences[k]]
      BY <1>1, TimeAssumption DEF Tick, Preferences, Live, TypeOK, Entries
    <3>2. UNCHANGED <<Stage, key, Answers, offered>>
      BY <1>1 DEF Tick, Stage, Answers
    <3>3. QED
      BY <3>1, <3>2 DEF Abstraction!Forget
  <2>2. QED
    BY <2>1 DEF Abstraction!Next
<1>2. ASSUME NEW raw \in RawKeys, NEW name \in Names \cup {None}, NEW ttl \in TTLs,
             RememberBackend(raw, name, ttl)
      PROVE  Abstraction!Next
  <2> DEFINE k == Trimmed[raw]
  <2>1. k \in Keys /\ name \in Names
    BY <1>2, TrimmedAssumption DEF RememberBackend
  <2>2. Lifetime(ttl) \in Nat
    BY TTLAssumption DEF Lifetime
  <2>3. Preferences' = [Preferences EXCEPT ![k] = name]
    <3> DEFINE e == [backend |-> name, expiresAt |-> now + Lifetime(ttl)]
    <3>1. entries' = [entries EXCEPT ![k] = e] /\ now' = now
      BY <1>2 DEF RememberBackend
    <3>2. e # NoEntry /\ e.backend = name /\ now <= e.expiresAt
      BY <2>1, <2>2, NoneAssumption, TimeAssumption DEF NoEntry, TypeOK
    <3> HIDE DEF e, k
    <3>3. QED
      BY <2>1, <3>1, <3>2 DEF Preferences, Live, TypeOK
  <2>4. offered' = [c \in Callers |->
                      IF Stage[c] = "looking" /\ key[c] = k
                      THEN offered[c] \cup {name} ELSE offered[c]]
    BY <1>2 DEF RememberBackend, Overlapping, Stage, TypeOK
  <2>5. UNCHANGED <<Stage, key, Answers>>
    BY <1>2 DEF RememberBackend, Stage, Answers
  <2>6. Abstraction!Remember(k, name)
    BY <2>3, <2>4, <2>5 DEF Abstraction!Remember
  <2>7. QED
    BY <2>1, <2>6 DEF Abstraction!Next
<1>3. ASSUME NEW c \in Callers, NEW raw \in RawKeys, Lookup(c, raw)
      PROVE  Abstraction!Next
  <2> DEFINE k == Trimmed[raw]
  <2>1. k \in Keys
    BY <1>3, TrimmedAssumption DEF Lookup
  <2>2. Stage[c] = "idle" /\ Stage' = [Stage EXCEPT ![c] = "looking"]
    BY <1>3 DEF Lookup, Stage, TypeOK
  <2>3. offered' = [offered EXCEPT ![c] = {Preferences[k]} \ {None}]
    <3>1. CASE Live(entries[k])
      <4>1. entries[k].backend \in Names
        BY <2>1, <3>1 DEF TypeOK, Live, Entries
      <4>2. {Preferences[k]} \ {None} = {entries[k].backend}
        BY <2>1, <3>1, <4>1, NoneAssumption DEF Preferences
      <4>3. QED
        BY <1>3, <3>1, <4>2 DEF Lookup
    <3>2. CASE ~Live(entries[k])
      <4>1. {Preferences[k]} \ {None} = {}
        BY <2>1, <3>2 DEF Preferences
      <4>2. QED
        BY <1>3, <3>2, <4>1 DEF Lookup
    <3>3. QED
      BY <3>1, <3>2
  <2>4. UNCHANGED <<Preferences, Answers>>
    BY <1>3 DEF Lookup, Preferences, Answers, Live, TypeOK
  <2>5. Abstraction!Lookup(c, k)
    BY <1>3, <2>2, <2>3, <2>4 DEF Lookup, Abstraction!Lookup
  <2>6. QED
    BY <2>1, <2>5 DEF Abstraction!Next
<1>4. ASSUME NEW c \in Callers, Read(c)
      PROVE  Abstraction!Next \/ UNCHANGED Abstraction!vars
  <2>1. UNCHANGED <<Preferences, Answers, key, offered>>
    BY <1>4 DEF Read, Preferences, Answers, Live, TypeOK, history
  <2>2. CASE entries[key[c]] = NoEntry
    <3>1. Stage[c] = "looking" /\ Stage' = [Stage EXCEPT ![c] = "missed"]
      BY <1>4, <2>2 DEF Read, Stage, TypeOK
    <3>2. Abstraction!Miss(c)
      BY <2>1, <3>1 DEF Abstraction!Miss
    <3>3. QED
      BY <3>2 DEF Abstraction!Next
  <2>3. CASE entries[key[c]] # NoEntry
    <3>1. UNCHANGED Stage
      BY <1>4, <2>3 DEF Read, Stage, TypeOK
    <3>2. QED
      BY <2>1, <3>1 DEF Abstraction!vars
  <2>4. QED
    BY <2>2, <2>3
<1>5. ASSUME NEW c \in Callers, CheckExpiry(c)
      PROVE  Abstraction!Next \/ UNCHANGED Abstraction!vars
  <2>1. UNCHANGED <<Preferences, key, offered>>
    BY <1>5 DEF CheckExpiry, Preferences, Live, history
  <2>2. CASE Expired(entry[c])
    <3>1. UNCHANGED <<Stage, Answers>>
      BY <1>5, <2>2 DEF CheckExpiry, Stage, Answers, TypeOK
    <3>2. QED
      BY <2>1, <3>1 DEF Abstraction!vars
  <2>3. CASE ~Expired(entry[c])
    <3>1. Stage[c] = "looking" /\ Stage' = [Stage EXCEPT ![c] = "hit"]
      BY <1>5, <2>3 DEF CheckExpiry, Stage, TypeOK
    <3>2. Answers' = [Answers EXCEPT ![c] = entry[c].backend]
      BY <1>5, <2>3 DEF CheckExpiry, Answers, TypeOK
    <3>3. Live(entry[c])
      <4>1. entry[c] \in Entries /\ now \in Int
        BY <1>5, TimeAssumption DEF CheckExpiry, TypeOK
      <4>2. entry[c].backend \in Names /\ entry[c].expiresAt \in Int
        BY <4>1 DEF Entries
      <4>3. entry[c] # NoEntry
        BY <4>2, NoneAssumption DEF NoEntry
      <4>4. QED
        BY <2>3, <4>1, <4>2, <4>3 DEF Expired, Live
    <3>4. entry[c].backend \in offered[c] /\ offered[c] \subseteq Names
      BY <1>5, <3>3 DEF CheckExpiry, OffersSeen, TypeOK
    <3>5. Abstraction!Hit(c, entry[c].backend)
      BY <2>1, <3>1, <3>2, <3>4 DEF Abstraction!Hit
    <3>6. QED
      BY <3>4, <3>5 DEF Abstraction!Next
  <2>4. QED
    BY <2>2, <2>3
<1>6. ASSUME NEW c \in Callers, Delete(c)
      PROVE  Abstraction!Next
  <2>1. Stage[c] = "looking" /\ Stage' = [Stage EXCEPT ![c] = "missed"]
    BY <1>6 DEF Delete, Stage, TypeOK
  <2>2. Preferences' = [Preferences EXCEPT ![key[c]] = None]
    BY <1>6 DEF Delete, Preferences, Live, TypeOK
  <2>3. UNCHANGED <<key, Answers, offered>>
    BY <1>6 DEF Delete, Answers, TypeOK
  <2>4. Abstraction!Miss(c)
    BY <2>1, <2>2, <2>3 DEF Abstraction!Miss
  <2>5. QED
    BY <2>4 DEF Abstraction!Next
<1>7. ASSUME NEW c \in Callers, Leave(c)
      PROVE  Abstraction!Next
  <2>1. Stage[c] \in {"hit", "missed"} /\ Stage' = [Stage EXCEPT ![c] = "idle"]
    BY <1>7 DEF Leave, Stage, TypeOK
  <2>2. Answers' = [Answers EXCEPT ![c] = None]
    BY <1>7 DEF Leave, Answers, TypeOK
  <2>3. UNCHANGED Preferences
    BY <1>7 DEF Leave, Preferences, Live
  <2>4. Abstraction!Leave(c)
    BY <1>7, <2>1, <2>2, <2>3 DEF Leave, Abstraction!Leave
  <2>5. QED
    BY <2>4 DEF Abstraction!Next
<1>8. CASE UNCHANGED vars
  BY <1>8 DEF vars, history, Abstraction!vars, Preferences, Stage, Answers, Live
<1>9. QED
  BY <1>1, <1>2, <1>3, <1>4, <1>5, <1>6, <1>7, <1>8 DEF Next

(***************************************************************************)
(* MemoryStore implements AffinityStore for any number of callers, keys    *)
(* and names and any lifetimes: the window between the read of an entry    *)
(* and the use of it never makes a hit name a backend that was not the     *)
(* live preference of the key during the call.                             *)
(***************************************************************************)
THEOREM StoreImplementsAffinity == Spec => ImplementsAffinity
<1>1. Init => TypeOK /\ OffersSeen /\ Abstraction!Init
  BY InitTyped, InitOffersSeen, InitRefines
<1>2. TypeOK /\ OffersSeen /\ [Next]_vars => TypeOK' /\ OffersSeen'
  BY StepTyped, StepOffersSeen
<1>3. QED
  BY <1>1, <1>2, StepRefines, PTL DEF Spec, ImplementsAffinity, Abstraction!Spec

-----------------------------------------------------------------------------
LEMMA StepStandingEntry ==
  TypeOK /\ StandingEntry /\ [Next]_vars => StandingEntry'
<1> SUFFICES ASSUME TypeOK, StandingEntry, [Next]_vars PROVE StandingEntry'
  OBVIOUS
<1> USE DEF Looking
<1>1. CASE Tick
  BY <1>1, TimeAssumption DEF Tick, StandingEntry, TypeOK, Live
<1>2. ASSUME NEW raw \in RawKeys, NEW name \in Names \cup {None}, NEW ttl \in TTLs,
             RememberBackend(raw, name, ttl)
      PROVE  StandingEntry'
  BY <1>2, TrimmedAssumption DEF RememberBackend, Overlapping, StandingEntry, TypeOK, Live
<1>3. ASSUME NEW c \in Callers, NEW raw \in RawKeys, Lookup(c, raw)
      PROVE  StandingEntry'
  BY <1>3, TrimmedAssumption DEF Lookup, StandingEntry, TypeOK, Live
<1>4. ASSUME NEW c \in Callers, Read(c)
      PROVE  StandingEntry'
  BY <1>4 DEF Read, StandingEntry, TypeOK, Live, history
<1>5. ASSUME NEW c \in Callers, CheckExpiry(c)
      PROVE  StandingEntry'
  <2>1. kept[c] => ~Expired(entry[c])
    <3> SUFFICES ASSUME kept[c] PROVE ~(now > entry[c].expiresAt)
      BY DEF Expired
    <3>1. now <= entry[c].expiresAt /\ entry[c] \in Entries
      BY <1>5 DEF CheckExpiry, StandingEntry, TypeOK, Live
    <3>2. now \in Int /\ entry[c].expiresAt \in Int
      BY <3>1, TimeAssumption DEF TypeOK, Entries
    <3>3. QED
      BY <3>1, <3>2
  <2>2. QED
    BY <1>5, <2>1 DEF CheckExpiry, StandingEntry, TypeOK, Live, history
<1>6. ASSUME NEW c \in Callers, Delete(c)
      PROVE  StandingEntry'
  BY <1>6 DEF Delete, Overlapping, StandingEntry, TypeOK, Live
<1>7. ASSUME NEW c \in Callers, Leave(c)
      PROVE  StandingEntry'
  BY <1>7 DEF Leave, StandingEntry, TypeOK, Live
<1>8. CASE UNCHANGED vars
  BY <1>8 DEF StandingEntry, vars, history, Live
<1>9. QED
  BY <1>1, <1>2, <1>3, <1>4, <1>5, <1>6, <1>7, <1>8 DEF Next

(***************************************************************************)
(* A lookup of a key whose live entry nobody touches, and which does not   *)
(* expire before the lookup is over, always hits.                          *)
(***************************************************************************)
THEOREM SteadyEntriesHit == Spec => []SteadyEntryHits
<1>1. Init => TypeOK /\ StandingEntry
  BY InitTyped DEF Init, StandingEntry
<1>2. TypeOK /\ StandingEntry /\ [Next]_vars => TypeOK' /\ StandingEntry'
  BY StepTyped, StepStandingEntry
<1>3. StandingEntry => SteadyEntryHits
  BY DEF StandingEntry, SteadyEntryHits
<1>4. QED
  BY <1>1, <1>2, <1>3, PTL DEF Spec
=============================================================================
