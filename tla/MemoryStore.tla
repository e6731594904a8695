---------------------------- MODULE MemoryStore ----------------------------
(***************************************************************************)
(* cache.MemoryStore: a map of entries with an expiry time, shared by all  *)
(* requests.  RememberBackend writes under the write lock.  A lookup is    *)
(* not one critical section: it reads the entry under the read lock,       *)
(* compares its expiry with the clock after the lock is gone, and deletes  *)
(* the key under the write lock without looking at what the key holds now. *)
(***************************************************************************)
EXTENDS Integers

CONSTANTS
    Callers,      \* the requests that look keys up
    RawKeys,      \* keys as the callers spell them
    Keys,         \* keys after strings.TrimSpace
    Trimmed,      \* strings.TrimSpace: a raw key to a key, or None when blank
    Names,        \* the backend names
    TTLs,         \* the ttl arguments of RememberBackend
    DefaultTTL,   \* the ten minutes that stand in for a ttl that is not positive
    MaxTime,      \* bound: the clock stops here
    None          \* the blank string, no entry, no key

ASSUME TrimmedAssumption == Trimmed \in [RawKeys -> Keys \cup {None}]
ASSUME NoneAssumption == None \notin Keys \cup Names
ASSUME TTLAssumption == TTLs \subseteq Int /\ DefaultTTL \in Nat \ {0}
ASSUME TimeAssumption == MaxTime \in Nat

Entries == [backend : Names, expiresAt : Nat]

(* No entry for a key is an entry that names no backend. *)
NoEntry == [backend |-> None, expiresAt |-> 0]

VARIABLES
    now,          \* the clock
    entries,      \* s.entries
    pc,           \* where each caller is
    key,          \* local: the trimmed key of the lookup
    entry,        \* local: the entry that was read
    offered,      \* history: live backends of the key during the lookup
    kept          \* history: one live entry stood untouched during the lookup

history == <<offered, kept>>
vars == <<now, entries, pc, key, entry, history>>

Looking == {"read", "date", "delete"}

TypeOK ==
    /\ now \in 0..MaxTime
    /\ entries \in [Keys -> Entries \cup {NoEntry}]
    /\ pc \in [Callers -> Looking \cup {"idle", "hit", "missed"}]
    /\ key \in [Callers -> Keys \cup {None}]
    /\ entry \in [Callers -> Entries \cup {NoEntry}]
    /\ offered \in [Callers -> SUBSET Names]
    /\ kept \in [Callers -> BOOLEAN]
    /\ \A c \in Callers : pc[c] \in Looking => key[c] \in Keys
    /\ \A c \in Callers : pc[c] \in {"date", "delete", "hit"} => entry[c] \in Entries

(* The entry e names a live preference: time.Now() is not after its expiry. *)
Live(e) == e # NoEntry /\ now <= e.expiresAt

Init ==
    /\ now = 0
    /\ entries = [k \in Keys |-> NoEntry]
    /\ pc = [c \in Callers |-> "idle"]
    /\ key = [c \in Callers |-> None]
    /\ entry = [c \in Callers |-> NoEntry]
    /\ offered = [c \in Callers |-> {}]
    /\ kept = [c \in Callers |-> FALSE]

-----------------------------------------------------------------------------
(* The lookups under way of a key whose entry was just written or deleted. *)
Overlapping(k) == {c \in Callers : pc[c] \in Looking /\ key[c] = k}

Tick ==
    /\ now < MaxTime
    /\ now' = now + 1
    /\ kept' = [c \in Callers |-> kept[c] /\ entries[key[c]].expiresAt >= now + 1]
    /\ UNCHANGED <<entries, pc, key, entry, offered>>

(* Mutant: a ttl that is not positive is taken as it is. *)
LifetimeRaw(ttl) == ttl

Lifetime(ttl) == IF ttl <= 0 THEN DefaultTTL ELSE ttl

(* RememberBackend, for a key and a name that are not blank. *)
RememberBackend(raw, name, ttl) ==
    LET k == Trimmed[raw]
    IN  /\ k # None /\ name # None
        /\ entries' = [entries EXCEPT ![k] =
                         [backend |-> name, expiresAt |-> now + Lifetime(ttl)]]
        /\ offered' = [c \in Callers |->
                         IF c \in Overlapping(k) THEN offered[c] \cup {name}
                                                 ELSE offered[c]]
        /\ kept' = [c \in Callers |-> kept[c] /\ c \notin Overlapping(k)]
        /\ UNCHANGED <<now, pc, key, entry>>

(* PreferredBackend is called; a blank key is a miss that touches nothing. *)
Lookup(c, raw) ==
    LET k == Trimmed[raw]
    IN  /\ pc[c] = "idle"
        /\ k # None
        /\ pc' = [pc EXCEPT ![c] = "read"]
        /\ key' = [key EXCEPT ![c] = k]
        /\ offered' = [offered EXCEPT ![c] =
                         IF Live(entries[k]) THEN {entries[k].backend} ELSE {}]
        /\ kept' = [kept EXCEPT ![c] = Live(entries[k])]
        /\ UNCHANGED <<now, entries, entry>>

(* The entry is read under the read lock. *)
Read(c) ==
    /\ pc[c] = "read"
    /\ entry' = [entry EXCEPT ![c] = entries[key[c]]]
    /\ pc' = [pc EXCEPT ![c] = IF entries[key[c]] = NoEntry THEN "missed" ELSE "date"]
    /\ UNCHANGED <<now, entries, key, history>>

(* Mutants: the expiry is not looked at; it is excluded from the lifetime. *)
ExpiredNever(e) == FALSE
ExpiredEarly(e) == now >= e.expiresAt

(* time.Now().After(entry.expiresAt) *)
Expired(e) == now > e.expiresAt

(* The expiry is compared with no lock held. *)
CheckExpiry(c) ==
    /\ pc[c] = "date"
    /\ pc' = [pc EXCEPT ![c] = IF Expired(entry[c]) THEN "delete" ELSE "hit"]
    /\ UNCHANGED <<now, entries, key, entry, history>>

(* The key is deleted under the write lock, whatever it holds by now. *)
Delete(c) ==
    /\ pc[c] = "delete"
    /\ entries' = [entries EXCEPT ![key[c]] = NoEntry]
    /\ pc' = [pc EXCEPT ![c] = "missed"]
    /\ kept' = [d \in Callers |-> kept[d] /\ d \notin Overlapping(key[c])]
    /\ UNCHANGED <<now, key, entry, offered>>

(* The caller goes on with the answer; its locals are gone. *)
Leave(c) ==
    /\ pc[c] \in {"hit", "missed"}
    /\ pc' = [pc EXCEPT ![c] = "idle"]
    /\ key' = [key EXCEPT ![c] = None]
    /\ entry' = [entry EXCEPT ![c] = NoEntry]
    /\ offered' = [offered EXCEPT ![c] = {}]
    /\ kept' = [kept EXCEPT ![c] = FALSE]
    /\ UNCHANGED <<now, entries>>

Next ==
    \/ Tick
    \/ \E raw \in RawKeys, name \in Names \cup {None}, ttl \in TTLs : RememberBackend(raw, name, ttl)
    \/ \E c \in Callers :
        \/ \E raw \in RawKeys : Lookup(c, raw)
        \/ Read(c)
        \/ CheckExpiry(c)
        \/ Delete(c)
        \/ Leave(c)

Spec == Init /\ [][Next]_vars

-----------------------------------------------------------------------------
(* What makes the refinement inductive: the live entry of a key is known   *)
(* to each lookup of it, and so is an entry it read that has not expired.  *)
OffersSeen ==
    \A c \in Callers :
        /\ pc[c] \in Looking /\ Live(entries[key[c]]) =>
               entries[key[c]].backend \in offered[c]
        /\ pc[c] = "date" /\ Live(entry[c]) => entry[c].backend \in offered[c]

(* What makes SteadyEntryHits inductive: while the entry stands, the       *)
(* lookup finds it live, and what it read is that entry.                   *)
StandingEntry ==
    \A c \in Callers : kept[c] =>
        /\ pc[c] \in {"read", "date", "hit"}
        /\ pc[c] \in Looking => Live(entries[key[c]])
        /\ pc[c] = "date" => entry[c] = entries[key[c]]

(* The refinement mapping. *)
Preferences == [k \in Keys |-> IF Live(entries[k]) THEN entries[k].backend ELSE None]
Stage == [c \in Callers |-> IF pc[c] \in Looking THEN "looking" ELSE pc[c]]
Answers == [c \in Callers |-> IF pc[c] = "hit" THEN entry[c].backend ELSE None]

Abstraction == INSTANCE AffinityStore
    WITH pref <- Preferences, stage <- Stage, answer <- Answers

(***************************************************************************)
(* The store is a faithful hint: a hit returns a backend that was the live *)
(* preference of the key at an instant of the call.  In particular neither *)
(* an entry that expired before the call, nor one that was overwritten     *)
(* before it, nor that of another key is ever returned.                    *)
(***************************************************************************)
ImplementsAffinity == Abstraction!Spec

(***************************************************************************)
(* A lookup during which one live entry of the key stood untouched hits:   *)
(* the two separate critical sections lose nothing unless an expiry, a     *)
(* write or another lookup's delete falls into the call (memory.go:32-41). *)
(***************************************************************************)
SteadyEntryHits == \A c \in Callers : kept[c] => pc[c] \notin {"delete", "missed"}

(***************************************************************************)
(* What a successful request remembers is kept until it expires or is      *)
(* replaced: "Successful requests update cache affinity metadata so        *)
(* kv_aware can prefer warm backends" (docs/overview.md:28).               *)
(***************************************************************************)
RememberedIsKept ==
    [][\A k \in Keys : Live(entries[k]) /\ now' = now => entries'[k] # NoEntry]_vars
=============================================================================
