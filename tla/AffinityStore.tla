--------------------------- MODULE AffinityStore ---------------------------
(***************************************************************************)
(* What cache.Store promises to kv_aware: a preference is a hint.          *)
(*                                                                         *)
(* The store holds at most one preferred backend per key.  It may forget   *)
(* any of them at any time.  A lookup may always miss; a hit names a       *)
(* backend that was the preference of the key at some instant of the call. *)
(***************************************************************************)
CONSTANTS
    Callers,     \* the requests that look keys up
    Keys,        \* the cache keys
    Names,       \* the backend names
    None         \* no preference

VARIABLES
    pref,        \* the preference of each key, or None
    stage,       \* each caller: idle, looking, hit or missed
    key,         \* the key a caller looks up
    answer,      \* the name a hit returned
    offered      \* history: preferences of the key during the lookup

vars == <<pref, stage, key, answer, offered>>

TypeOK ==
    /\ pref \in [Keys -> Names \cup {None}]
    /\ stage \in [Callers -> {"idle", "looking", "hit", "missed"}]
    /\ key \in [Callers -> Keys \cup {None}]
    /\ answer \in [Callers -> Names \cup {None}]
    /\ offered \in [Callers -> SUBSET Names]

Init ==
    /\ pref = [k \in Keys |-> None]
    /\ stage = [c \in Callers |-> "idle"]
    /\ key = [c \in Callers |-> None]
    /\ answer = [c \in Callers |-> None]
    /\ offered = [c \in Callers |-> {}]

(* RememberBackend(k, n): the preference is replaced. *)
Remember(k, n) ==
    /\ pref' = [pref EXCEPT ![k] = n]
    /\ offered' = [c \in Callers |->
                     IF stage[c] = "looking" /\ key[c] = k THEN offered[c] \cup {n}
                                                           ELSE offered[c]]
    /\ UNCHANGED <<stage, key, answer>>

(* Entries expire, and may be lost. *)
Forget(ks) ==
    /\ pref' = [k \in Keys |-> IF k \in ks THEN None ELSE pref[k]]
    /\ UNCHANGED <<stage, key, answer, offered>>

(* PreferredBackend(k) is called. *)
Lookup(c, k) ==
    /\ stage[c] = "idle"
    /\ stage' = [stage EXCEPT ![c] = "looking"]
    /\ key' = [key EXCEPT ![c] = k]
    /\ offered' = [offered EXCEPT ![c] = {pref[k]} \ {None}]
    /\ UNCHANGED <<pref, answer>>

Hit(c, n) ==
    /\ stage[c] = "looking"
    /\ n \in offered[c]
    /\ stage' = [stage EXCEPT ![c] = "hit"]
    /\ answer' = [answer EXCEPT ![c] = n]
    /\ UNCHANGED <<pref, key, offered>>

(* A miss may take the preference of its key with it. *)
Miss(c) ==
    /\ stage[c] = "looking"
    /\ stage' = [stage EXCEPT ![c] = "missed"]
    /\ pref' \in {pref, [pref EXCEPT ![key[c]] = None]}
    /\ UNCHANGED <<key, answer, offered>>

(* The caller has used the answer. *)
Leave(c) ==
    /\ stage[c] \in {"hit", "missed"}
    /\ stage' = [stage EXCEPT ![c] = "idle"]
    /\ key' = [key EXCEPT ![c] = None]
    /\ answer' = [answer EXCEPT ![c] = None]
    /\ offered' = [offered EXCEPT ![c] = {}]
    /\ UNCHANGED pref

Next ==
    \/ \E k \in Keys, n \in Names : Remember(k, n)
    \/ \E ks \in SUBSET Keys : Forget(ks)
    \/ \E c \in Callers :
        \/ \E k \in Keys : Lookup(c, k)
        \/ \E n \in Names : Hit(c, n)
        \/ Miss(c)
        \/ Leave(c)

Spec == Init /\ [][Next]_vars
=============================================================================
