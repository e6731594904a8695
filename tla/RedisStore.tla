----------------------------- MODULE RedisStore -----------------------------
(***************************************************************************)
(* cache.RedisStore: each call is one command, GET or SET, that go-redis   *)
(* sends to a server over a network that may lose it or its reply, and     *)
(* sends again a few times.  A SET that was given up may still be executed *)
(* later; the server may lose entries: they expire, or it restarts.        *)
(*                                                                         *)
(* Keys and names are those left by strings.TrimSpace; a blank one ends    *)
(* the call at once and sends nothing.  Entries that are blank would need  *)
(* another program to write them.                                          *)
(***************************************************************************)
EXTENDS Integers

CONSTANTS
    Callers,     \* the requests that use the store
    Keys,
    Names,       \* the backend names
    MaxTries,    \* how often a command is sent: once and go-redis' retries
    None         \* no entry, no key, no name

ASSUME TriesAssumption == MaxTries \in Nat \ {0}
ASSUME NoneAssumption == None \notin Keys \cup Names

VARIABLES
    store,       \* the server's entries
    pc,          \* where each caller is
    key, name,   \* the arguments of its call
    tries,       \* how often its command was sent
    command,     \* its command: none, sent, replied or broken
    reply,       \* the entry the reply to a GET holds
    late,        \* SETs that were given up and may still be executed
    offered      \* history: entries of the key during the lookup

call == <<pc, key, name>>
vars == <<store, call, tries, command, reply, late, offered>>

TypeOK ==
    /\ store \in [Keys -> Names \cup {None}]
    /\ pc \in [Callers -> {"idle", "get", "set", "hit", "missed"}]
    /\ key \in [Callers -> Keys \cup {None}]
    /\ name \in [Callers -> Names \cup {None}]
    /\ tries \in [Callers -> 0..MaxTries]
    /\ command \in [Callers -> {"none", "sent", "replied", "broken"}]
    /\ reply \in [Callers -> Names \cup {None}]
    /\ late \subseteq Keys \X Names
    /\ offered \in [Callers -> SUBSET Names]
    /\ \A c \in Callers : pc[c] = "hit" => reply[c] \in Names

Init ==
    /\ store = [k \in Keys |-> None]
    /\ pc = [c \in Callers |-> "idle"]
    /\ key = [c \in Callers |-> None] /\ name = [c \in Callers |-> None]
    /\ tries = [c \in Callers |-> 0] /\ command = [c \in Callers |-> "none"]
    /\ reply = [c \in Callers |-> None]
    /\ late = {} /\ offered = [c \in Callers |-> {}]

-----------------------------------------------------------------------------
(* The server executes SET k n. *)
Write(k, n) ==
    /\ store' = [store EXCEPT ![k] = n]
    /\ offered' = [c \in Callers |-> IF pc[c] = "get" /\ key[c] = k
                                     THEN offered[c] \cup {n} ELSE offered[c]]

(* Entries expire, or the server restarts without them. *)
Forget(ks) ==
    /\ store' = [k \in Keys |-> IF k \in ks THEN None ELSE store[k]]
    /\ UNCHANGED <<call, tries, command, reply, late, offered>>

(* A SET that was given up is executed, maybe after newer ones, or lost. *)
ExecuteLate(k, n) ==
    /\ <<k, n>> \in late
    /\ late' \in {late, late \ {<<k, n>>}}
    /\ Write(k, n) \/ UNCHANGED <<store, offered>>
    /\ UNCHANGED <<call, tries, command, reply>>

-----------------------------------------------------------------------------
Begin(c, op, k, n) ==
    /\ pc[c] = "idle"
    /\ pc' = [pc EXCEPT ![c] = op]
    /\ key' = [key EXCEPT ![c] = k] /\ name' = [name EXCEPT ![c] = n]
    /\ tries' = [tries EXCEPT ![c] = 1]
    /\ command' = [command EXCEPT ![c] = "sent"]
    /\ UNCHANGED <<store, reply, late>>

PreferredBackend(c, k) ==
    /\ Begin(c, "get", k, None)
    /\ offered' = [offered EXCEPT ![c] = {store[k]} \ {None}]

RememberBackend(c, k, n) == Begin(c, "set", k, n) /\ UNCHANGED offered

(* The server executes the command and replies. *)
Execute(c) ==
    /\ command[c] = "sent"
    /\ command' = [command EXCEPT ![c] = "replied"]
    /\ \/ /\ pc[c] = "get"
          /\ reply' = [reply EXCEPT ![c] = store[key[c]]]
          /\ UNCHANGED <<store, offered>>
       \/ pc[c] = "set" /\ Write(key[c], name[c]) /\ UNCHANGED reply
    /\ UNCHANGED <<call, tries, late>>

(* The command or its reply is lost, or takes longer than the client waits. *)
Break(c) ==
    /\ command[c] \in {"sent", "replied"}
    /\ command' = [command EXCEPT ![c] = "broken"]
    /\ reply' = [reply EXCEPT ![c] = None]
    /\ late' \in {late, late \cup {x \in {<<key[c], name[c]>>} :
                                     pc[c] = "set" /\ command[c] = "sent"}}
    /\ UNCHANGED <<store, call, tries, offered>>

(* Mutants: one retry too many; retries that are not counted. *)
MayRetryOnce(c) == tries[c] <= MaxTries
Uncounted(c) == 1

MayRetry(c) == tries[c] < MaxTries

NextTry(c) == tries[c] + 1

Retry(c) ==
    /\ command[c] = "broken" /\ MayRetry(c)
    /\ command' = [command EXCEPT ![c] = "sent"]
    /\ tries' = [tries EXCEPT ![c] = NextTry(c)]
    /\ UNCHANGED <<store, call, reply, late, offered>>

(* A call ends; of a SET nobody looks at the result. *)
End(c, stage) ==
    /\ pc' = [pc EXCEPT ![c] = IF pc[c] = "get" THEN stage ELSE "idle"]
    /\ key' = [key EXCEPT ![c] = IF pc[c] = "get" THEN @ ELSE None]
    /\ name' = [name EXCEPT ![c] = None]
    /\ command' = [command EXCEPT ![c] = "none"]
    /\ tries' = [tries EXCEPT ![c] = 0]
    /\ UNCHANGED <<store, reply, late, offered>>

(* Mutant: the error redis.Nil is not told from an entry. *)
FoundAlways(c) == "hit"

Found(c) == IF reply[c] = None THEN "missed" ELSE "hit"

Finish(c) == command[c] = "replied" /\ End(c, Found(c))

(* The retries are used up, or the user of the request is gone. *)
GiveUp(c) == command[c] = "broken" /\ End(c, "missed")

Leave(c) ==
    /\ pc[c] \in {"hit", "missed"}
    /\ pc' = [pc EXCEPT ![c] = "idle"]
    /\ key' = [key EXCEPT ![c] = None] /\ reply' = [reply EXCEPT ![c] = None]
    /\ offered' = [offered EXCEPT ![c] = {}]
    /\ UNCHANGED <<store, name, tries, command, late>>

Progress(c) == Break(c) \/ Retry(c) \/ Finish(c) \/ GiveUp(c)

Next ==
    \/ \E ks \in SUBSET Keys : Forget(ks)
    \/ \E k \in Keys, n \in Names : ExecuteLate(k, n)
    \/ \E c \in Callers :
        \/ \E k \in Keys : PreferredBackend(c, k)
        \/ \E k \in Keys, n \in Names : RememberBackend(c, k, n)
        \/ Execute(c) \/ Progress(c) \/ Leave(c)

(* go-redis waits for a reply for a few seconds only; nothing is assumed   *)
(* of the server, which may never execute anything.                        *)
Spec == Init /\ [][Next]_vars /\ \A c \in Callers : WF_vars(Progress(c))

-----------------------------------------------------------------------------
Looking(c) == pc[c] \in {"get", "hit", "missed"}

(* What a caller sees of its lookup; a write is no concern of a reader.    *)
Stage == [c \in Callers |-> IF pc[c] = "get" THEN "looking"
                           ELSE IF pc[c] = "set" THEN "idle" ELSE pc[c]]
Asked == [c \in Callers |-> IF Looking(c) THEN key[c] ELSE None]
Answers == [c \in Callers |-> IF pc[c] = "hit" THEN reply[c] ELSE None]

Abstraction == INSTANCE AffinityStore WITH
    pref <- store, stage <- Stage, key <- Asked, answer <- Answers

(***************************************************************************)
(* Lost, late and repeated commands and a server that restarts do not make *)
(* the store an unfaithful hint: a hit names a backend that was the key's  *)
(* entry at an instant of the call, and a failure is no worse than a miss  *)
(* (redis.go:23-52).                                                       *)
(***************************************************************************)
ImplementsAffinity == Abstraction!Spec

(* What the refinement rests on: a call knows its arguments, the entry of  *)
(* a key was offered to every lookup under way, and so was what a reply    *)
(* holds.                                                                  *)
RepliesOffered ==
    \A c \in Callers :
        /\ pc[c] \in {"get", "set"} => key[c] \in Keys
        /\ pc[c] = "set" => name[c] \in Names
        /\ pc[c] = "get" => store[key[c]] \in offered[c] \cup {None}
        /\ command[c] # "none" => pc[c] \in {"get", "set"}
        /\ command[c] = "broken" => reply[c] = None
        /\ reply[c] # None => pc[c] \in {"get", "hit"} /\ reply[c] \in offered[c]

(***************************************************************************)
(* A request is not held up for ever by a server that never answers: each  *)
(* call of the store returns (redis.go:29, 51; kvaware.go:55).             *)
(***************************************************************************)
CallsReturn == \A c \in Callers : pc[c] \in {"get", "set"} ~> pc[c] \notin {"get", "set"}
=============================================================================
