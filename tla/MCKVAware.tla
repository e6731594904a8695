----------------------------- MODULE MCKVAware -----------------------------
(* Instances of KVAware for TLC. *)
EXTENDS KVAware, TLC

CONSTANTS b1, b2, r1, r2, k

(* Two backends, the one that flaps alone, and none: the list only shrinks. *)
PairLists == {<<b1, b2>>, <<b1>>, << >>}
Pair == <<b1, b2>>

(* A new router, and one whose second ticket panics on the longer list. *)
SomeTickets == {0, 4}

NoCosts == [r \in Requests |-> 0]

(* One call that has a key and one that has not. *)
KeyedAndNot == r1 :> k @@ r2 :> None
=============================================================================
