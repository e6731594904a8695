-------------------------- MODULE MCPlainStrategy --------------------------
(* Instances of PlainStrategy. *)
EXTENDS PlainStrategy

CONSTANTS b1, b2, b3

(* Three backends, one, which may be down, and the empty list. *)
TrioLists == {<<b1, b2, b3>>, <<b1>>, << >>}
Trio == <<b1, b2, b3>>

(* A new router, and one whose next ticket is the last that fits an int. *)
SomeTickets == {0, 3}
=============================================================================
