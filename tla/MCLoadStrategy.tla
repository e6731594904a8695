--------------------------- MODULE MCLoadStrategy ---------------------------
(* Instances of LoadStrategy for TLC. *)
EXTENDS LoadStrategy, TLC

CONSTANTS b1, b2, b3, r1, r2, r3

(* Two backends, one of which can be dropped and listed again. *)
PairLists == {<<b1, b2>>, <<b2>>}
Pair == <<b1, b2>>

(* Three backends, a shrunken list and the empty list. *)
TrioLists == {<<b1, b2, b3>>, <<b2, b1>>, << >>}
Trio == <<b1, b2, b3>>

(* Costs below, at and above the clamp of costaware.go:52. *)
Costs2 == r1 :> 0 @@ r2 :> 3
Costs3 == r1 :> -1 @@ r2 :> 2 @@ r3 :> 3

(* A new router, and one whose next ticket is the last that fits an int. *)
NewRouter == {0}
SomeTickets == {0, 3}
=============================================================================
