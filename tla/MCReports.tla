----------------------------- MODULE MCReports -----------------------------
(* Instances of Reports. *)
EXTENDS Reports, TLC

CONSTANT k1

(* All requests share one cache key. *)
OneKey == [r \in Requests |-> k1]

(* Requests differ by their keys only, so they may be exchanged. *)
SameRequests == Permutations(Requests)
=============================================================================
