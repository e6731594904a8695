---------------------------- MODULE MCChatServer ----------------------------
(* Instances of ChatServer. *)
EXTENDS ChatServer

CONSTANT k1

(* All requests share one cache key. *)
OneKey == [r \in Requests |-> k1]
=============================================================================
