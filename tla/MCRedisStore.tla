---------------------------- MODULE MCRedisStore ----------------------------
(* Instances of RedisStore. *)
EXTENDS RedisStore
=============================================================================
