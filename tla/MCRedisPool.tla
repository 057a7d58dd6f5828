---------------------------- MODULE MCRedisPool ----------------------------
(* RedisPool on small instances.                                           *)
EXTENDS RedisPool
=============================================================================
