-------------------------- MODULE MCSentinelWatch --------------------------
(* SentinelWatch on small instances.                                       *)
EXTENDS SentinelWatch

CONSTANTS s1, s2

TwoServers == <<s1, s2>>
=============================================================================
