------------------------------ MODULE MCRedis ------------------------------
(* Instances of Redis for TLC. *)
EXTENDS Redis
=============================================================================
