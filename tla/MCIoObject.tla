----------------------------- MODULE MCIoObject -----------------------------
(***************************************************************************)
(* IoObject on small instances: a few calls of the API by callbacks and by *)
(* one other thread, a stream that is throttled at two packets.            *)
(***************************************************************************)
EXTENDS IoObject
=============================================================================
