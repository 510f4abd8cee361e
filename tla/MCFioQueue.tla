----------------------------- MODULE MCFioQueue -----------------------------
(***************************************************************************)
(* FioQueue on a small instance: rings of two tasks, two heap rings beside *)
(* the embedded one.                                                       *)
(***************************************************************************)
EXTENDS FioQueue
=============================================================================
