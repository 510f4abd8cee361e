---------------------------- MODULE MCListener -----------------------------
(* One listener, with and without a queue of its own for accepting.        *)
EXTENDS Listener
=============================================================================
