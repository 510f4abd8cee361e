-------------------------- MODULE MCWorkerCluster --------------------------
(* A root with one or two workers, of which a few crash or are replaced.   *)
EXTENDS WorkerCluster, TLC
=============================================================================
