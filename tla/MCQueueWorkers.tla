--------------------------- MODULE MCQueueWorkers ---------------------------
(***************************************************************************)
(* QueueWorkers on small instances: two workers and two tasks, three or    *)
(* four calls of the group's functions.                                    *)
(***************************************************************************)
EXTENDS QueueWorkers
=============================================================================
