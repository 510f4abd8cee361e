----------------------------- MODULE TaskDeque -----------------------------
(***************************************************************************)
(* What fio_queue_s promises: a double-ended list of tasks.  A push may be *)
(* refused (no memory) and then leaves the list alone; a pop takes the     *)
(* first task; destroying the queue drops whatever is left.                *)
(***************************************************************************)
EXTENDS Sequences

CONSTANT Task

VARIABLE tasks

Init == tasks = <<>>

Push == \E t \in Task : tasks' = Append(tasks, t)

PushUrgent == \E t \in Task : tasks' = <<t>> \o tasks

Pop == tasks # <<>> /\ tasks' = Tail(tasks)

Destroy == tasks' = <<>>

Next == Push \/ PushUrgent \/ Pop \/ Destroy

Spec == Init /\ [][Next]_tasks
=============================================================================
