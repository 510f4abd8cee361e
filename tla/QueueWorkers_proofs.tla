------------------------- MODULE QueueWorkers_proofs ------------------------
(***************************************************************************)
(* The consumer threads of a queue perform each task once, use no group    *)
(* that is gone and drop nothing when they stop: for any number of         *)
(* workers, tasks and calls, and however fio_queue_destroy is called.      *)
(***************************************************************************)
EXTENDS QueueWorkers, FiniteSetTheorems, SequenceTheorems, TLAPS

WorkerPlaces == {"none", "loop", "perform", "lock", "check", "wait", "waiting",
                 "unlock", "performAgain", "done"}
ManagerPlaces == {"none", "start", "join", "remove", "perform", "done"}
CallerPlaces == {"idle", "adding", "signalling", "joinList", "joinThread", "reinit"}

(* What the three kinds of threads know of each other: the caller is in    *)
(* fio_queue_workers_add while the manager starts, the group is listed     *)
(* from then until the manager unlinks it, and the manager is past the     *)
(* join only when every worker is gone.                                    *)
Roles ==
    /\ \A w \in Worker : pc[w] \in WorkerPlaces
    /\ pc[Manager] \in ManagerPlaces
    /\ pc[Caller] \in CallerPlaces
    /\ pc[Manager] = "start" => pc[Caller] = "adding"
    /\ listed <=> pc[Manager] \in {"join", "remove"}
    /\ pc[Manager] \in {"none", "start"} =>
        \A w \in Worker : pc[w] \in {"none", "done"}
    /\ pc[Manager] \in {"remove", "perform", "done"} =>
        \A w \in Worker : pc[w] = "done"

(* Only a consumer that is in fio_queue_perform_all holds a task.          *)
Hands == \A c \in Consumer : inHand[c] # Nobody => pc[c] \in {"perform", "performAgain"}

(* What the caller is doing.                                               *)
InCall ==
    /\ pc[Caller] = "idle" <=> op = "none"
    /\ pc[Caller] = "adding" <=> op = "add"
    /\ pc[Caller] = "reinit" => op = "destroy"
    /\ pc[Caller] = "joinList" => op = "join"
    /\ pc[Caller] = "joinThread" => op \in {"join", "destroy"}

(* A task that was owed when the group was told to stop is still in the    *)
(* queue, in a consumer's hand, or performed; fio_queue_destroy owes none. *)
NothingDropped ==
    /\ \A t \in owed : t \in Queued \cup Held \/ performed[t] = 1
    /\ op = "destroy" => owed = {}

IInv == TypeOK /\ PerformedOnce /\ Roles /\ Hands /\ InCall /\ NothingDropped /\ StopDrains

-----------------------------------------------------------------------------
LEMMA SizeType == Cardinality(Worker) \in Nat
BY ThreadAssumption, FS_CardinalityType

LEMMA InitInv == Init => IInv
<1> SUFFICES ASSUME Init
             PROVE  IInv
  OBVIOUS
<1> USE ThreadAssumption, SizeType DEF Init
<1>1. TypeOK
  <2>1. pc \in [Thread -> {"none", "idle"}]
    OBVIOUS
  <2>2. /\ inHand \in [Consumer -> Task \cup {Nobody}]
        /\ performed \in [Task -> Nat] /\ tasks \in Seq(Task)
        /\ signals \in 0 .. 2 * Cardinality(Worker) /\ calls \in 0 .. MaxCalls
    OBVIOUS
  <2> QED
    BY <2>1, <2>2 DEF TypeOK
<1>2. Queued = {} /\ Held = {}
  BY DEF Queued, Held
<1>3. PerformedOnce
  BY <1>2 DEF PerformedOnce, Consumer
<1>4. Roles /\ InCall
  BY DEF Roles, InCall, WorkerPlaces, ManagerPlaces, CallerPlaces, Thread, Consumer
<1>5. Hands /\ NothingDropped /\ StopDrains
  BY DEF Hands, NothingDropped, StopDrains
<1> QED
  BY <1>1, <1>3, <1>4, <1>5 DEF IInv

(* Most steps leave the tasks where they are.                              *)
LEMMA SameData ==
    ASSUME PerformedOnce, tasks' = tasks, inHand' = inHand, performed' = performed
    PROVE  PerformedOnce' /\ Queued' = Queued /\ Held' = Held
BY DEF PerformedOnce, Queued, Held

LEMMA QueuedType == TypeOK => Queued \subseteq Task /\ Nobody \notin Queued
BY ThreadAssumption, ElementOfSeq DEF TypeOK, Queued

(* A task that is nowhere is put at the end of the queue.                  *)
LEMMA QueuedAppend ==
    ASSUME TypeOK, NEW t \in Task, tasks' = Append(tasks, t)
    PROVE  /\ tasks' \in Seq(Task)
           /\ Queued' = Queued \cup {t}
           /\ (\A i, j \in 1 .. Len(tasks) : tasks[i] = tasks[j] => i = j)
                /\ t \notin Queued
                => \A i, j \in 1 .. Len(tasks') : tasks'[i] = tasks'[j] => i = j
<1>1. /\ tasks' \in Seq(Task) /\ Len(tasks) \in Nat /\ Len(tasks') = Len(tasks) + 1
      /\ \A i \in 1 .. Len(tasks) : tasks'[i] = tasks[i]
      /\ tasks'[Len(tasks) + 1] = t
  BY AppendProperties, LenProperties DEF TypeOK
<1> QED
  BY <1>1 DEF Queued

(* The first task leaves the queue.                                        *)
LEMMA QueuedTail ==
    ASSUME TypeOK, tasks # <<>>, tasks' = Tail(tasks),
           \A i, j \in 1 .. Len(tasks) : tasks[i] = tasks[j] => i = j
    PROVE  /\ tasks' \in Seq(Task) /\ Head(tasks) \in Queued
           /\ Queued' = Queued \ {Head(tasks)}
           /\ \A i, j \in 1 .. Len(tasks') : tasks'[i] = tasks'[j] => i = j
<1>1. /\ Len(tasks) \in Nat \ {0} /\ Head(tasks) = tasks[1] /\ tasks' \in Seq(Task)
      /\ Len(tasks') = Len(tasks) - 1
      /\ \A i \in 1 .. Len(tasks') : tasks'[i] = tasks[i + 1]
  BY HeadTailProperties, EmptySeq DEF TypeOK
<1>2. \A i \in 1 .. Len(tasks') : i + 1 \in 1 .. Len(tasks)
  BY <1>1
<1>3. \A i, j \in 1 .. Len(tasks') : tasks'[i] = tasks'[j] => i = j
  BY <1>1, <1>2
<1>4. Queued' \subseteq Queued \ {Head(tasks)}
  BY <1>1, <1>2 DEF Queued
<1>5. ASSUME NEW i \in 1 .. Len(tasks), tasks[i] # Head(tasks)
      PROVE  tasks[i] \in Queued'
  <2>1. i - 1 \in 1 .. Len(tasks') /\ (i - 1) + 1 = i
    BY <1>1, <1>5
  <2>2. tasks'[i - 1] = tasks[i]
    BY <1>1, <2>1
  <2> QED
    BY <2>1, <2>2 DEF Queued
<1>6. Head(tasks) \in Queued
  BY <1>1 DEF Queued
<1> QED
  BY <1>1, <1>3, <1>4, <1>5, <1>6 DEF Queued

LEMMA PushInv ==
    ASSUME IInv, NEW t \in Task, Push(t)
    PROVE  IInv'
<1> USE DEF IInv
<1>1. /\ t \notin Queued /\ t \notin Held /\ performed[t] = 0
      /\ tasks' = Append(tasks, t) /\ inHand' = inHand /\ performed' = performed
      /\ pc' = pc /\ owed' = owed /\ op' = op /\ listed' = listed
  BY DEF Push, Pushed, caller, TypeOK
<1>2. /\ tasks' \in Seq(Task) /\ Queued' = Queued \cup {t} /\ Held' = Held
      /\ \A i, j \in 1 .. Len(tasks') : tasks'[i] = tasks'[j] => i = j
  BY <1>1, QueuedAppend DEF PerformedOnce, Held
<1>3. waiters' \subseteq Worker
  BY DEF Push, Signal, TypeOK
<1>4. TypeOK'
  BY <1>2, <1>3 DEF TypeOK, Push, caller
<1>5. PerformedOnce'
  BY <1>1, <1>2 DEF PerformedOnce
<1>6. Roles' /\ Hands' /\ InCall' /\ NothingDropped' /\ StopDrains'
  BY <1>1, <1>2 DEF Roles, Hands, InCall, NothingDropped, StopDrains
<1> QED
  BY <1>4, <1>5, <1>6

(* A signal changes nothing but who waits.                                 *)
LEMMA SignalInv ==
    ASSUME IInv, waiters' \subseteq waiters,
           signals' \in 0 .. 2 * Cardinality(Worker),
           UNCHANGED <<tasks, noRings, lock, listed, mutex, stop, pc, inHand, op,
                       calls, performed, owed, slept>>
    PROVE  IInv'
<1> USE DEF IInv, slept
<1>1. TypeOK'
  BY DEF TypeOK
<1>2. PerformedOnce' /\ Queued' = Queued /\ Held' = Held
  BY SameData
<1>3. Roles' /\ Hands' /\ InCall' /\ NothingDropped' /\ StopDrains'
  BY <1>2 DEF Roles, Hands, InCall, NothingDropped, StopDrains
<1> QED
  BY <1>1, <1>2, <1>3

LEMMA TakeTaskInv ==
    ASSUME IInv, NEW c \in Consumer, NEW at \in {"perform", "performAgain"},
           TakeTask(c, at)
    PROVE  IInv'
<1> USE DEF IInv
<1>1. PICK t : t = Head(tasks)
  OBVIOUS
<1>2. /\ tasks # <<>> /\ tasks' = Tail(tasks) /\ pc[c] = at /\ inHand[c] = Nobody
      /\ inHand' = [inHand EXCEPT ![c] = t]
      /\ performed' = performed /\ pc' = pc /\ owed' = owed /\ op' = op
      /\ listed' = listed
  BY <1>1 DEF TakeTask, sync, caller, slept
<1>3. /\ t \in Queued /\ t \in Task /\ t # Nobody /\ Queued' = Queued \ {t}
      /\ tasks' \in Seq(Task)
      /\ \A i, j \in 1 .. Len(tasks') : tasks'[i] = tasks'[j] => i = j
  BY <1>1, <1>2, QueuedTail, QueuedType DEF PerformedOnce
<1>4. /\ inHand' \in [Consumer -> Task \cup {Nobody}] /\ inHand'[c] = t
      /\ \A d \in Consumer : d # c => inHand'[d] = inHand[d]
  BY <1>2, <1>3 DEF TypeOK
<1>5. Held' = Held \cup {t}
  BY <1>2, <1>3, <1>4 DEF Held
<1>6. TypeOK'
  BY <1>3, <1>4 DEF TypeOK, TakeTask, sync, caller, slept
<1>7. PerformedOnce'
  <2>1. \A d \in Consumer : inHand[d] # t
    BY <1>3 DEF PerformedOnce, Held
  <2>2. \A d, e \in Consumer : inHand'[d] # Nobody /\ inHand'[d] = inHand'[e] => d = e
    BY <1>4, <2>1 DEF PerformedOnce
  <2> QED
    BY <1>2, <1>3, <1>5, <2>2 DEF PerformedOnce
<1>8. Hands'
  BY <1>2, <1>4 DEF Hands
<1>9. Roles' /\ InCall' /\ NothingDropped' /\ StopDrains'
  BY <1>2, <1>3, <1>5 DEF Roles, InCall, NothingDropped, StopDrains
<1> QED
  BY <1>6, <1>7, <1>8, <1>9

LEMMA PerformTaskInv ==
    ASSUME IInv, NEW c \in Consumer, NEW at \in {"perform", "performAgain"},
           PerformTask(c, at)
    PROVE  IInv'
<1> USE DEF IInv
<1>1. PICK t : t = inHand[c]
  OBVIOUS
<1>2. /\ t # Nobody /\ pc[c] = at
      /\ inHand' = [inHand EXCEPT ![c] = Nobody]
      /\ performed' = [performed EXCEPT ![t] = @ + 1]
      /\ tasks' = tasks /\ pc' = pc /\ owed' = owed /\ op' = op /\ listed' = listed
  BY <1>1 DEF PerformTask, sync, caller, slept
<1>3. t \in Task /\ t \in Held
  BY <1>1, <1>2 DEF TypeOK, Held
<1>4. /\ inHand' \in [Consumer -> Task \cup {Nobody}] /\ inHand'[c] = Nobody
      /\ \A d \in Consumer : d # c => inHand'[d] = inHand[d]
  BY <1>2 DEF TypeOK
<1>5. Queued' = Queued /\ Held' = Held \ {t}
  BY <1>1, <1>2, <1>3, <1>4 DEF Queued, Held, PerformedOnce
<1>6. performed[t] = 0
  BY <1>3 DEF PerformedOnce, TypeOK
<1>7. /\ performed' \in [Task -> Nat] /\ performed'[t] = 1
      /\ \A u \in Task : u # t => performed'[u] = performed[u]
  BY <1>2, <1>3, <1>6 DEF TypeOK
<1>8. TypeOK'
  BY <1>4, <1>7 DEF TypeOK, PerformTask, sync, caller, slept
<1>9. PerformedOnce'
  <2>1. \A d, e \in Consumer : inHand'[d] # Nobody /\ inHand'[d] = inHand'[e] => d = e
    BY <1>4 DEF PerformedOnce
  <2>2. \A u \in Task : performed'[u] <= (IF u \in Queued' \cup Held' THEN 0 ELSE 1)
    <3> SUFFICES ASSUME NEW u \in Task
                 PROVE  performed'[u] <= (IF u \in Queued' \cup Held' THEN 0 ELSE 1)
      OBVIOUS
    <3>1. CASE u = t
      BY <1>3, <1>5, <1>7, <3>1 DEF PerformedOnce
    <3>2. CASE u # t
      BY <1>5, <1>7, <3>2 DEF PerformedOnce
    <3> QED
      BY <3>1, <3>2
  <2> QED
    BY <1>2, <1>5, <2>1, <2>2 DEF PerformedOnce
<1>10. Hands'
  BY <1>2, <1>4 DEF Hands
<1>11. Roles' /\ InCall' /\ NothingDropped' /\ StopDrains'
  BY <1>2, <1>3, <1>5, <1>7 DEF Roles, InCall, NothingDropped, StopDrains, TypeOK
<1> QED
  BY <1>8, <1>9, <1>10, <1>11

(* A worker goes from one place to another between two tasks.              *)
LEMMA WorkerMoveInv ==
    ASSUME IInv, NEW w \in Worker, NEW to \in WorkerPlaces \ {"none"},
           pc[w] \notin {"none", "done"}, inHand[w] = Nobody,
           pc' = [pc EXCEPT ![w] = to],
           mutex' \in Worker \cup {Nobody}, waiters' \subseteq Worker,
           UNCHANGED <<tasks, noRings, lock, listed, stop, inHand, op, signals,
                       calls, performed, owed, slept>>
    PROVE  IInv'
<1> USE ThreadAssumption DEF IInv
<1>1. /\ w \in Thread /\ w # Manager /\ w # Caller /\ Manager \in Thread
      /\ Caller \in Thread /\ Worker \subseteq Thread
  BY DEF Thread, Consumer
<1>2. /\ pc' \in [Thread -> {"none", "idle", "loop", "perform", "lock", "check",
                          "wait", "waiting", "unlock", "performAgain", "done",
                          "start", "join", "remove", "adding", "signalling",
                          "joinList", "joinThread", "reinit"}]
      /\ pc'[w] = to /\ \A t \in Thread : t # w => pc'[t] = pc[t]
  BY <1>1 DEF TypeOK, WorkerPlaces
<1>3. TypeOK'
  BY <1>2 DEF TypeOK, slept
<1>4. PerformedOnce' /\ Queued' = Queued /\ Held' = Held
  BY SameData
<1>5. pc[Manager] = "join"
  BY DEF Roles, ManagerPlaces
<1>6. Roles'
  BY <1>1, <1>2, <1>5 DEF Roles, WorkerPlaces
<1>7. Hands'
  BY <1>2 DEF Hands, Consumer, Thread
<1>8. InCall' /\ NothingDropped' /\ StopDrains'
  BY <1>1, <1>2, <1>4 DEF InCall, NothingDropped, StopDrains
<1> QED
  BY <1>3, <1>4, <1>6, <1>7, <1>8

LEMMA WorkerInv ==
    ASSUME IInv, NEW w \in Worker, WorkerStep(w)
    PROVE  IInv'
<1>1. /\ w \in Consumer
      /\ inHand[w] # Nobody => pc[w] \in {"perform", "performAgain"}
  BY DEF IInv, Hands, Consumer
<1>2. waiters \subseteq Worker /\ mutex \in Worker \cup {Nobody}
  BY DEF IInv, TypeOK
<1>3. CASE Loop(w)
  BY <1>1, <1>2, <1>3, WorkerMoveInv DEF Loop, Goto, sync, caller, slept, WorkerPlaces
<1>4. CASE LockMutex(w)
  BY <1>1, <1>2, <1>4, WorkerMoveInv DEF LockMutex, Goto, caller, slept, WorkerPlaces
<1>5. CASE CheckStop(w)
  BY <1>1, <1>2, <1>5, WorkerMoveInv DEF CheckStop, Goto, sync, caller, slept, WorkerPlaces
<1>6. CASE Wait(w)
  BY <1>1, <1>2, <1>6, WorkerMoveInv DEF Wait, Goto, caller, slept, WorkerPlaces
<1>7. CASE Wakeup(w)
  BY <1>1, <1>2, <1>7, WorkerMoveInv DEF Wakeup, Goto, caller, slept, WorkerPlaces
<1>8. CASE UnlockMutex(w)
  BY <1>1, <1>2, <1>8, WorkerMoveInv DEF UnlockMutex, Goto, caller, slept, WorkerPlaces
<1>9. CASE NoTask(w, "perform", "lock")
  BY <1>2, <1>9, WorkerMoveInv DEF NoTask, Goto, sync, caller, slept, WorkerPlaces
<1>10. CASE NoTask(w, "performAgain", "loop")
  BY <1>2, <1>10, WorkerMoveInv DEF NoTask, Goto, sync, caller, slept, WorkerPlaces
<1>11. ASSUME NEW at \in {"perform", "performAgain"}, TakeTask(w, at) \/ PerformTask(w, at)
       PROVE  IInv'
  BY <1>1, <1>11, TakeTaskInv, PerformTaskInv
<1> QED
  BY <1>3, <1>4, <1>5, <1>6, <1>7, <1>8, <1>9, <1>10, <1>11 DEF WorkerStep, PerformAll

LEMMA StartGroupInv == IInv /\ StartGroup => IInv'
<1> SUFFICES ASSUME IInv, StartGroup
             PROVE  IInv'
  OBVIOUS
<1> USE ThreadAssumption DEF IInv, StartGroup, caller
<1>1. /\ Manager \in Thread /\ Caller \in Thread /\ Worker \subseteq Thread
      /\ Caller \notin Worker /\ Manager # Caller
  BY DEF Thread, Consumer
<1>2. /\ \A w \in Worker : pc'[w] = "loop"
      /\ pc'[Manager] = "join" /\ pc'[Caller] = pc[Caller]
      /\ \A w \in Worker : pc[w] \in {"none", "done"}
  BY <1>1 DEF Roles
<1>3. pc' \in [Thread -> {"none", "idle", "loop", "perform", "lock", "check",
                          "wait", "waiting", "unlock", "performAgain", "done",
                          "start", "join", "remove", "adding", "signalling",
                          "joinList", "joinThread", "reinit"}]
  BY DEF TypeOK
<1>4. TypeOK'
  BY <1>3 DEF TypeOK, slept
<1>5. PerformedOnce' /\ Queued' = Queued /\ Held' = Held
  BY SameData
<1>6. Roles' /\ InCall'
  BY <1>2 DEF Roles, InCall, WorkerPlaces, ManagerPlaces
<1>7. Hands'
  BY <1>2 DEF Hands, Consumer
<1>8. NothingDropped' /\ StopDrains'
  BY <1>2, <1>5 DEF NothingDropped, StopDrains
<1> QED
  BY <1>4, <1>5, <1>6, <1>7, <1>8

(* The manager goes on, between two tasks, when the workers are gone.      *)
LEMMA ManagerMoveInv ==
    ASSUME IInv, NEW to \in {"remove", "perform", "done"},
           pc[Manager] \in {"join", "remove", "perform"}, inHand[Manager] = Nobody,
           pc' = [pc EXCEPT ![Manager] = to],
           \A w \in Worker : pc[w] = "done",
           listed' \in BOOLEAN, listed' <=> to = "remove",
           to = "done" => tasks = <<>>,
           UNCHANGED <<tasks, noRings, lock, mutex, waiters, stop, inHand, op,
                       signals, calls, performed, owed, slept>>
    PROVE  IInv'
<1> USE ThreadAssumption DEF IInv
<1>1. /\ Manager \in Thread /\ Caller \in Thread /\ Worker \subseteq Thread
      /\ Caller # Manager /\ Manager \notin Worker
  BY DEF Thread, Consumer
<1>2. /\ pc' \in [Thread -> {"none", "idle", "loop", "perform", "lock", "check",
                          "wait", "waiting", "unlock", "performAgain", "done",
                          "start", "join", "remove", "adding", "signalling",
                          "joinList", "joinThread", "reinit"}]
      /\ pc'[Manager] = to /\ \A t \in Thread : t # Manager => pc'[t] = pc[t]
  BY <1>1 DEF TypeOK
<1>3. TypeOK'
  BY <1>2 DEF TypeOK, slept
<1>4. PerformedOnce' /\ Queued' = Queued /\ Held' = Held
  BY SameData
<1>5. Roles' /\ InCall'
  BY <1>1, <1>2 DEF Roles, InCall, ManagerPlaces
<1>6. Hands'
  BY <1>1, <1>2 DEF Hands, Consumer
<1>7. NothingDropped'
  BY <1>1, <1>2, <1>4 DEF NothingDropped
<1>8. StopDrains'
  <2>1. CASE to = "done"
    <3>1. Queued = {}
      BY <2>1 DEF Queued
    <3>2. Held = {}
      BY DEF Held, Hands, Consumer
    <3> QED
      BY <3>1, <3>2 DEF NothingDropped, StopDrains
  <2>2. CASE to # "done"
    BY <1>2, <2>2 DEF StopDrains
  <2> QED
    BY <2>1, <2>2
<1> QED
  BY <1>3, <1>4, <1>5, <1>6, <1>7, <1>8

LEMMA ManagerInv == IInv /\ ManagerStep => IInv'
<1> SUFFICES ASSUME IInv, ManagerStep
             PROVE  IInv'
  OBVIOUS
<1>1. /\ Manager \in Consumer
      /\ inHand[Manager] # Nobody => pc[Manager] \in {"perform", "performAgain"}
      /\ pc[Manager] \in {"remove", "perform"} => \A w \in Worker : pc[w] = "done"
      /\ listed \in BOOLEAN /\ (listed <=> pc[Manager] \in {"join", "remove"})
  BY DEF IInv, TypeOK, Hands, Roles, Consumer
<1>2. CASE StartGroup
  BY <1>2, StartGroupInv
<1>3. CASE JoinWorkers
  BY <1>1, <1>3, ManagerMoveInv DEF JoinWorkers, Goto, sync, caller, slept
<1>4. CASE RemoveGroup
  BY <1>1, <1>4, ManagerMoveInv DEF RemoveGroup, Goto, caller, slept
<1>5. CASE NoTask(Manager, "perform", "done")
  BY <1>1, <1>5, ManagerMoveInv DEF NoTask, Goto, sync, caller, slept
<1>6. CASE TakeTask(Manager, "perform") \/ PerformTask(Manager, "perform")
  BY <1>1, <1>6, TakeTaskInv, PerformTaskInv
<1> QED
  BY <1>2, <1>3, <1>4, <1>5, <1>6 DEF ManagerStep, PerformAll

(* The caller goes from one place in its functions to another.             *)
LEMMA CallerMoveInv ==
    ASSUME IInv, NEW to \in CallerPlaces,
           pc' = [pc EXCEPT ![Caller] = to], pc[Manager] # "start",
           lock' \in {Nobody, Caller}, noRings' \in BOOLEAN, stop' \in BOOLEAN,
           op' \in {"none", "add", "stop", "join", "destroy"},
           calls' \in 0 .. MaxCalls, signals' \in 0 .. 2 * Cardinality(Worker),
           InCall',
           owed' \subseteq Task,
           \A t \in owed' : t \in owed \/ (t \in Queued \cup Held /\ listed),
           op' = "destroy" => owed' = {},
           overslept' \subseteq Worker,
           UNCHANGED <<tasks, listed, mutex, waiters, inHand, performed, missed>>
    PROVE  IInv'
<1> USE ThreadAssumption DEF IInv
<1>1. /\ Manager \in Thread /\ Caller \in Thread /\ Worker \subseteq Thread
      /\ Consumer \subseteq Thread /\ Caller \notin Consumer /\ Manager # Caller
      /\ Manager \in Consumer /\ Worker \subseteq Consumer
  BY DEF Thread, Consumer
<1>2. /\ pc' \in [Thread -> {"none", "idle", "loop", "perform", "lock", "check",
                          "wait", "waiting", "unlock", "performAgain", "done",
                          "start", "join", "remove", "adding", "signalling",
                          "joinList", "joinThread", "reinit"}]
      /\ pc'[Caller] = to /\ \A t \in Thread : t # Caller => pc'[t] = pc[t]
  BY <1>1 DEF TypeOK, CallerPlaces
<1>3. TypeOK'
  BY <1>2 DEF TypeOK
<1>4. PerformedOnce' /\ Queued' = Queued /\ Held' = Held
  BY SameData
<1>5. Roles'
  BY <1>1, <1>2 DEF Roles
<1>6. Hands'
  BY <1>1, <1>2 DEF Hands
<1>7. NothingDropped'
  BY <1>4 DEF NothingDropped
<1>8. StopDrains'
  BY <1>1, <1>2 DEF StopDrains, Roles
<1> QED
  BY <1>3, <1>4, <1>5, <1>6, <1>7, <1>8

LEMMA AddInv == IInv /\ Add => IInv'
<1> SUFFICES ASSUME IInv, Add
             PROVE  IInv'
  OBVIOUS
<1> USE ThreadAssumption DEF IInv, Add, Call
<1>1. /\ Manager \in Thread /\ Caller \in Thread /\ Worker \subseteq Thread
      /\ Consumer \subseteq Thread /\ Caller \notin Consumer /\ Manager # Caller
      /\ Manager \notin Worker /\ Manager \in Consumer /\ Worker \subseteq Consumer
  BY DEF Thread, Consumer
<1>2. /\ pc' \in [Thread -> {"none", "idle", "loop", "perform", "lock", "check",
                          "wait", "waiting", "unlock", "performAgain", "done",
                          "start", "join", "remove", "adding", "signalling",
                          "joinList", "joinThread", "reinit"}]
      /\ pc'[Caller] = "adding" /\ pc'[Manager] = "start"
      /\ \A t \in Thread : t \notin {Caller, Manager} => pc'[t] = pc[t]
  BY <1>1 DEF TypeOK
<1>3. TypeOK'
  <2>1. calls' \in 0 .. MaxCalls
    BY DEF TypeOK
  <2> QED
    BY <1>2, <2>1 DEF TypeOK, slept
<1>4. PerformedOnce' /\ Queued' = Queued /\ Held' = Held
  BY SameData
<1>5. Roles' /\ InCall'
  BY <1>1, <1>2 DEF Roles, InCall, ManagerPlaces, CallerPlaces
<1>6. Hands'
  BY <1>1, <1>2 DEF Hands
<1>7. NothingDropped' /\ StopDrains'
  BY <1>2 DEF NothingDropped, StopDrains
<1> QED
  BY <1>3, <1>4, <1>5, <1>6, <1>7

(* Where the caller is in its own function, and what it has to keep.       *)
LEMMA CallerTypes ==
    ASSUME IInv
    PROVE  /\ Caller \in Thread /\ pc[Caller] \in CallerPlaces
           /\ pc[Manager] = "start" => pc[Caller] = "adding"
           /\ lock \in {Nobody, Caller} /\ noRings \in BOOLEAN /\ stop \in BOOLEAN
           /\ op \in {"none", "add", "stop", "join", "destroy"}
           /\ calls \in 0 .. MaxCalls /\ signals \in 0 .. 2 * Cardinality(Worker)
           /\ owed \subseteq Task /\ InCall /\ (op = "destroy" => owed = {})
           /\ DOMAIN pc = Thread /\ overslept \subseteq Worker
BY DEF IInv, TypeOK, Roles, NothingDropped, Thread

LEMMA ReinitInv == IInv /\ Reinit => IInv'
<1> SUFFICES ASSUME IInv, Reinit
             PROVE  IInv'
  OBVIOUS
<1> USE ThreadAssumption DEF IInv, Reinit, Goto, sync
<1>1. /\ Manager \in Thread /\ Caller \in Thread /\ Worker \subseteq Thread
      /\ Consumer \subseteq Thread /\ Caller \notin Consumer /\ Manager # Caller
      /\ Manager \in Consumer /\ Worker \subseteq Consumer
  BY DEF Thread, Consumer
<1>2. /\ pc' \in [Thread -> {"none", "idle", "loop", "perform", "lock", "check",
                          "wait", "waiting", "unlock", "performAgain", "done",
                          "start", "join", "remove", "adding", "signalling",
                          "joinList", "joinThread", "reinit"}]
      /\ pc'[Caller] = "idle" /\ \A t \in Thread : t # Caller => pc'[t] = pc[t]
  BY <1>1 DEF TypeOK
<1>3. TypeOK'
  BY <1>2, EmptySeq DEF TypeOK, slept
<1>4. Queued' = {} /\ Held' = Held
  BY DEF Queued, Held
<1>5. PerformedOnce'
  <2>1. \A t \in Task : performed[t] <= (IF t \in Held THEN 0 ELSE 1)
    BY DEF PerformedOnce, TypeOK
  <2>2. Len(tasks') = 0
    OBVIOUS
  <2> QED
    BY <1>4, <2>1, <2>2 DEF PerformedOnce
<1>6. Roles' /\ InCall'
  BY <1>1, <1>2 DEF Roles, InCall, CallerPlaces
<1>7. Hands'
  BY <1>1, <1>2 DEF Hands
<1>8. owed = {}
  BY DEF InCall, NothingDropped
<1>9. NothingDropped' /\ StopDrains'
  BY <1>8 DEF NothingDropped, StopDrains
<1> QED
  BY <1>3, <1>5, <1>6, <1>7, <1>9

LEMMA CallerInv == IInv /\ (CallerStep \/ CallerCalls) => IInv'
<1> SUFFICES ASSUME IInv, CallerStep \/ CallerCalls
             PROVE  IInv'
  OBVIOUS
<1>1. /\ Caller \in Thread /\ pc[Caller] \in CallerPlaces
      /\ pc[Manager] = "start" => pc[Caller] = "adding"
      /\ lock \in {Nobody, Caller} /\ noRings \in BOOLEAN /\ stop \in BOOLEAN
      /\ op \in {"none", "add", "stop", "join", "destroy"}
      /\ calls \in 0 .. MaxCalls /\ signals \in 0 .. 2 * Cardinality(Worker)
      /\ owed \subseteq Task /\ InCall /\ (op = "destroy" => owed = {})
      /\ DOMAIN pc = Thread /\ overslept \subseteq Worker
  BY CallerTypes
<1>2. Cardinality(Worker) \in Nat /\ MaxCalls \in Nat
  BY SizeType, ThreadAssumption
<1>3. Queued \cup Held \subseteq Task
  BY QueuedType DEF IInv, TypeOK, Held
<1> USE DEF CallerPlaces, Goto, Call, InCall
<1>4. CASE AddReturns
  BY <1>1, <1>4, CallerMoveInv DEF AddReturns, slept
<1>5. CASE SendSignal
  <2>1. waiters' \subseteq waiters
    BY <1>5 DEF SendSignal, Signal
  <2>2. signals' \in 0 .. 2 * Cardinality(Worker)
    BY <1>1, <1>2, <1>5 DEF SendSignal
  <2> QED
    BY <1>5, <2>1, <2>2, SignalInv DEF SendSignal, slept
<1>6. CASE SignalsSent
  BY <1>1, <1>6, CallerMoveInv DEF SignalsSent, slept
<1>7. CASE JoinList
  BY <1>1, <1>7, CallerMoveInv DEF JoinList, sync, slept
<1>8. CASE JoinThread
  BY <1>1, <1>8, CallerMoveInv DEF JoinThread, sync, slept
<1>9. CASE Reinit
  BY <1>9, ReinitInv
<1>10. CASE Add
  BY <1>10, AddInv
<1>11. ASSUME NEW f \in {"stop", "join"}, Stop(f)
       PROVE  IInv'
  <2>1. owed' \subseteq Task /\ \A t \in owed' : t \in owed \/ (t \in Queued \cup Held /\ listed)
    BY <1>1, <1>3, <1>11 DEF Stop
  <2>2. calls' \in 0 .. MaxCalls /\ signals' \in 0 .. 2 * Cardinality(Worker)
    BY <1>1, <1>2, <1>11 DEF Stop
  <2> QED
    BY <1>1, <1>11, <2>1, <2>2, CallerMoveInv DEF Stop, slept, On
<1>12. CASE JoinNothing
  BY <1>1, <1>2, <1>12, CallerMoveInv DEF JoinNothing, sync, slept
<1>13. CASE DestroyRings
  <2>1. calls' \in 0 .. MaxCalls /\ signals' \in 0 .. 2 * Cardinality(Worker)
    BY <1>1, <1>2, <1>13 DEF DestroyRings
  <2> QED
    BY <1>1, <1>13, <2>1, CallerMoveInv DEF DestroyRings, slept, On
<1> QED
  BY <1>4, <1>5, <1>6, <1>7, <1>8, <1>9, <1>10, <1>11, <1>12, <1>13
     DEF CallerStep, CallerCalls

LEMMA NextInv == IInv /\ [Next]_vars => IInv'
<1> SUFFICES ASSUME IInv, [Next]_vars
             PROVE  IInv'
  OBVIOUS
<1>1. CASE UNCHANGED vars
  <2> USE <1>1 DEF vars, sync, caller, slept, IInv
  <2>1. TypeOK' /\ PerformedOnce' /\ Queued' = Queued /\ Held' = Held
    BY SameData DEF TypeOK
  <2>2. Roles' /\ Hands' /\ InCall' /\ NothingDropped' /\ StopDrains'
    BY <2>1 DEF Roles, Hands, InCall, NothingDropped, StopDrains
  <2> QED
    BY <2>1, <2>2
<1>2. ASSUME NEW w \in Worker, SpuriousWakeup(w)
      PROVE  IInv'
  BY <1>2, SignalInv DEF SpuriousWakeup, IInv, TypeOK, caller
<1>3. CASE Wake
  BY <1>3, SignalInv DEF Wake, Signal, IInv, TypeOK, caller
<1>4. CASE Next
  BY <1>2, <1>3, <1>4, PushInv, WorkerInv, ManagerInv, CallerInv DEF Next
<1> QED
  BY <1>1, <1>4

-----------------------------------------------------------------------------
(* The inductive invariant of the worker group: every thread's place, what *)
(* each holds, and where every owed task is.                               *)
THEOREM Invariance == Spec => []IInv
<1>1. QED
  BY InitInv, NextInv, PTL DEF Spec

(* No task is performed twice or by two threads, and the group that        *)
(* q->consumers lists, which lives on its manager's stack, is there as     *)
(* long as a worker runs (src/fio-stl/102 queue.h,                         *)
(* fio___queue_worker_manager).                                            *)
THEOREM Workers == Spec => []WorkersOK
<1>1. IInv => WorkersOK
  <2> SUFFICES ASSUME IInv
               PROVE  GroupAlive
    BY DEF IInv, WorkersOK
  <2>1. \A w \in Worker : pc[w] \notin {"none", "done"} => pc[Manager] = "join"
    BY DEF IInv, Roles, ManagerPlaces
  <2> QED
    BY <2>1 DEF IInv, Roles, GroupAlive
<1> QED
  BY <1>1, Invariance, PTL

(* Once the group is down, every task that was queued or in a consumer's   *)
(* hand when fio_queue_workers_stop told it to stop has been performed.    *)
THEOREM Drained == Spec => []StopDrains
<1>1. IInv => StopDrains
  BY DEF IInv
<1> QED
  BY <1>1, Invariance, PTL
=============================================================================
