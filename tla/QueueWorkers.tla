---------------------------- MODULE QueueWorkers ----------------------------
(***************************************************************************)
(* The consumer threads of a task queue: fio_queue_workers_add starts a    *)
(* manager thread and the worker threads of a group, fio_queue_push        *)
(* signals the group's condition variable, and fio_queue_workers_stop,     *)
(* fio_queue_workers_join and fio_queue_destroy bring the group down.      *)
(*                                                                         *)
(* The queue itself is a sequence here (FioQueue shows that it is one); q- *)
(* >lock, the group's mutex, the condition variable and the `stop` flag    *)
(* are modelled one access at a time.  The flag is written and the         *)
(* condition variable is signalled by threads that hold q->lock but not    *)
(* the group's mutex, and read and waited on by threads that hold the      *)
(* mutex but not q->lock.                                                  *)
(***************************************************************************)
EXTENDS Integers, Sequences, FiniteSets

CONSTANTS
    Worker,         \* the worker threads of the group
    Manager,        \* the thread that runs fio___queue_worker_manager
    Caller,         \* the thread that calls the queue's functions
    Task,           \* the tasks that are pushed, each once
    Nobody,         \* no thread, and no task in hand
    MaxCalls,       \* bound on the number of calls the caller makes
    CarefulDestroy  \* whether fio_queue_destroy is only called on an empty
                    \* queue that gets no more tasks

ASSUME ThreadAssumption ==
    /\ Worker # {} /\ IsFiniteSet(Worker)
    /\ Manager \notin Worker /\ Caller \notin Worker \cup {Manager}
    /\ Nobody \notin Worker \cup {Manager, Caller} \cup Task
    /\ MaxCalls \in Nat
    /\ CarefulDestroy \in BOOLEAN

Consumer == Worker \cup {Manager}
Thread == Consumer \cup {Caller}

VARIABLES
    tasks,      \* the queued tasks
    noRings,    \* whether fio_queue_destroy has freed the rings (q->r is NULL)
    lock,       \* the holder of q->lock
    listed,     \* whether the group is in q->consumers
    mutex,      \* the holder of the group's mutex
    waiters,    \* the workers that wait on the condition variable
    stop,       \* grp.stop
    pc,         \* where each thread is
    inHand,     \* the task each consumer performs
    op,         \* the function the caller is in
    signals,    \* how many signals the caller has left to send
    calls,      \* how many calls the caller has made
    performed,  \* auxiliary: how many times each task was performed
    owed,       \* auxiliary: the tasks in the queue or in a worker's hands
                \* when the group was told to stop
    missed,     \* auxiliary: the tasks that were pushed while a worker was on
                \* its way from its look at the queue to its wait
    overslept   \* auxiliary: the workers that were on their way from their
                \* test of `stop` to their wait when it was set

sync == <<lock, listed, mutex, waiters, stop>>
caller == <<op, signals, calls>>
slept == <<missed, overslept>>
vars == <<tasks, noRings, sync, pc, inHand, caller, performed, owed, slept>>

Init ==
    /\ tasks = <<>>
    /\ noRings = FALSE
    /\ lock = Nobody
    /\ listed = FALSE
    /\ mutex = Nobody
    /\ waiters = {}
    /\ stop = FALSE
    /\ pc = [t \in Thread |-> IF t = Caller THEN "idle" ELSE "none"]
    /\ inHand = [t \in Consumer |-> Nobody]
    /\ op = "none"
    /\ signals = 0
    /\ calls = 0
    /\ performed = [t \in Task |-> 0]
    /\ owed = {}
    /\ missed = {}
    /\ overslept = {}

Queued == {tasks[i] : i \in 1 .. Len(tasks)}
Held == {inHand[c] : c \in Consumer} \ {Nobody}
Pushed == Queued \cup Held \cup {t \in Task : performed[t] > 0}

(* The workers that are at one of these places.                            *)
On(places) == {w \in Worker : pc[w] \in places}

Goto(t, from, to) == pc[t] = from /\ pc' = [pc EXCEPT ![t] = to]

(* (A mistake to guard against: nobody is signalled.)                      *)
SignalNobody == UNCHANGED waiters

(* fio_thread_cond_signal wakes one of the waiting threads, if any.        *)
Signal ==
    \/ waiters = {} /\ waiters' = {}
    \/ \E w \in waiters : waiters' = waiters \ {w}

-----------------------------------------------------------------------------
(* fio_queue_push, by any thread: add the task, signal every group.        *)
Push(t) ==
    /\ t \notin Pushed
    /\ lock = Nobody /\ ~noRings
    /\ CarefulDestroy => op # "destroy"
    /\ tasks' = Append(tasks, t)
    /\ IF listed THEN Signal ELSE UNCHANGED waiters
    /\ missed' = IF On({"lock", "check", "wait"}) = {} THEN missed
                 ELSE missed \cup {t}
    /\ UNCHANGED <<noRings, lock, listed, mutex, stop, pc, inHand, caller,
                   performed, owed, overslept>>

(* fio_queue_workers_wake, by any thread.                                  *)
Wake ==
    /\ listed /\ lock = Nobody
    /\ Signal
    /\ UNCHANGED <<tasks, noRings, lock, listed, mutex, stop, pc, inHand, caller,
                   performed, owed, slept>>

-----------------------------------------------------------------------------
(* fio_queue_perform_all, in the consumer `c`: pop a task under q->lock and *)
(* perform it, until the count is zero, which is read without the lock.    *)

(* (A mistake to guard against: the task stays in the queue.)              *)
PeekTask(c, at) ==
    /\ pc[c] = at /\ inHand[c] = Nobody
    /\ tasks # <<>> /\ lock = Nobody /\ ~noRings
    /\ inHand' = [inHand EXCEPT ![c] = Head(tasks)]
    /\ UNCHANGED <<tasks, noRings, sync, pc, caller, performed, owed, slept>>

TakeTask(c, at) ==
    /\ pc[c] = at /\ inHand[c] = Nobody
    /\ tasks # <<>> /\ lock = Nobody /\ ~noRings
    /\ inHand' = [inHand EXCEPT ![c] = Head(tasks)]
    /\ tasks' = Tail(tasks)
    /\ UNCHANGED <<noRings, sync, pc, caller, performed, owed, slept>>

PerformTask(c, at) ==
    /\ pc[c] = at /\ inHand[c] # Nobody
    /\ performed' = [performed EXCEPT ![inHand[c]] = @ + 1]
    /\ inHand' = [inHand EXCEPT ![c] = Nobody]
    /\ UNCHANGED <<tasks, noRings, sync, pc, caller, owed, slept>>

NoTask(c, at, to) ==
    /\ inHand[c] = Nobody
    /\ tasks = <<>>
    /\ Goto(c, at, to)
    /\ UNCHANGED <<tasks, noRings, sync, inHand, caller, performed, owed, slept>>

PerformAll(c, at, to) == TakeTask(c, at) \/ PerformTask(c, at) \/ NoTask(c, at, to)

(* fio___queue_worker_task *)

(* (A mistake to guard against: `stop` is not read again.)                 *)
LoopForever(w) ==
    /\ Goto(w, "loop", "perform")
    /\ UNCHANGED <<tasks, noRings, sync, inHand, caller, performed, owed, slept>>

Loop(w) ==
    /\ Goto(w, "loop", IF stop THEN "done" ELSE "perform")
    /\ UNCHANGED <<tasks, noRings, sync, inHand, caller, performed, owed, slept>>

LockMutex(w) ==
    /\ mutex = Nobody
    /\ mutex' = w
    /\ Goto(w, "lock", "check")
    /\ UNCHANGED <<tasks, noRings, lock, listed, waiters, stop, inHand, caller,
                   performed, owed, slept>>

(* (A mistake to guard against: `stop` is not read again before the wait.) *)
WaitAnyway(w) ==
    /\ Goto(w, "check", "wait")
    /\ UNCHANGED <<tasks, noRings, sync, inHand, caller, performed, owed, slept>>

CheckStop(w) ==
    /\ Goto(w, "check", IF stop THEN "unlock" ELSE "wait")
    /\ UNCHANGED <<tasks, noRings, sync, inHand, caller, performed, owed, slept>>

(* fio_thread_cond_wait: the mutex is released as the wait begins ...      *)
Wait(w) ==
    /\ mutex' = Nobody
    /\ waiters' = waiters \cup {w}
    /\ Goto(w, "wait", "waiting")
    /\ UNCHANGED <<tasks, noRings, lock, listed, stop, inHand, caller,
                   performed, owed, slept>>

(* ... and taken again when a signal (or nothing at all) ends it.          *)
Wakeup(w) ==
    /\ w \notin waiters
    /\ mutex = Nobody
    /\ mutex' = w
    /\ Goto(w, "waiting", "unlock")
    /\ UNCHANGED <<tasks, noRings, lock, listed, waiters, stop, inHand, caller,
                   performed, owed, slept>>

SpuriousWakeup(w) ==
    /\ w \in waiters
    /\ waiters' = waiters \ {w}
    /\ UNCHANGED <<tasks, noRings, lock, listed, mutex, stop, pc, inHand, caller,
                   performed, owed, slept>>

UnlockMutex(w) ==
    /\ mutex' = Nobody
    /\ Goto(w, "unlock", "performAgain")
    /\ UNCHANGED <<tasks, noRings, lock, listed, waiters, stop, inHand, caller,
                   performed, owed, slept>>

WorkerStep(w) ==
    \/ Loop(w)
    \/ PerformAll(w, "perform", "lock")
    \/ LockMutex(w) \/ CheckStop(w) \/ Wait(w) \/ Wakeup(w) \/ UnlockMutex(w)
    \/ PerformAll(w, "performAgain", "loop")

(* fio___queue_worker_manager: link the group and create its threads (the  *)
(* caller holds q->lock meanwhile) ...                                     *)
StartGroup ==
    /\ pc[Manager] = "start"
    /\ listed' = TRUE
    /\ stop' = FALSE
    /\ pc' = [t \in Thread |-> IF t \in Worker THEN "loop"
                               ELSE IF t = Manager THEN "join" ELSE pc[t]]
    /\ UNCHANGED <<tasks, noRings, lock, mutex, waiters, inHand, caller,
                   performed, owed, slept>>

(* ... wait for them to end, unlink the group, perform what is left.       *)
(* (Mistakes to guard against: only one worker is waited for; what is left *)
(* is not performed.)                                                      *)
JoinOneWorker ==
    /\ \E w \in Worker : pc[w] = "done"
    /\ Goto(Manager, "join", "remove")
    /\ UNCHANGED <<tasks, noRings, sync, inHand, caller, performed, owed, slept>>

JoinWorkers ==
    /\ \A w \in Worker : pc[w] = "done"
    /\ Goto(Manager, "join", "remove")
    /\ UNCHANGED <<tasks, noRings, sync, inHand, caller, performed, owed, slept>>

RemoveGroupOnly ==
    /\ lock = Nobody
    /\ listed' = FALSE
    /\ Goto(Manager, "remove", "done")
    /\ UNCHANGED <<tasks, noRings, lock, mutex, waiters, stop, inHand, caller,
                   performed, owed, slept>>

RemoveGroup ==
    /\ lock = Nobody
    /\ listed' = FALSE
    /\ Goto(Manager, "remove", "perform")
    /\ UNCHANGED <<tasks, noRings, lock, mutex, waiters, stop, inHand, caller,
                   performed, owed, slept>>

ManagerStep ==
    \/ StartGroup \/ JoinWorkers \/ RemoveGroup
    \/ PerformAll(Manager, "perform", "done")

-----------------------------------------------------------------------------
(* The caller's functions *)

Call(f) ==
    /\ calls < MaxCalls
    /\ calls' = calls + 1
    /\ op' = f

(* fio_queue_workers_add holds q->lock until the manager has started the   *)
(* group.                                                                  *)
Add ==
    /\ Call("add")
    /\ lock = Nobody /\ pc[Manager] \in {"none", "done"}
    /\ lock' = Caller
    /\ pc[Caller] = "idle"
    /\ pc' = [pc EXCEPT ![Caller] = "adding", ![Manager] = "start"]
    /\ owed' = {}
    /\ UNCHANGED <<tasks, noRings, listed, mutex, waiters, stop, inHand, signals,
                   performed, slept>>

AddReturns ==
    /\ pc[Manager] # "start"
    /\ Goto(Caller, "adding", "idle")
    /\ lock' = Nobody
    /\ op' = "none"
    /\ UNCHANGED <<tasks, noRings, listed, mutex, waiters, stop, inHand, signals,
                   calls, performed, owed, slept>>

(* fio_queue_workers_stop, alone or at the start of fio_queue_workers_join: *)
(* set the flag, then send two signals for each worker.  A group that is   *)
(* not in the list is left alone.                                          *)
Stop(f) ==
    /\ Call(f)
    /\ listed /\ lock = Nobody
    /\ lock' = Caller
    /\ stop' = TRUE
    /\ owed' = IF stop THEN owed ELSE Queued \cup Held
    /\ overslept' = IF stop THEN overslept ELSE On({"wait"})
    /\ signals' = 2 * Cardinality(Worker)
    /\ Goto(Caller, "idle", "signalling")
    /\ UNCHANGED <<tasks, noRings, listed, mutex, waiters, inHand, performed,
                   missed>>

JoinNothing ==
    /\ Call("join")
    /\ ~listed
    /\ Goto(Caller, "idle", "joinList")
    /\ UNCHANGED <<tasks, noRings, sync, inHand, signals, performed, owed, slept>>

SendSignal ==
    /\ pc[Caller] = "signalling" /\ signals > 0
    /\ Signal
    /\ signals' = signals - 1
    /\ UNCHANGED <<tasks, noRings, lock, listed, mutex, stop, pc, inHand, op, calls,
                   performed, owed, slept>>

SignalsSent ==
    /\ signals = 0
    /\ lock' = Nobody
    /\ Goto(Caller, "signalling",
            CASE op = "stop" -> "idle"
              [] op = "join" -> "joinList"
              [] op = "destroy" -> "joinThread")
    /\ op' = IF op = "stop" THEN "none" ELSE op
    /\ UNCHANGED <<tasks, noRings, listed, mutex, waiters, stop, inHand, signals,
                   calls, performed, owed, slept>>

(* fio_queue_workers_join: look for the group under q->lock, wait for its  *)
(* manager without the lock.                                               *)
JoinList ==
    /\ lock = Nobody
    /\ Goto(Caller, "joinList", IF listed THEN "joinThread" ELSE "idle")
    /\ op' = IF listed THEN op ELSE "none"
    /\ UNCHANGED <<tasks, noRings, sync, inHand, signals, calls, performed, owed,
                   slept>>

JoinThread ==
    /\ pc[Manager] = "done" /\ lock = Nobody
    /\ Goto(Caller, "joinThread", IF op = "destroy" THEN "reinit" ELSE "idle")
    /\ op' = IF op = "destroy" THEN op ELSE "none"
    /\ UNCHANGED <<tasks, noRings, sync, inHand, signals, calls, performed, owed,
                   slept>>

(* fio_queue_destroy frees the rings first, whatever the workers do, then  *)
(* stops and joins the group, and initializes the queue again.             *)
DestroyRings ==
    /\ Call("destroy")
    /\ CarefulDestroy => tasks = <<>>
    /\ lock = Nobody
    /\ noRings' = TRUE
    /\ owed' = {}
    /\ overslept' = IF stop THEN overslept ELSE On({"wait"})
    /\ IF listed
       THEN /\ lock' = Caller
            /\ stop' = TRUE
            /\ signals' = Cardinality(Worker)
            /\ Goto(Caller, "idle", "signalling")
       ELSE /\ Goto(Caller, "idle", "reinit")
            /\ UNCHANGED <<lock, stop, signals>>
    /\ UNCHANGED <<tasks, listed, mutex, waiters, inHand, performed, missed>>

Reinit ==
    /\ Goto(Caller, "reinit", "idle")
    /\ noRings' = FALSE
    /\ tasks' = <<>>
    /\ op' = "none"
    /\ UNCHANGED <<sync, inHand, signals, calls, performed, owed, slept>>

CallerStep ==
    \/ AddReturns \/ SendSignal \/ SignalsSent \/ JoinList \/ JoinThread \/ Reinit

CallerCalls == Add \/ Stop("stop") \/ Stop("join") \/ JoinNothing \/ DestroyRings

Next ==
    \/ \E t \in Task : Push(t)
    \/ Wake
    \/ \E w \in Worker : WorkerStep(w) \/ SpuriousWakeup(w)
    \/ ManagerStep
    \/ CallerCalls \/ CallerStep

(* Every thread that can run eventually runs; nobody has to call anything. *)
Fairness ==
    /\ \A w \in Worker : WF_vars(WorkerStep(w))
    /\ WF_vars(ManagerStep)
    /\ WF_vars(CallerStep)

Spec == Init /\ [][Next]_vars /\ Fairness

-----------------------------------------------------------------------------
TypeOK ==
    /\ tasks \in Seq(Task)
    /\ noRings \in BOOLEAN /\ listed \in BOOLEAN /\ stop \in BOOLEAN
    /\ lock \in {Nobody, Caller}
    /\ mutex \in Worker \cup {Nobody}
    /\ waiters \subseteq Worker
    /\ pc \in [Thread -> {"none", "idle", "loop", "perform", "lock", "check",
                          "wait", "waiting", "unlock", "performAgain", "done",
                          "start", "join", "remove", "adding", "signalling",
                          "joinList", "joinThread", "reinit"}]
    /\ inHand \in [Consumer -> Task \cup {Nobody}]
    /\ op \in {"none", "add", "stop", "join", "destroy"}
    /\ signals \in 0 .. 2 * Cardinality(Worker)
    /\ calls \in 0 .. MaxCalls
    /\ performed \in [Task -> Nat]
    /\ owed \subseteq Task
    /\ missed \subseteq Task
    /\ overslept \subseteq Worker

(* A task is performed at most once, by one thread: the queue, the hands   *)
(* of the consumers and what was performed never share a task.             *)
PerformedOnce ==
    /\ \A i, j \in 1 .. Len(tasks) : tasks[i] = tasks[j] => i = j
    /\ \A c, d \in Consumer :
        inHand[c] # Nobody /\ inHand[c] = inHand[d] => c = d
    /\ Queued \cap Held = {}
    /\ \A t \in Task : performed[t] <= (IF t \in Queued \cup Held THEN 0 ELSE 1)

(* The group that q->consumers lists, on the stack of its manager's thread, *)
(* which fio_queue_push signals and fio_queue_workers_stop writes to, has  *)
(* a manager that is still there, and so has a worker that still runs.     *)
GroupAlive ==
    /\ listed => pc[Manager] \in {"join", "remove"}
    /\ \A w \in Worker : pc[w] \notin {"none", "done"} => listed

(* No task is performed twice, and no thread uses a group that is gone.    *)
WorkersOK == TypeOK /\ PerformedOnce /\ GroupAlive

(* Stopping the workers drops nothing: once the group is down, every task  *)
(* that was queued or being performed when it was told to stop has been    *)
(* performed.                                                              *)
StopDrains == pc[Manager] = "done" => \A t \in owed : performed[t] = 1

(* A consumer that pops a task finds the queue's rings.                    *)
PopHasRings ==
    noRings /\ tasks # <<>> =>
        \A c \in Consumer : pc[c] \notin {"perform", "performAgain"}

(* A queued task of a group is performed, by a worker that was awake or    *)
(* that the push has woken, or by the manager once the workers have left;  *)
(* unless it was pushed while a worker was on its way from its look at the *)
(* queue to its wait, and all the workers sleep that are left.             *)
OnlyMissedTasksStay ==
    \A t \in Task :
        (t \in Queued /\ listed) ~>
            \/ performed[t] = 1
            \/ /\ t \in missed /\ waiters # {}
               /\ waiters \cup On({"done"}) = Worker

(* Once told to stop, the group goes down, whatever its workers were doing *)
(* and however the signals are divided among them; unless a worker sleeps  *)
(* that was on its way from its test of the flag to its wait when the flag *)
(* was set.                                                                *)
OnlyOversleptStay ==
    (stop /\ listed) ~> (pc[Manager] = "done" \/ waiters \cap overslept # {})

(* While the group runs, a pushed task is performed.                       *)
TasksPerformed ==
    \A t \in Task : (t \in Queued /\ listed /\ ~stop) ~> (performed[t] = 1)

(* Once told to stop, the group goes down.                                 *)
StopTerminates == (stop /\ listed) ~> (pc[Manager] = "done")

(* fio_queue_workers_join returns.                                         *)
JoinReturns == (op = "join") ~> (op # "join")

(* When fio_queue_workers_join has returned, no thread of the group is     *)
(* left that uses the queue.                                               *)
JoinBlocks ==
    [][op = "join" /\ op' = "none" => pc[Manager] \in {"none", "done"}]_vars

(* fio_queue_workers_wake leaves no worker asleep.                         *)
WakeWakesAll == [][Wake => waiters' = {}]_vars
=============================================================================
