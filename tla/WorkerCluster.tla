--------------------------- MODULE WorkerCluster ---------------------------
(***************************************************************************)
(* The cluster mode of the reactor: the root process forks its workers,    *)
(* and one sentinel thread per worker waits for it, orders a replacement   *)
(* when it dies, and is joined when the root stops.                        *)
(*                                                                         *)
(* The processes share nothing after the fork but signals.  The threads of *)
(* the root share the task queue, the stop flag, the number of workers to  *)
(* spawn and the list of sentinels, and these are what is modelled, one    *)
(* access at a time.  A worker is what the root sees of it: it starts, it  *)
(* works until it is told to stop, and it can crash at any time.           *)
(***************************************************************************)
EXTENDS Integers, Sequences, FiniteSets

CONSTANTS
    Worker,         \* the processes that can be forked, each once
    N,              \* the number of workers fio_io_start is called with
    Ipc,            \* whether workers have a connection to the root
    SafeFork,       \* whether no thread pushes a task while the root forks
    MaxCrashes,     \* bound on the workers that crash
    MaxRestarts,    \* bound on the restarts that are asked for
    MaxAdds,        \* bound on the workers that are added
    MaxTasks,       \* bound on the tasks another thread pushes
    MaxEvents       \* bound on all of these together

ASSUME ClusterAssumption ==
    /\ IsFiniteSet(Worker)
    /\ N \in 1 .. 4095          \* fio_io_workers caps it
    /\ Ipc \in BOOLEAN /\ SafeFork \in BOOLEAN
    /\ MaxCrashes \in Nat /\ MaxRestarts \in Nat
    /\ MaxAdds \in Nat /\ MaxTasks \in Nat /\ MaxEvents \in Nat

VARIABLES
    stop,       \* the bits of FIO___IO.stop: "stop" is 1, "fork" is 2
    to_spawn,   \* FIO___IO.to_spawn
    workers,    \* FIO___IO.workers
    queue,      \* FIO___IO.queue
    pushing,    \* the threads that hold the queue's lock to push a task
    pc,         \* where the root's reactor thread is in fio_io_start
    at,         \* where it is in fio___io_spawn_workers_task, or "out"
    signalled,  \* whether the restart signal waits for a review
    joining,    \* the sentinels that are joined
    life,       \* of each worker
    told,       \* the workers that were told to stop, or inherited the flag
    sentinel,   \* where the sentinel thread of each worker is
    retired,    \* the sentinels whose `stop` is set
    crashes, restarts, adds, tasks,
    ordered,    \* auxiliary: how many workers were ever asked for
    copied,     \* auxiliary: the workers that inherited a queued task
    lost        \* auxiliary: the workers found dead while the root pretended to stop

root == <<stop, to_spawn, workers, queue, pushing, pc, at, signalled, joining>>
procs == <<life, told, sentinel, retired>>
bounds == <<crashes, restarts, adds, tasks>>
MayHappen == crashes + restarts + adds + tasks < MaxEvents
aux == <<copied, lost>>
vars == <<root, procs, bounds, ordered, aux>>

Other == "other"    \* a thread of the root that pushes tasks

Init ==
    /\ stop = {} /\ to_spawn = 0 /\ workers = 0
    /\ queue = <<>> /\ pushing = {}
    /\ pc = "start" /\ at = "out"
    /\ signalled = FALSE /\ joining = {}
    /\ life = [w \in Worker |-> "none"] /\ told = {}
    /\ sentinel = [w \in Worker |-> "none"] /\ retired = {}
    /\ crashes = 0 /\ restarts = 0 /\ adds = 0 /\ tasks = 0
    /\ ordered = 0 /\ copied = {} /\ lost = {}

Alive == {w \in Worker : life[w] \in {"forked", "stuck", "working"}}
Registered == {w \in Worker : sentinel[w] \notin {"none", "created"}}
Listed == {w \in Worker : sentinel[w] \in {"waiting", "reaped"}}

Count(t) == Cardinality({i \in 1 .. Len(queue) : queue[i] = t})
Running == pc \in {"boot", "loop", "shutdown", "kill", "returning"}
Free == pushing = {}

-----------------------------------------------------------------------------
(* Spawning.  fio___io_spawn_workers_task pretends to stop, so that the    *)
(* tasks of the root end, performs the whole queue, and forks.             *)

(* The entry of the task; `at` is also its is_running.                     *)
EnterSpawn ==
    IF to_spawn = 0 \/ at # "out" THEN UNCHANGED <<stop, at>>
    ELSE /\ stop' = stop \cup {"fork"}
         /\ at' = IF stop \subseteq {"fork"} THEN "drain" ELSE "out"

(* fio_io_start, until fio___io_work.                                      *)
Start ==
    /\ pc = "start" /\ pc' = "boot"
    /\ workers' = N /\ to_spawn' = N /\ ordered' = N
    /\ stop' = {"fork"} /\ at' = "drain"
    /\ UNCHANGED <<queue, pushing, signalled, joining, procs, bounds, aux>>

(* (A mistake to guard against: the flag is cleared, not masked.)          *)
DrainedClears ==
    /\ at = "drain" /\ Free /\ queue = <<>>
    /\ stop' = {} /\ at' = "review"
    /\ UNCHANGED <<to_spawn, workers, queue, pushing, pc, signalled, joining,
                   procs, bounds, ordered, aux>>

(* The queue was found empty: the flag is reset, a real stop stays.        *)
Drained ==
    /\ at = "drain" /\ Free /\ queue = <<>>
    /\ stop' = stop \cap {"stop"} /\ at' = "review"
    /\ UNCHANGED <<to_spawn, workers, queue, pushing, pc, signalled, joining,
                   procs, bounds, ordered, aux>>

(* fio___io_spawn_worker, until the fork.  fio_signal_review calls         *)
(* fio___io_signal_restart if the signal has arrived.                      *)
Review ==
    /\ at = "review" /\ Free
    /\ signalled' = FALSE
    /\ queue' = IF signalled THEN Append(queue, <<"restart", workers>>) ELSE queue
    /\ at' = IF stop = {} THEN "fork" ELSE "count"
    /\ UNCHANGED <<stop, to_spawn, workers, pushing, pc, joining, procs, bounds,
                   ordered, aux>>

(* fio_thread_fork and the creation of the sentinel.  The child has a copy *)
(* of the stop flag, of the queue, and of the queue's lock: if a thread of *)
(* the root held it, nobody in the child will ever release it.  A process  *)
(* has a name of its own, so any unused one will do.                       *)
Fork ==
    /\ at = "fork" /\ at' = "count"
    /\ SafeFork => Free
    /\ \E w \in Worker : life[w] = "none"
    /\ LET w == CHOOSE v \in Worker : life[v] = "none"
       IN  /\ life' = [life EXCEPT ![w] = IF Free THEN "forked" ELSE "stuck"]
           /\ sentinel' = [sentinel EXCEPT ![w] = "created"]
           /\ told' = IF stop = {} THEN told ELSE told \cup {w}
           /\ copied' = IF Count(<<"task">>) > 0 THEN copied \cup {w} ELSE copied
    /\ UNCHANGED <<stop, to_spawn, workers, queue, pushing, pc, signalled, joining,
                   retired, bounds, ordered, lost>>

(* (A mistake to guard against: the reactor's task is not pushed again.)   *)
CountedQuietly ==
    /\ at = "count" /\ Free
    /\ to_spawn' = to_spawn - 1
    /\ at' = IF to_spawn = 1 THEN "out" ELSE "review"
    /\ UNCHANGED <<stop, workers, queue, pushing, pc, signalled, joining, procs, bounds,
                   ordered, aux>>

(* The end of the loop.  The reactor's own task was dropped with the       *)
(* others, so it is pushed again if the reactor is cycling.                *)
Counted ==
    /\ at = "count" /\ Free
    /\ to_spawn' = to_spawn - 1
    /\ at' = IF to_spawn = 1 THEN "out" ELSE "review"
    /\ queue' = IF to_spawn = 1 /\ pc = "loop" THEN Append(queue, <<"work">>) ELSE queue
    /\ UNCHANGED <<stop, workers, pushing, pc, signalled, joining, procs, bounds,
                   ordered, aux>>

-----------------------------------------------------------------------------
(* The reactor thread of the root.  Tasks are performed one at a time, in  *)
(* the loop (`at` is "out") or within the spawning task ("drain").         *)

Next1(t) == /\ Running /\ at \in {"out", "drain"} /\ Free
            /\ queue # <<>> /\ Head(queue)[1] = t

(* fio___io_work_task: fio___io_tick reviews the signals.                  *)
RunWork ==
    /\ Next1("work")
    /\ IF stop # {} THEN queue' = Tail(queue) /\ UNCHANGED signalled
       ELSE /\ signalled' = FALSE
            /\ queue' = Tail(queue)
                        \o (IF signalled THEN << <<"restart", workers>> >> ELSE <<>>)
                        \o << <<"work">> >>
    /\ UNCHANGED <<stop, to_spawn, workers, pushing, pc, at, joining, procs, bounds,
                   ordered, aux>>

RunSpawn ==
    /\ Next1("spawn")
    /\ queue' = Tail(queue)
    /\ EnterSpawn
    /\ UNCHANGED <<to_spawn, workers, pushing, pc, signalled, joining, procs, bounds,
                   ordered, aux>>

(* fio___io_restart.  Only listed sentinels are told and their workers     *)
(* signalled.                                                              *)
RunRestart ==
    /\ Next1("restart")
    /\ IF workers = 0
       THEN queue' = Tail(queue) /\ UNCHANGED <<to_spawn, workers, told, retired, ordered>>
       ELSE LET n == Head(queue)[2]
            IN  /\ workers' = n /\ to_spawn' = to_spawn + n /\ ordered' = ordered + n
                /\ queue' = IF n = 0 THEN Tail(queue) ELSE << <<"spawn">> >> \o Tail(queue)
                /\ retired' = retired \cup Listed
                /\ told' = told \cup (Listed \cap Alive)
    /\ UNCHANGED <<stop, pushing, pc, at, signalled, joining, life, sentinel, bounds, aux>>

(* A task of the program's own.                                            *)
RunTask ==
    /\ Next1("task")
    /\ queue' = Tail(queue)
    /\ UNCHANGED <<stop, to_spawn, workers, pushing, pc, at, signalled, joining, procs,
                   bounds, ordered, aux>>

Empty == at = "out" /\ Free /\ queue = <<>>

(* fio___io_work: the reactor's task is pushed after the first             *)
(* fio_queue_perform_all, with a lock of its own.                          *)
Boot ==
    /\ pc = "boot" /\ Empty
    /\ queue' = << <<"work">> >> /\ pc' = "loop"
    /\ UNCHANGED <<stop, to_spawn, workers, pushing, at, signalled, joining, procs, bounds,
                   ordered, aux>>

(* The loop ends when its task was dropped; fio___io_shutdown follows.     *)
EndLoop ==
    /\ pc = "loop" /\ Empty /\ pc' = "shutdown"
    /\ UNCHANGED <<stop, to_spawn, workers, queue, pushing, at, signalled, joining, procs,
                   bounds, ordered, aux>>

(* "signal all child workers to terminate, parent is going away."          *)
Kill ==
    /\ pc = "shutdown" /\ Empty /\ pc' = "kill"
    /\ told' = told \cup (Listed \cap Alive)
    /\ UNCHANGED <<stop, to_spawn, workers, queue, pushing, at, signalled, joining, life,
                   sentinel, retired, bounds, ordered, aux>>

(* fio_state_callback_force(FIO_CALL_ON_STOP) copies the callbacks, one    *)
(* for each sentinel that registered, and joins the sentinels.             *)
OnStop ==
    /\ pc = "kill" /\ Empty /\ pc' = "join"
    /\ joining' = Registered
    /\ UNCHANGED <<stop, to_spawn, workers, queue, pushing, at, signalled, procs, bounds,
                   ordered, aux>>

Joined ==
    /\ pc = "join" /\ pc' = "returning"
    /\ \A w \in joining : sentinel[w] = "ended"
    /\ UNCHANGED <<stop, to_spawn, workers, queue, pushing, at, signalled, joining, procs,
                   bounds, ordered, aux>>

(* fio_io_start returns and the program ends; fio___io_cleanup_at_exit     *)
(* kills the workers that are still listed.                                *)
Exit ==
    /\ pc = "returning" /\ Empty /\ pc' = "exited"
    /\ workers' = 0
    /\ life' = [w \in Worker |-> IF w \in Listed /\ life[w] # "none" THEN "ended" ELSE life[w]]
    /\ UNCHANGED <<stop, to_spawn, queue, pushing, at, signalled, joining, told, sentinel,
                   retired, bounds, ordered, aux>>

Reactor ==
    \/ Start \/ Drained \/ Review \/ Fork \/ Counted
    \/ RunWork \/ RunSpawn \/ RunRestart \/ RunTask
    \/ Boot \/ EndLoop \/ Kill \/ OnStop \/ Joined \/ Exit

-----------------------------------------------------------------------------
(* The sentinel of a worker: fio___io_worker_sentinel                      *)

Step(w, from, to) ==
    /\ pc # "exited" /\ sentinel[w] = from
    /\ sentinel' = [sentinel EXCEPT ![w] = to]

RegisterAndList(w) ==
    /\ Step(w, "created", "registered") \/ Step(w, "registered", "waiting")
    /\ UNCHANGED <<root, life, told, retired, bounds, ordered, aux>>

(* (A mistake to guard against: waitpid is interrupted.)                   *)
ReapEarly(w) ==
    /\ Step(w, "waiting", "reaped") \/ Step(w, "reaped", "unlisted")
    /\ UNCHANGED <<root, life, told, retired, bounds, ordered, aux>>

(* fio_thread_waitpid returns, then the sentinel leaves the list.          *)
Reap(w) ==
    /\ \/ Step(w, "waiting", "reaped") /\ life[w] = "ended"
       \/ Step(w, "reaped", "unlisted")
    /\ UNCHANGED <<root, life, told, retired, bounds, ordered, aux>>

(* (Mistakes to guard against: a retired worker is replaced, the           *)
(* replacement is not counted.)                                            *)
DecideAnyway(w) ==
    /\ IF stop = {}
       THEN Step(w, "unlisted", "ordering") /\ to_spawn' = to_spawn + 1
       ELSE Step(w, "unlisted", "ended") /\ UNCHANGED to_spawn
    /\ UNCHANGED <<stop, workers, queue, pushing, pc, at, signalled, joining, life, told,
                   retired, bounds, ordered, aux>>

DecideUncounted(w) ==
    /\ IF stop = {} /\ w \notin retired
       THEN Step(w, "unlisted", "ordering")
       ELSE Step(w, "unlisted", "ended")
    /\ UNCHANGED <<root, life, told, retired, bounds, ordered, aux>>

(* A replacement is ordered unless the root stops or the worker was        *)
(* retired.  The root also seems to stop while it prepares to fork.        *)
Decide(w) ==
    /\ IF stop = {} /\ w \notin retired
       THEN Step(w, "unlisted", "ordering") /\ to_spawn' = to_spawn + 1
       ELSE Step(w, "unlisted", "ended") /\ UNCHANGED to_spawn
    /\ lost' = IF stop = {"fork"} /\ w \notin retired THEN lost \cup {w} ELSE lost
    /\ UNCHANGED <<stop, workers, queue, pushing, pc, at, signalled, joining, life, told,
                   retired, bounds, ordered, copied>>

(* fio_queue_push_urgent, with the queue's lock held for a while.          *)
OrderSpawn(w) ==
    \/ /\ sentinel[w] = "ordering" /\ Free /\ pc # "exited"
       /\ pushing' = {w}
       /\ UNCHANGED <<stop, to_spawn, workers, queue, pc, at, signalled, joining, procs,
                      bounds, ordered, aux>>
    \/ /\ w \in pushing /\ Step(w, "ordering", "ended")
       /\ pushing' = {} /\ queue' = << <<"spawn">> >> \o queue
       /\ UNCHANGED <<stop, to_spawn, workers, pc, at, signalled, joining, life, told,
                      retired, bounds, ordered, aux>>

Sentinel(w) == RegisterAndList(w) \/ Reap(w) \/ Decide(w) \/ OrderSpawn(w)

-----------------------------------------------------------------------------
(* The workers *)

(* The child closes what it inherited, looks at the flag it inherited or a *)
(* signal set, and runs the IN_CHILD callbacks and fio___io_work.          *)
ChildStart(w) ==
    /\ life[w] = "forked"
    /\ life' = [life EXCEPT ![w] = IF w \in told THEN "ended" ELSE "working"]
    /\ UNCHANGED <<root, told, sentinel, retired, bounds, ordered, aux>>

(* fio___io_work returns and the child exits.  A worker that has lost the  *)
(* root's connection stops itself (fio___ipc_on_close).                    *)
ChildStops(w) ==
    /\ life[w] = "working"
    /\ w \in told \/ (Ipc /\ pc \in {"kill", "join", "returning", "exited"})
    /\ life' = [life EXCEPT ![w] = "ended"]
    /\ UNCHANGED <<root, told, sentinel, retired, bounds, ordered, aux>>

Crash(w) ==
    /\ w \in Alive /\ MayHappen /\ crashes < MaxCrashes
    /\ crashes' = crashes + 1
    /\ life' = [life EXCEPT ![w] = "ended"]
    /\ UNCHANGED <<root, told, sentinel, retired, restarts, adds, tasks, ordered,
                   aux>>

-----------------------------------------------------------------------------
(* What the program and the system do to the root *)

Stop ==
    /\ pc \notin {"start", "exited"}
    /\ stop' = stop \cup {"stop"}
    /\ UNCHANGED <<to_spawn, workers, queue, pushing, pc, at, signalled, joining, procs,
                   bounds, ordered, aux>>

(* The restart signal, or fio_io_restart(n) in another thread.             *)
SignalRestart ==
    /\ pc \notin {"start", "exited"} /\ MayHappen /\ restarts < MaxRestarts /\ ~signalled
    /\ signalled' = TRUE /\ restarts' = restarts + 1
    /\ UNCHANGED <<stop, to_spawn, workers, queue, pushing, pc, at, joining, procs,
                   crashes, adds, tasks, ordered, aux>>

CallRestart(n) ==
    /\ pc \notin {"start", "exited"} /\ MayHappen /\ restarts < MaxRestarts /\ Free
    /\ queue' = Append(queue, <<"restart", n>>) /\ restarts' = restarts + 1
    /\ UNCHANGED <<stop, to_spawn, workers, pushing, pc, at, signalled, joining, procs,
                   crashes, adds, tasks, ordered, aux>>

(* fio_io_add_workers(1), in another thread.                               *)
AddWorker ==
    /\ pc \notin {"start", "exited"} /\ MayHappen /\ adds < MaxAdds /\ Free
    /\ to_spawn' = to_spawn + 1 /\ ordered' = ordered + 1 /\ adds' = adds + 1
    /\ queue' = << <<"spawn">> >> \o queue
    /\ UNCHANGED <<stop, workers, pushing, pc, at, signalled, joining, procs,
                   crashes, restarts, tasks, aux>>

(* fio_queue_push in another thread.                                       *)
PushTask ==
    /\ pc # "exited"
    /\ \/ /\ Free /\ MayHappen /\ tasks < MaxTasks
          /\ tasks' = tasks + 1 /\ pushing' = {Other} /\ UNCHANGED queue
       \/ /\ pushing = {Other} /\ UNCHANGED tasks
          /\ pushing' = {} /\ queue' = Append(queue, <<"task">>)
    /\ UNCHANGED <<stop, to_spawn, workers, pc, at, signalled, joining, procs,
                   crashes, restarts, adds, ordered, aux>>

Next ==
    \/ Reactor
    \/ \E w \in Worker : Sentinel(w) \/ ChildStart(w) \/ ChildStops(w) \/ Crash(w)
    \/ Stop \/ SignalRestart \/ (\E n \in {0, N} : CallRestart(n)) \/ AddWorker \/ PushTask

(* Every thread and every process goes on running, and a thread that holds *)
(* the queue's lock lets go of it.                                         *)
Fairness ==
    /\ WF_vars(Reactor)
    /\ \A w \in Worker : WF_vars(Sentinel(w)) /\ WF_vars(ChildStart(w) \/ ChildStops(w))
    /\ WF_vars(PushTask /\ pushing # {})

Spec == Init /\ [][Next]_vars /\ Fairness

-----------------------------------------------------------------------------
(* Properties *)

TypeOK ==
    /\ stop \subseteq {"stop", "fork"}
    /\ to_spawn \in Nat /\ workers \in 0 .. N
    /\ \A i \in 1 .. Len(queue) :
        \/ queue[i] \in {<<"work">>, <<"spawn">>, <<"task">>}
        \/ \E n \in 0 .. N : queue[i] = <<"restart", n>>
    /\ pushing \subseteq Worker \cup {Other} /\ Cardinality(pushing) <= 1
    /\ pc \in {"start", "boot", "loop", "shutdown", "kill", "join", "returning", "exited"}
    /\ at \in {"out", "drain", "review", "fork", "count"}
    /\ life \in [Worker -> {"none", "forked", "stuck", "working", "ended"}]
    /\ sentinel \in [Worker -> {"none", "created", "registered", "waiting", "reaped",
                                "unlisted", "ordering", "ended"}]
    /\ joining \subseteq Registered /\ told \subseteq Worker /\ retired \subseteq Worker

(* Spawning drops the reactor's own task and pushes it again, so while the *)
(* reactor runs and between two tasks there is exactly one of it, whatever *)
(* spawning tasks were pushed, nested or cut short in between.             *)
OneLoop ==
    /\ TypeOK
    /\ Count(<<"work">>) <= 1
    /\ pc = "loop" /\ at = "out" /\ stop = {} => Count(<<"work">>) = 1

(* Workers that are neither retired nor dead, and those to be spawned, are *)
(* never more than were asked for less those that were retired: sentinels, *)
(* restarts and additions that race for to_spawn order no worker twice,    *)
(* and nobody replaces a retired one.                                      *)
NeverTooMany ==
    Cardinality(Alive \ retired) + to_spawn
        <= ordered - Cardinality(retired) + (IF at = "count" THEN 1 ELSE 0)

(* The reactor runs, nothing is to be spawned or restarted, no worker is   *)
(* on its way out, and no sentinel has anything to do.                     *)
Quiet ==
    /\ pc = "loop" /\ at = "out" /\ stop = {} /\ queue = << <<"work">> >>
    /\ to_spawn = 0 /\ ~signalled
    /\ \A w \in Worker :
        /\ sentinel[w] \in {"none", "waiting", "ended"}
        /\ sentinel[w] = "waiting" => w \in Alive \ told

(* "the master sentinel thread monitors each child and respawns crashed    *)
(* workers automatically": when all is quiet there are the workers that    *)
(* were configured.                                                        *)
EnoughWorkers == Quiet => Cardinality(Alive) >= workers

(* What the code does achieve: whatever restarts, additions and crashes    *)
(* come together, only those are missing that their sentinel found dead    *)
(* while the root pretended to stop.                                       *)
OthersReplaced == Quiet => Cardinality(Alive) + Cardinality(lost) >= workers

(* "Retiers all existing workers and restarts with the number of workers." *)
RestartRetires == Quiet /\ adds = 0 => Cardinality(Alive) <= workers

(* "signal all child workers to terminate, parent is going away."          *)
StopSignalsAll == pc \in {"join", "returning", "exited"} => Alive \subseteq told

(* "do not allow master tasks to run in worker": no worker has a copy of a *)
(* task that was pushed to the root's queue.                               *)
NoTaskInWorker == copied = {}

(* When the root was told to stop, it returns and every worker ends, even  *)
(* if the stop came while the root pretended to stop, forked or restarted. *)
StopEndsAll == "stop" \in stop ~> pc = "exited" /\ Alive = {}
=============================================================================
