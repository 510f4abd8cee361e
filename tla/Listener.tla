------------------------------ MODULE Listener ------------------------------
(***************************************************************************)
(* A listening socket in one reactor: the listener object with its         *)
(* reference count, the IO object that accepts connections for it on a     *)
(* duplicate of its descriptor, the state callbacks that attach and free   *)
(* it, and the epoll entry of the duplicate.                               *)
(*                                                                         *)
(* Freeing the listener performs all the tasks of the reactor's queue from *)
(* within whatever called it.  `frame` is that unfinished call: tasks go   *)
(* on running inside it, and what follows the call happens only when the   *)
(* queue was found empty.                                                  *)
(***************************************************************************)
EXTENDS Integers, Sequences, FiniteSets

CONSTANTS
    Async,              \* whether connections are accepted by way of another queue
    StopWhileRunning,   \* whether fio_io_listen_stop is called in the reactor
    MaxKnocks           \* bound on the connections that peers open

ASSUME ListenerAssumption ==
    Async \in BOOLEAN /\ StopWhileRunning \in BOOLEAN /\ MaxKnocks \in Nat

VARIABLES
    s,          \* what the functions below change, see Init
    phase,      \* "init", "work", "shutdown", "forced", "idle", "exiting", "exited"
    stop,       \* FIO___IO.stop
    others,     \* whether other connections keep the reactor shutting down
    backlog,    \* connections that wait for accept
    knocks,     \* how many were opened
    stopped     \* whether fio_io_listen_stop was called

vars == <<s, phase, stop, others, backlog, knocks, stopped>>

Task == {"attach", "work", "shutdown", "close", "data", "accept", "unsuspend"}

Init ==
    /\ s = [mem |-> "none",     \* the listener: "none", "live" or "freed"
            refs |-> 0, fd |-> FALSE, l_io |-> FALSE,
            hooks |-> {},       \* ON_START and AT_EXIT
            io |-> "none",      \* "none", "open", "closing", "destroying" or "gone"
            io_refs |-> 0, io_fd |-> FALSE, suspended |-> FALSE,
            armed |-> FALSE,    \* the entry in the epoll set
            tasks |-> <<>>, async |-> 0,
            frame |-> "none",   \* "none", "stop", "close" or "exit"
            closes |-> 0,       \* auxiliary: calls of on_close
            faults |-> {}]      \* auxiliary: "stale", "freed", "dup"
    /\ phase = "init" /\ stop = FALSE /\ others = TRUE
    /\ backlog = 0 /\ knocks = 0 /\ stopped = FALSE

Push(o, t) == [o EXCEPT !.tasks = Append(@, t)]

-----------------------------------------------------------------------------
(* The functions *)

(* fio_io_close, until the task that drops OPEN's reference.               *)
CloseIO(o) == IF o.io = "open" THEN Push([o EXCEPT !.io = "closing"], "close") ELSE o

(* (A mistake to guard against: the state callbacks stay.)                 *)
ListenFreeHooked(o, caller) ==
    LET c == [(IF o.l_io THEN CloseIO(o) ELSE o) EXCEPT !.l_io = FALSE, !.refs = @ - 1]
    IN  IF o.mem = "freed" THEN [o EXCEPT !.faults = @ \cup {"freed"}]
        ELSE IF o.refs # 0 THEN c
        ELSE [c EXCEPT !.fd = FALSE, !.frame = caller]

(* fio___io_listen_free, up to its fio_queue_perform_all.                  *)
ListenFree(o, caller) ==
    LET c == [(IF o.l_io THEN CloseIO(o) ELSE o) EXCEPT !.l_io = FALSE, !.refs = @ - 1]
    IN  IF o.mem = "freed" THEN [o EXCEPT !.faults = @ \cup {"freed"}]
        ELSE IF o.refs # 0 THEN c
        ELSE [c EXCEPT !.hooks = {}, !.fd = FALSE, !.frame = caller]

(* The end of fio___io_destroy.  The descriptor is closed before epoll is  *)
(* told to forget it, so the entry stays as long as another descriptor     *)
(* refers to the same socket.                                              *)
Destroyed(o) == [o EXCEPT !.io = "gone", !.io_fd = FALSE]

(* (A mistake to guard against: on_close does not tell the listener.)      *)
DestroyOnly(o) == Destroyed([o EXCEPT !.io_refs = 0, !.closes = @ + 1, !.l_io = FALSE])

(* fio___io_destroy and fio___io_listen_on_close.                          *)
Destroy(o) ==
    LET d == ListenFree([o EXCEPT !.io = "destroying", !.io_refs = 0,
                                  !.closes = @ + 1, !.l_io = FALSE], "close")
    IN  IF d.frame # o.frame THEN d ELSE Destroyed(d)

(* fio___io_free2 *)
Free2(o) == IF o.io_refs > 1 THEN [o EXCEPT !.io_refs = @ - 1] ELSE Destroy(o)

Dup2(o, t) == Push([o EXCEPT !.io_refs = @ + 1], t)

Monitored(o) == o.armed /\ (o.fd \/ o.io_fd)
MonitorIn(o) == IF o.io = "open" /\ ~o.suspended THEN [o EXCEPT !.armed = TRUE] ELSE o

-----------------------------------------------------------------------------
(* The API *)

(* (A mistake to guard against: nothing frees the listener on exit.)       *)
ListenForever ==
    /\ s.mem = "none" /\ ~stop /\ phase \in {"init", "work"}
    /\ LET l == [s EXCEPT !.mem = "live", !.fd = TRUE]
       IN  s' = IF phase = "work" THEN Push(l, "attach")
                ELSE [l EXCEPT !.hooks = {"start"}]
    /\ UNCHANGED <<phase, stop, others, backlog, knocks, stopped>>

(* fio_io_listen *)
Listen ==
    /\ s.mem = "none" /\ ~stop /\ phase \in {"init", "work"}
    /\ LET l == [s EXCEPT !.mem = "live", !.fd = TRUE]
       IN  s' = IF phase = "work" THEN Push([l EXCEPT !.hooks = {"exit"}], "attach")
                ELSE [l EXCEPT !.hooks = {"start", "exit"}]
    /\ UNCHANGED <<phase, stop, others, backlog, knocks, stopped>>

(* fio_io_listen_stop *)
ListenStop ==
    /\ s.mem = "live" /\ ~stopped /\ s.frame = "none"
    /\ phase \in {"init", "idle"} \/ (phase = "work" /\ StopWhileRunning)
    /\ stopped' = TRUE
    /\ s' = ListenFree(s, "stop")
    /\ UNCHANGED <<phase, stop, others, backlog, knocks>>

(* fio_io_start, with the callbacks of ON_START.                           *)
Start ==
    /\ phase = "init" /\ s.frame = "none"
    /\ phase' = "work"
    /\ s' = [s EXCEPT !.tasks = IF "start" \in s.hooks THEN <<"attach", "work">>
                                ELSE <<"work">>]
    /\ UNCHANGED <<stop, others, backlog, knocks, stopped>>

(* fio_io_stop *)
Stop ==
    /\ phase = "work" /\ ~stop
    /\ stop' = TRUE
    /\ UNCHANGED <<s, phase, others, backlog, knocks, stopped>>

-----------------------------------------------------------------------------
(* Tasks *)

Run(t) == s.tasks # <<>> /\ Head(s.tasks) = t /\ "dup" \notin s.faults
Rest == [s EXCEPT !.tasks = Tail(@)]

(* fio___io_listen_attach_task_deferred: a descriptor that cannot be       *)
(* duplicated fails an assertion and ends the process.                     *)
RunAttach ==
    /\ Run("attach")
    /\ s' = IF s.mem = "freed" THEN [Rest EXCEPT !.faults = @ \cup {"freed"}]
            ELSE IF ~s.fd THEN [Rest EXCEPT !.faults = @ \cup {"dup"}]
            ELSE [Rest EXCEPT !.refs = @ + 1, !.l_io = TRUE, !.io = "open",
                              !.io_refs = 1, !.io_fd = TRUE, !.armed = TRUE]
    /\ UNCHANGED <<phase, stop, others, backlog, knocks, stopped>>

RunClose ==
    /\ Run("close")
    /\ s' = Free2(Rest)
    /\ UNCHANGED <<phase, stop, others, backlog, knocks, stopped>>

(* fio___io_listen_on_data and fio___io_listen_on_data_task: by way of     *)
(* another queue the IO is suspended until the task is back.  On shutdown  *)
(* that queue is the reactor's own.                                        *)
AcceptAll(o) == MonitorIn(Free2(o))

RunData ==
    /\ Run("data")
    /\ IF s.mem = "freed" THEN
           /\ s' = [Rest EXCEPT !.faults = @ \cup {"freed"}]
           /\ UNCHANGED backlog
       ELSE IF Async \/ phase # "work" THEN
           /\ s' = LET o == [Rest EXCEPT !.suspended = TRUE]
                   IN  IF phase = "work" THEN [o EXCEPT !.async = @ + 1]
                       ELSE Push(o, "accept")
           /\ UNCHANGED backlog
       ELSE s' = AcceptAll(Rest) /\ backlog' = 0
    /\ UNCHANGED <<phase, stop, others, knocks, stopped>>

(* fio___io_listen_on_data_task_reschd, by a thread of the other queue or  *)
(* by the reactor when it shuts down.                                      *)
AsyncAccept ==
    /\ s.async > 0
    /\ s' = Push([s EXCEPT !.async = @ - 1], "accept")
    /\ UNCHANGED <<phase, stop, others, backlog, knocks, stopped>>

(* (A mistake to guard against: the reference is not dropped.)             *)
RunAcceptLeaks ==
    /\ Run("accept")
    /\ s' = Push([Rest EXCEPT !.suspended = FALSE], "unsuspend")
    /\ backlog' = 0
    /\ UNCHANGED <<phase, stop, others, knocks, stopped>>

RunAccept ==
    /\ Run("accept")
    /\ s' = Free2(Push([Rest EXCEPT !.suspended = FALSE], "unsuspend"))
    /\ backlog' = 0
    /\ UNCHANGED <<phase, stop, others, knocks, stopped>>

(* (A mistake to guard against: an IO that resumes is not closed.)         *)
RunUnsuspendOnly ==
    /\ Run("unsuspend")
    /\ s' = MonitorIn(Rest)
    /\ UNCHANGED <<phase, stop, others, backlog, knocks, stopped>>

(* fio___io_unsuspend *)
RunUnsuspend ==
    /\ Run("unsuspend")
    /\ s' = IF stop THEN CloseIO(Rest) ELSE MonitorIn(Rest)
    /\ UNCHANGED <<phase, stop, others, backlog, knocks, stopped>>

(* fio_poll_review: the event names the IO object, whatever became of it.  *)
Poll(o) ==
    IF backlog = 0 \/ ~Monitored(o) THEN o
    ELSE LET e == [o EXCEPT !.armed = FALSE]
         IN  IF o.io = "gone" THEN [e EXCEPT !.faults = @ \cup {"stale"}]
             ELSE Dup2(e, "data")

(* fio___io_work_task *)
RunWork ==
    /\ Run("work")
    /\ s' = IF stop THEN Rest ELSE Push(Poll(Rest), "work")
    /\ UNCHANGED <<phase, stop, others, backlog, knocks, stopped>>

(* fio___io_shutdown, once the queue of the work loop is empty.            *)
Shutdown ==
    /\ phase = "work" /\ stop /\ s.tasks = <<>> /\ s.frame = "none"
    /\ phase' = "shutdown"
    /\ s' = Push(IF s.suspended THEN s ELSE CloseIO(s), "shutdown")
    /\ UNCHANGED <<stop, others, backlog, knocks, stopped>>

(* fio___io_shutdown_task *)
RunShutdown ==
    /\ Run("shutdown")
    /\ s' = IF others \/ s.io \in {"open", "closing"}
            THEN Push(Poll(Rest), "shutdown")
            ELSE Rest
    /\ UNCHANGED <<phase, stop, others, backlog, knocks, stopped>>

OthersEnd ==
    /\ phase = "shutdown" /\ others
    /\ others' = FALSE
    /\ UNCHANGED <<s, phase, stop, backlog, knocks, stopped>>

(* The shutdown timeout.                                                   *)
ShutdownOver ==
    /\ Run("shutdown")
    /\ s' = Rest
    /\ UNCHANGED <<phase, stop, others, backlog, knocks, stopped>>

(* The rest of fio___io_shutdown and of fio_io_start.                      *)
ForceClose ==
    /\ phase = "shutdown" /\ s.tasks = <<>> /\ s.frame = "none"
    /\ phase' = "forced"
    /\ s' = IF s.io = "open" THEN Push([s EXCEPT !.io = "closing"], "close") ELSE s
    /\ UNCHANGED <<stop, others, backlog, knocks, stopped>>

Return ==
    /\ phase = "forced" /\ s.tasks = <<>> /\ s.async = 0 /\ s.frame = "none"
    /\ phase' = "idle"
    /\ UNCHANGED <<s, stop, others, backlog, knocks, stopped>>

(* The callbacks of AT_EXIT.                                               *)
AtExit ==
    /\ phase = "idle" /\ s.frame = "none"
    /\ phase' = "exiting"
    /\ s' = IF "exit" \in s.hooks THEN ListenFree(s, "exit") ELSE s
    /\ UNCHANGED <<stop, others, backlog, knocks, stopped>>

Exit ==
    /\ phase = "exiting" /\ s.frame = "none"
    /\ phase' = "exited"
    /\ UNCHANGED <<s, stop, others, backlog, knocks, stopped>>

(* fio_queue_perform_all has found the queue empty: fio___io_listen_free   *)
(* frees the listener and returns to its caller.                           *)
FrameEnds ==
    /\ s.frame # "none" /\ s.tasks = <<>> /\ "dup" \notin s.faults
    /\ LET f == [s EXCEPT !.mem = "freed", !.frame = "none"]
       IN  s' = IF s.frame = "close" THEN Destroyed(f) ELSE f
    /\ UNCHANGED <<phase, stop, others, backlog, knocks, stopped>>

-----------------------------------------------------------------------------
(* A peer connects to the socket. *)
Knock ==
    /\ s.fd \/ s.io_fd
    /\ knocks < MaxKnocks
    /\ knocks' = knocks + 1
    /\ backlog' = backlog + 1
    /\ UNCHANGED <<s, phase, stop, others, stopped>>

Reactor ==
    \/ RunAttach \/ RunClose \/ RunData \/ RunAccept \/ RunUnsuspend \/ RunWork
    \/ Shutdown \/ RunShutdown \/ ForceClose \/ Return \/ FrameEnds

Next ==
    \/ Reactor \/ AsyncAccept \/ Listen \/ ListenStop \/ Start \/ Stop
    \/ OthersEnd \/ ShutdownOver \/ AtExit \/ Exit \/ Knock

(* The reactor's thread and the other queue's go on, and the other         *)
(* connections end before the shutdown is over, or with it.                *)
Fairness ==
    /\ WF_vars(Reactor) /\ WF_vars(AsyncAccept) /\ WF_vars(OthersEnd)
    /\ WF_vars(AtExit) /\ WF_vars(Exit)

Spec == Init /\ [][Next]_vars /\ Fairness

-----------------------------------------------------------------------------
TypeOK ==
    /\ s.mem \in {"none", "live", "freed"} /\ s.refs \in -1 .. 1
    /\ s.hooks \subseteq {"start", "exit"} /\ s.tasks \in Seq(Task)
    /\ s.io \in {"none", "open", "closing", "destroying", "gone"}
    /\ s.io_refs \in Nat /\ s.async \in Nat /\ s.closes \in Nat
    /\ s.frame \in {"none", "stop", "close", "exit"}
    /\ s.faults \subseteq {"stale", "freed", "dup"}
    /\ phase \in {"init", "work", "shutdown", "forced", "idle", "exiting", "exited"}

IOAlive == s.io \in {"open", "closing"}

(* While the listener is in use its count is the number of IO objects that *)
(* accept for it, and it is not freed before they are gone.                *)
ListenerRefsOK ==
    s.mem = "live" /\ s.frame = "none" => s.refs = (IF IOAlive THEN 1 ELSE 0)

(* on_close is called once for the IO, and nothing uses the listener after *)
(* it was freed.                                                           *)
EndsOnce == s.closes <= 1 /\ "freed" \notin s.faults

(* Both, as one: what holds the listener is counted, ends once, and is not *)
(* used after its end.                                                     *)
ListenerHeld == TypeOK /\ ListenerRefsOK /\ EndsOnce

(* The IO of a listener is gone when fio_io_start returns, even when it    *)
(* was suspended as the shutdown began; the listener lives on.             *)
ReactorClosesListener ==
    phase = "idle" => ~s.io_fd /\ (s.mem = "freed" => stopped)

(* When the process exits the listener was freed and its socket closed.    *)
ExitFreesListener ==
    phase = "exited" => s.mem \in {"none", "freed"} /\ ~s.fd /\ ~s.io_fd

(* No socket of a listener outlives the reactor's run, and nothing of it    *)
(* the process.                                                            *)
ListenerGone == ReactorClosesListener /\ ExitFreesListener

(* fio_io_start returns after fio_io_stop.                                 *)
StartReturns == stop ~> (phase = "exited")

(* An event that epoll reports belongs to an IO that exists.               *)
NoStaleEvent == "stale" \notin s.faults

(* A listener that was told to stop stops listening.                       *)
StopsListening == stopped ~> (~s.fd /\ ~s.io_fd)

(* A listener that is stopped before it was attached is just destroyed.    *)
NoFailedAssertion == "dup" \notin s.faults
=============================================================================
