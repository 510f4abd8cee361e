------------------------------ MODULE IoObject ------------------------------
(***************************************************************************)
(* One connection, fio_io_s, in its reactor: the flags and the reference   *)
(* count of the object, the reactor's task queue as far as it concerns     *)
(* this connection, and the one-shot monitors of the epoll backend.        *)
(*                                                                         *)
(* Tasks run one at a time in the reactor's thread; a task that calls a    *)
(* protocol callback is in `running` while the callback runs, and the      *)
(* callback may call the functions of the API.  So may one other thread    *)
(* while it owns a reference of its own.  The reactor's cycle is the task  *)
(* "tick", which polls and queues itself again.                            *)
(*                                                                         *)
(* The object is a record `io` and the internal functions of 402 io        *)
(* types.h are operators that map a record to a record.                    *)
(***************************************************************************)
EXTENDS Integers, Sequences, FiniteSets

CONSTANTS
    MaxCalls,       \* bound on the calls of the API
    MaxTimeouts,    \* bound on the timeout events
    ThrottleLimit   \* FIO_IO_THROTTLE_LIMIT, in packets

ASSUME BoundAssumption ==
    MaxCalls \in Nat /\ MaxTimeouts \in Nat /\ ThrottleLimit \in Nat \ {0}

VARIABLES
    io,         \* the object, its tasks and its monitors
    attached,   \* whether the protocol is set (the list of protocols has the IO)
    running,    \* the task whose callback runs, or "none"
    userRef,    \* whether the other thread owns a reference
    stop,       \* FIO___IO.stop
    phase,      \* of the reactor: "work", "shutdown", "forced" or "done"
    inbox,      \* whether the socket has data to read
    room,       \* whether the socket accepts data
    peer,       \* "open", "half" (has ended its side of the stream) or "gone"
    calls, timeouts,    \* how many were made
    lost,       \* auxiliary: packets that were accepted and then dropped
    abrupt,     \* auxiliary: whether anything asked for an immediate closure
    fault       \* auxiliary: whether a task used the object after its end

sock == <<inbox, room, peer>>
reactor == <<stop, phase>>
aux == <<lost, abrupt, fault>>
vars == <<io, attached, running, userRef, reactor, sock, calls, timeouts, aux>>

PreventOnData == {"SUSPENDED", "THROTTLED"}
ClosedAll == {"CLOSE", "CLOSE_REMOTE"}
Flag == {"OPEN", "TOUCH", "WRITE_SCHD", "POLLIN_SET", "POLLOUT_SET",
         "WRITE_DIRTY", "DATA_SCHD"} \cup PreventOnData \cup ClosedAll
Callback == {"attach", "reattach", "data", "ready", "timeout", "on_shutdown"}
RefTask == {"write", "close", "free", "touch"} \cup (Callback \ {"on_shutdown"})
AnyTask == RefTask \cup {"unsuspend", "tick"}

Has(o, f) == f \in o.flags
Set(o, f) == [o EXCEPT !.flags = @ \cup {f}]
Unset(o, fs) == [o EXCEPT !.flags = @ \ fs]

(* fio_io_attach_fd has made the object and deferred its protocol.         *)
Init ==
    /\ io = [flags |-> {"OPEN"}, refs |-> 2, tasks |-> <<"tick", "attach">>,
             armed |-> {}, stream |-> 0, closes |-> 0]
    /\ attached = FALSE /\ running = "none" /\ userRef = FALSE
    /\ stop = FALSE /\ phase = "work"
    /\ inbox = FALSE /\ room = TRUE /\ peer = "open"
    /\ calls = 0 /\ timeouts = 0
    /\ lost = 0 /\ abrupt = FALSE /\ fault = FALSE

-----------------------------------------------------------------------------
(* (A mistake to guard against: the task borrows its caller's reference.)  *)
DeferBorrowed(o, t) == [o EXCEPT !.tasks = Append(@, t)]

(* A task that owns a reference.                                           *)
Defer(o, t) == [o EXCEPT !.refs = @ + 1, !.tasks = Append(@, t)]

(* (A mistake to guard against: on_ready is scheduled again and again.)    *)
ScheduleReadyAgain(o) == Defer(o, "ready")

(* fio___io_poll_on_ready_schd *)
ScheduleReady(o) ==
    IF Has(o, "WRITE_SCHD") THEN o ELSE Defer(Set(o, "WRITE_SCHD"), "ready")

(* fio_io_on_data_schedule *)
ScheduleData(o) ==
    IF o.flags \cap (ClosedAll \cup {"DATA_SCHD"}) # {} THEN o
    ELSE Defer(Set(o, "DATA_SCHD"), "data")

(* (Mistakes to guard against: the flag is set and nothing is monitored.)  *)
MonitorInFailed(o) ==
    IF o.flags \cap (PreventOnData \cup ClosedAll) # {} THEN o ELSE Set(o, "POLLIN_SET")
MonitorOutFailed(o) == IF Has(o, "WRITE_SCHD") THEN o ELSE Set(o, "POLLOUT_SET")

(* fio___io_monitor_in, fio___io_monitor_out *)
MonitorIn(o) ==
    IF o.flags \cap (PreventOnData \cup ClosedAll \cup {"POLLIN_SET"}) # {} THEN o
    ELSE [Set(o, "POLLIN_SET") EXCEPT !.armed = @ \cup {"in"}]

MonitorOut(o) ==
    IF o.flags \cap {"WRITE_SCHD", "POLLOUT_SET"} # {} THEN o
    ELSE [Set(o, "POLLOUT_SET") EXCEPT !.armed = @ \cup {"out"}]

(* fio___io_free2, with fio___io_destroy when it is the last reference.    *)
Free2(o) ==
    IF o.refs > 1 THEN [o EXCEPT !.refs = @ - 1]
    ELSE [Unset(o, {"POLLIN_SET", "POLLOUT_SET"}) EXCEPT
            !.refs = 0, !.closes = @ + 1, !.armed = {}, !.stream = 0]

(* fio___io_free_with_flush, which is also the body of fio___io_free_task. *)
FreeWithFlush(o) ==
    Free2(IF Has(o, "WRITE_DIRTY") THEN ScheduleReady(Unset(o, {"WRITE_DIRTY"}))
          ELSE o)

(* fio_io_free: the reference is dropped by a task.                        *)
FreeLater(o) == [o EXCEPT !.tasks = Append(@, "free")]

(* (A mistake to guard against: OPEN's reference is dropped each time.)    *)
CloseNowAgain(o) == FreeLater(Unset(Set(o, "CLOSE"), {"OPEN"}))

(* fio_io_close_now *)
CloseNow(o) ==
    LET c == Set(o, "CLOSE")
    IN  IF Has(o, "OPEN") THEN FreeLater(Unset(c, {"OPEN"})) ELSE c

(* (A mistake to guard against: nothing is scheduled to close the IO.)     *)
CloseOnly(o) == IF Has(o, "OPEN") THEN Set(o, "CLOSE") ELSE o

(* fio_io_close *)
Close(o) ==
    IF Has(o, "OPEN") /\ ~Has(o, "CLOSE") THEN ScheduleReady(Set(o, "CLOSE")) ELSE o

(* fio_io_touch: an urgent task *)
Touch(o) ==
    IF Has(o, "TOUCH") THEN o
    ELSE [Set(o, "TOUCH") EXCEPT !.refs = @ + 1, !.tasks = <<"touch">> \o @]

Alive == io.refs > 0

-----------------------------------------------------------------------------
(* The API, called by a callback or by the other thread.                   *)

Call ==
    /\ calls < MaxCalls
    /\ calls' = calls + 1
    /\ Alive /\ (running # "none" \/ userRef)
    /\ UNCHANGED <<attached, running, reactor, timeouts, fault>>

(* fio_io_write2: after `close` the packet is freed, not written.          *)
Write ==
    /\ Call
    /\ io' = IF Has(io, "CLOSE") THEN io
             ELSE Defer(Set(io, "WRITE_DIRTY"), "write")
    /\ UNCHANGED <<userRef, sock, lost, abrupt>>

CallClose == Call /\ io' = Close(io) /\ UNCHANGED <<userRef, sock, lost, abrupt>>

CallCloseNow ==
    /\ Call
    /\ io' = CloseNow(io)
    /\ abrupt' = TRUE
    /\ UNCHANGED <<userRef, sock, lost>>

Suspend ==
    Call /\ io' = Set(io, "SUSPENDED") /\ UNCHANGED <<userRef, sock, lost, abrupt>>

(* fio_io_unsuspend: the task it defers owns no reference.                 *)
Unsuspend ==
    /\ Call
    /\ Has(io, "SUSPENDED")
    /\ io' = [Unset(io, {"SUSPENDED"}) EXCEPT !.tasks = Append(@, "unsuspend")]
    /\ UNCHANGED <<userRef, sock, lost, abrupt>>

CallOnDataSchedule ==
    Call /\ io' = ScheduleData(io) /\ UNCHANGED <<userRef, sock, lost, abrupt>>

CallTouch == Call /\ io' = Touch(io) /\ UNCHANGED <<userRef, sock, lost, abrupt>>

(* fio_io_protocol_set *)
ProtocolSet ==
    /\ Call
    /\ io' = Defer(io, "reattach")
    /\ UNCHANGED <<userRef, sock, lost, abrupt>>

(* fio_io_read: no data and no way for more to come closes the IO.         *)
Read ==
    /\ Call
    /\ running = "data"
    /\ io' = IF inbox THEN Touch(io) ELSE IF peer = "open" THEN io ELSE Close(io)
    /\ inbox' = FALSE
    /\ UNCHANGED <<userRef, room, peer, lost, abrupt>>

(* fio_io_dup, for the other thread, and fio_io_free in that thread.       *)
Dup ==
    /\ Call
    /\ running # "none" /\ ~userRef
    /\ io' = [io EXCEPT !.refs = @ + 1]
    /\ userRef' = TRUE
    /\ UNCHANGED <<sock, lost, abrupt>>

Free ==
    /\ userRef
    /\ userRef' = FALSE
    /\ io' = FreeLater(io)
    /\ UNCHANGED <<attached, running, reactor, sock, calls, timeouts, aux>>

Api ==
    \/ Write \/ CallClose \/ CallCloseNow \/ Suspend \/ Unsuspend
    \/ CallOnDataSchedule \/ CallTouch \/ ProtocolSet \/ Read \/ Dup

-----------------------------------------------------------------------------
(* The reactor's tasks.  A task is taken off the queue and `Rest` is what  *)
(* is left; a task with a callback ends in CallbackReturns.                *)

Run(t) ==
    /\ running = "none" /\ phase # "done"
    /\ io.tasks # <<>> /\ Head(io.tasks) = t

Rest == [io EXCEPT !.tasks = Tail(@)]

TaskUnchanged == UNCHANGED <<userRef, reactor, calls>>

(* fio___io_protocol_set *)
RunAttach(t) ==
    /\ Run(t)
    /\ io' = Rest
    /\ attached' = TRUE
    /\ running' = t
    /\ TaskUnchanged /\ UNCHANGED <<sock, timeouts, aux>>

(* fio___io_write2 *)
RunWrite ==
    /\ Run("write")
    /\ IF Has(io, "OPEN")
       THEN /\ io' = Free2(ScheduleReady([Rest EXCEPT !.stream = @ + 1]))
            /\ UNCHANGED lost
       ELSE io' = Free2(Rest) /\ lost' = lost + 1
    /\ TaskUnchanged
    /\ UNCHANGED <<attached, running, sock, timeouts, abrupt, fault>>

(* fio___io_poll_on_data *)
RunData ==
    /\ Run("data")
    /\ LET o == Unset(Rest, {"POLLIN_SET", "DATA_SCHD"})
       IN  IF o.flags \cap PreventOnData = {}
           THEN io' = o /\ running' = "data"
           ELSE /\ io' = FreeWithFlush(IF Has(o, "OPEN") THEN MonitorOut(o) ELSE o)
                /\ UNCHANGED running
    /\ TaskUnchanged /\ UNCHANGED <<attached, sock, timeouts, aux>>

(* fio___io_poll_on_ready: the loop writes until the socket is full, the   *)
(* stream is empty or the connection fails.                                *)
Throttle(o) == IF o.stream >= ThrottleLimit THEN Set(o, "THROTTLED") ELSE o

(* (A mistake to guard against: reading is not resumed.)                   *)
UnthrottleOnly(o) == Unset(o, {"THROTTLED"})

Unthrottle(o) ==
    IF Has(o, "THROTTLED") THEN MonitorIn(Unset(o, {"THROTTLED"})) ELSE o

AfterWriting(o, sent) ==
    LET n == [o EXCEPT !.stream = @ - sent]
        w == IF sent > 0 THEN Unset(n, {"TOUCH"}) ELSE n    \* fio___io_touch
    IN  IF w.stream > 0 THEN
            /\ io' = FreeWithFlush(MonitorOut(Throttle(w)))
            /\ UNCHANGED running
        ELSE IF Has(w, "CLOSE") THEN
            /\ io' = FreeWithFlush(CloseNow(w))
            /\ UNCHANGED running
        ELSE
            /\ io' = Unthrottle(w)
            /\ running' = "ready"

RunReady ==
    /\ Run("ready")
    /\ LET o == Unset(Rest, {"POLLOUT_SET", "WRITE_SCHD"})
       IN  IF ~Has(o, "OPEN") THEN
               /\ io' = FreeWithFlush(o)
               /\ UNCHANGED <<running, room, abrupt>>
           ELSE
               \/ /\ peer = "gone" /\ o.stream > 0
                  /\ io' = FreeWithFlush(CloseNow(o))
                  /\ abrupt' = TRUE
                  /\ UNCHANGED <<running, room>>
               \/ \E sent \in 0 .. o.stream :
                  /\ IF room THEN o.stream > 0 => sent > 0 ELSE sent = 0
                  /\ room' = (room /\ sent = o.stream)
                  /\ AfterWriting(o, sent)
                  /\ UNCHANGED abrupt
    /\ TaskUnchanged
    /\ UNCHANGED <<attached, inbox, peer, timeouts, lost, fault>>

(* fio___io_poll_on_close *)
RunClose ==
    /\ Run("close")
    /\ io' = Free2(CloseNow(IF Has(io, "CLOSE") THEN Rest
                            ELSE Set(Rest, "CLOSE_REMOTE")))
    /\ abrupt' = TRUE
    /\ TaskUnchanged
    /\ UNCHANGED <<attached, running, sock, timeouts, lost, fault>>

(* fio___io_poll_on_timeout *)
RunTimeout ==
    /\ Run("timeout")
    /\ io' = Rest
    /\ running' = "timeout"
    /\ TaskUnchanged /\ UNCHANGED <<attached, sock, timeouts, aux>>

(* fio___io_free_task *)
RunFree ==
    /\ Run("free")
    /\ io' = FreeWithFlush(Rest)
    /\ TaskUnchanged /\ UNCHANGED <<attached, running, sock, timeouts, aux>>

(* fio___io_touch *)
RunTouch ==
    /\ Run("touch")
    /\ io' = Free2(Unset(Rest, {"TOUCH"}))
    /\ TaskUnchanged /\ UNCHANGED <<attached, running, sock, timeouts, aux>>

(* fio___io_unsuspend.  The object may be gone; nothing is said of what    *)
(* happens then.                                                           *)
RunUnsuspend ==
    /\ Run("unsuspend")
    /\ io' = IF ~Alive THEN Rest ELSE IF stop THEN Close(Rest) ELSE MonitorIn(Rest)
    /\ fault' = (fault \/ ~Alive)
    /\ TaskUnchanged
    /\ UNCHANGED <<attached, running, sock, timeouts, lost, abrupt>>

CallbackReturns ==
    /\ running \notin {"none", "on_shutdown"}
    /\ io' = FreeWithFlush(
                CASE running = "attach"   -> MonitorIn(MonitorOut(io))
                  [] running = "reattach" -> MonitorIn(io)
                  [] running = "data"     -> MonitorIn(io)
                  [] OTHER                -> io)
    /\ running' = "none"
    /\ TaskUnchanged /\ UNCHANGED <<attached, sock, timeouts, aux>>

-----------------------------------------------------------------------------
(* fio_poll_review of the epoll backend: the output monitors are reviewed  *)
(* first.  Each is disarmed by the event it reports.                       *)

PollOut(o) ==
    LET d == [o EXCEPT !.armed = @ \ {"out"}]
    IN  IF "out" \notin o.armed \/ ~(room \/ peer # "open") THEN o
        ELSE IF ~room /\ peer = "half" THEN d       \* EPOLLRDHUP only
        ELSE IF peer = "open" THEN ScheduleReady(d) ELSE Defer(d, "close")

PollIn(o) ==
    LET d == Defer([o EXCEPT !.armed = @ \ {"in"}], "data")
    IN  IF "in" \notin o.armed \/ ~(inbox \/ peer # "open") THEN o
        ELSE IF peer = "open" THEN d ELSE Defer(d, "close")

(* fio___io_tick, with fio___io_review_timeouts.                           *)
Ticked(o) ==
    LET polled == PollIn(PollOut(o))
    IN  \/ io' = [polled EXCEPT !.tasks = Append(@, "tick")] /\ UNCHANGED timeouts
        \/ /\ Alive /\ attached /\ timeouts < MaxTimeouts
           /\ timeouts' = timeouts + 1
           /\ io' = [Defer(polled, "timeout") EXCEPT !.tasks = Append(@, "tick")]

(* (A mistake to guard against: `stop` is not looked at.)                  *)
TickForever ==
    /\ Run("tick")
    /\ phase = "work"
    /\ Ticked(Rest)
    /\ TaskUnchanged /\ UNCHANGED <<attached, running, sock, aux>>

(* fio___io_work_task, until the reactor is stopped ...                    *)
Tick ==
    /\ Run("tick")
    /\ phase = "work" /\ ~stop
    /\ Ticked(Rest)
    /\ TaskUnchanged /\ UNCHANGED <<attached, running, sock, aux>>

Stop ==
    /\ ~stop
    /\ stop' = TRUE
    /\ UNCHANGED <<io, attached, running, userRef, phase, sock, calls, timeouts, aux>>

(* ... then fio_queue_perform_all has performed what was queued and        *)
(* fio___io_shutdown calls on_shutdown for each attached IO ...            *)
WorkEnds ==
    /\ Run("tick")
    /\ phase = "work" /\ stop
    /\ io' = Rest
    /\ phase' = "ending"
    /\ UNCHANGED <<attached, running, userRef, stop, sock, calls, timeouts, aux>>

Shutdown ==
    /\ phase = "ending" /\ running = "none" /\ io.tasks = <<>>
    /\ phase' = "shutdown"
    /\ IF Alive /\ attached
       THEN running' = "on_shutdown" /\ UNCHANGED io
       ELSE io' = [io EXCEPT !.tasks = <<"tick">>] /\ UNCHANGED running
    /\ UNCHANGED <<attached, userRef, stop, sock, calls, timeouts, aux>>

OnShutdownReturns ==
    /\ running = "on_shutdown"
    /\ running' = "none"
    /\ LET o == IF Has(io, "SUSPENDED") THEN io ELSE Close(io)
       IN  io' = [o EXCEPT !.tasks = Append(@, "tick")]
    /\ TaskUnchanged /\ UNCHANGED <<attached, sock, timeouts, aux>>

(* ... and goes on, fio___io_shutdown_task, while there is an IO, until    *)
(* the shutdown timeout is over.                                           *)
ShutdownTick ==
    /\ Run("tick")
    /\ phase = "shutdown" /\ Alive /\ attached
    /\ Ticked(Rest)
    /\ TaskUnchanged /\ UNCHANGED <<attached, running, sock, aux>>

ShutdownOver ==
    /\ Run("tick")
    /\ phase = "shutdown"
    /\ io' = Rest
    /\ TaskUnchanged /\ UNCHANGED <<attached, running, sock, timeouts, aux>>

(* The rest of fio___io_shutdown: close what is left at once, perform the  *)
(* last tasks.                                                             *)
ForceClose ==
    /\ phase = "shutdown" /\ running = "none" /\ io.tasks = <<>>
    /\ phase' = "forced"
    /\ IF Alive /\ attached
       THEN io' = CloseNow(io) /\ abrupt' = TRUE
       ELSE UNCHANGED <<io, abrupt>>
    /\ UNCHANGED <<attached, running, userRef, stop, sock, calls, timeouts, lost, fault>>

ReactorDone ==
    /\ phase = "forced" /\ running = "none" /\ io.tasks = <<>>
    /\ phase' = "done"
    /\ UNCHANGED <<io, attached, running, userRef, stop, sock, calls, timeouts, aux>>

-----------------------------------------------------------------------------
(* The peer *)

PeerWrites == peer = "open" /\ inbox' = TRUE /\ UNCHANGED <<room, peer>>
PeerReads == peer # "gone" /\ ~room /\ room' = TRUE /\ UNCHANGED <<inbox, peer>>
PeerEnds == peer = "open" /\ peer' = "half" /\ UNCHANGED <<inbox, room>>
PeerLeaves == peer # "gone" /\ peer' = "gone" /\ UNCHANGED <<inbox, room>>

Peer ==
    /\ Alive
    /\ PeerWrites \/ PeerReads \/ PeerEnds \/ PeerLeaves
    /\ UNCHANGED <<io, attached, running, userRef, reactor, calls, timeouts, aux>>

RunTask ==
    \/ \E t \in {"attach", "reattach"} : RunAttach(t)
    \/ RunWrite \/ RunData \/ RunReady \/ RunClose \/ RunTimeout \/ RunFree
    \/ RunTouch \/ RunUnsuspend \/ CallbackReturns

Cycle ==
    \/ Tick \/ WorkEnds \/ Shutdown \/ OnShutdownReturns \/ ShutdownTick
    \/ ShutdownOver \/ ForceClose \/ ReactorDone

Next == Api \/ Free \/ RunTask \/ Cycle \/ Stop \/ Peer

(* The reactor's thread goes on, callbacks return, the shutdown timeout    *)
(* ends, the other thread gives its reference back, and the peer reads     *)
(* what it is sent.                                                        *)
Fairness ==
    /\ WF_vars(RunTask \/ Cycle)
    /\ SF_vars(ShutdownOver)
    /\ WF_vars(Free)
    /\ WF_vars(Peer /\ PeerReads)

Spec == Init /\ [][Next]_vars /\ Fairness

-----------------------------------------------------------------------------
TypeOK ==
    /\ io.flags \subseteq Flag /\ io.refs \in Nat /\ io.tasks \in Seq(AnyTask)
    /\ io.armed \subseteq {"in", "out"} /\ io.stream \in Nat /\ io.closes \in {0, 1}
    /\ attached \in BOOLEAN /\ userRef \in BOOLEAN /\ stop \in BOOLEAN
    /\ running \in Callback \cup {"none"}
    /\ phase \in {"work", "ending", "shutdown", "forced", "done"}
    /\ inbox \in BOOLEAN /\ room \in BOOLEAN /\ peer \in {"open", "half", "gone"}
    /\ calls \in 0 .. MaxCalls /\ timeouts \in 0 .. MaxTimeouts
    /\ lost \in Nat /\ abrupt \in BOOLEAN /\ fault \in BOOLEAN

Queued(S) == {i \in 1 .. Len(io.tasks) : io.tasks[i] \in S}
One(b) == IF b THEN 1 ELSE 0

(* Every reference has one owner: an open IO's own, the tasks that were    *)
(* deferred with one, the task that runs, the other thread.  So the object *)
(* is not destroyed while a task that owns a reference is queued, and it   *)
(* is destroyed when the last owner is done.                               *)
RefsOK ==
    io.refs = Cardinality(Queued(RefTask)) + One(Has(io, "OPEN")) + One(userRef)
              + One(running \notin {"none", "on_shutdown"})

(* on_close is called once, and no callback runs after it.                 *)
OnCloseOnce ==
    /\ io.closes = One(~Alive)
    /\ running # "none" => Alive

(* The object lives as long as it has owners, and says goodbye once.       *)
LifeOK == TypeOK /\ RefsOK /\ OnCloseOnce

(* A flag that says a task is scheduled is never left behind without the   *)
(* task (nothing would ever be scheduled again), and on_ready is scheduled *)
(* at most once.                                                           *)
ScheduledOK ==
    Alive =>
        /\ Cardinality(Queued({"ready"})) = One(Has(io, "WRITE_SCHD"))
        /\ Has(io, "DATA_SCHD") => Queued({"data"}) # {}
        /\ Has(io, "TOUCH") => Queued({"touch"}) # {}

(* A flag that says the socket is monitored is never left behind without   *)
(* the monitor, unless the event is on its way as a task.                  *)
MonitoredOK ==
    /\ Has(io, "POLLIN_SET") => "in" \in io.armed \/ Queued({"data"}) # {}
    /\ Has(io, "POLLOUT_SET") /\ peer = "open" =>
          "out" \in io.armed \/ Queued({"ready"}) # {}

(* The flags tell the truth about the queue and about the kernel's set.    *)
FlagsOK == ScheduledOK /\ MonitoredOK

(* An IO that is neither suspended, throttled nor closing hears of new     *)
(* data: its input is monitored, or something will monitor it again.       *)
NeverDeaf ==
    Alive /\ attached /\ io.flags \cap (PreventOnData \cup ClosedAll) = {} =>
        \/ "in" \in io.armed
        \/ Queued({"data", "unsuspend", "reattach"}) # {}
        \/ running \in {"attach", "reattach", "data"}

(* Data that waits in the stream of an open IO is sent when the socket has *)
(* room: its output is monitored, or on_ready is scheduled.                *)
OutputWaits == io.stream > 0 /\ Has(io, "OPEN")
OutputNoticed == "out" \in io.armed \/ Queued({"ready", "close"}) # {}

NeverStuck == OutputWaits /\ peer = "open" => OutputNoticed

(* The same whatever the peer does.                                        *)
NeverStuckHalfClosed == OutputWaits => OutputNoticed

(* fio_io_close closes the IO, once the peer has read what was written.    *)
ClosesEventually ==
    (Has(io, "CLOSE") /\ peer = "open") ~>
        (~Alive \/ phase = "done" \/ peer # "open")

(* The reactor stops, whatever its connections do.                         *)
ReactorStops == stop ~> (phase = "done")

(* fio_io_close sends what was scheduled before it: unless somebody asks   *)
(* for an immediate closure no accepted packet is dropped.                 *)
CloseSendsAll == ~abrupt => lost = 0

(* No task uses the object after it was destroyed.                         *)
NoUseAfterFree == ~fault

(* on_shutdown is followed by fio_io_close.                                *)
ShutdownCloses == [][OnShutdownReturns => Has(io', "CLOSE")]_vars
=============================================================================
