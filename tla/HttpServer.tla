----------------------------- MODULE HttpServer -----------------------------
(***************************************************************************)
(* An HTTP/1.1 connection of a server: fio___http_connection_s between the *)
(* parser that fills requests in, the reactor that owns the IO, the queue  *)
(* on which the application's callbacks run, and the handles (fio_http_s)  *)
(* that travel between them.                                               *)
(*                                                                         *)
(* Three reference counts hold it together.  The IO is held by being open, *)
(* by every request that has been handed to the application and by tasks;  *)
(* the connection by its IO and by every handle; a handle by whoever has   *)
(* it.  While a request is with the application the IO is suspended, so    *)
(* that the next pipelined request stays in the buffer until then.         *)
(*                                                                         *)
(* The client's bytes are tokens, the smallest pieces the parser treats    *)
(* apart, tagged with their message.  Reading, parsing and the tasks run   *)
(* in the reactor's thread, one at a time; the callbacks run in another.   *)
(***************************************************************************)
EXTENDS Integers, FiniteSets, SequencesExt

CONSTANTS
    Kinds,          \* the kinds of messages that the client sends
    MaxMessages,    \* bound on the number of messages
    MaxHandles      \* bound on the handles that are made before the IO is
                    \* flushed: an invalid target is parsed, and answered,
                    \* again and again while its IO waits to close

ASSUME BoundAssumption == MaxMessages \in Nat /\ MaxHandles \in Nat

(* What the client sends for each kind.  "large": the announced length is  *)
(* over the limit; "over": the body grows over it; "long": a header that   *)
(* is; "refuse", "deny": the `Expect` header is answered by an error, of   *)
(* the library or of pre_http_body; "lead" is the P that a POST shares     *)
(* with the preface of HTTP/2.                                             *)
Tokens(k) ==
    CASE k = "get"     -> <<"line", "end">>
      [] k = "post"    -> <<"line", "chunk", "end">>
      [] k = "lead"    -> <<"lead", "line", "end">>
      [] k = "target"  -> <<"target">>
      [] k = "junk"    -> <<"line", "junk">>
      [] k = "long"    -> <<"line", "long", "end">>
      [] k = "large"   -> <<"line", "large", "chunk", "end">>
      [] k = "over"    -> <<"line", "over", "end">>
      [] k = "expect"  -> <<"line", "expect", "chunk", "end">>
      [] k = "refuse"  -> <<"line", "refuse">>
      [] k = "deny"    -> <<"line", "deny">>
      [] k = "upgrade" -> <<"upgrade", "end">>

Message == 1..MaxMessages

VARIABLES
    io,         \* the connection's IO
    c,          \* fio___http_connection_s
    hs,         \* every handle that was made, in order
    tasks,      \* fio_io_queue(): the reactor's tasks for this connection
    calls,      \* c->queue: the application's callbacks that are due
    user,       \* the callback that runs, and the handles the application kept
    client,     \* what the client has sent and still has to send
    wire,       \* tokens that were not read
    log         \* auxiliary: responses sent, on_finish calls, whether the
                \* IO closed within a request, use of a released object

server == <<io, c, hs, tasks, log>>
vars == <<server, calls, user, client, wire>>

(* The reactor's part of the state, which the functions of the source      *)
(* change, as one record.                                                  *)
S == [io |-> io, c |-> c, hs |-> hs, tasks |-> tasks, log |-> log]
Become(s) ==
    /\ io' = s.io /\ c' = s.c /\ hs' = s.hs /\ tasks' = s.tasks /\ log' = s.log

(* fio___http_on_attach_accept has made the connection.                    *)
Init ==
    /\ io = [refs |-> 1, open |-> TRUE, closing |-> FALSE, suspended |-> FALSE,
             protocol |-> "accept"]
    /\ c = [refs |-> 1, io |-> TRUE, h |-> 0, suspend |-> FALSE, within |-> FALSE,
            buf |-> <<>>]
    /\ hs = <<>> /\ tasks = <<>> /\ calls = <<>>
    /\ user = [running |-> 0, kept |-> {}]
    /\ client = [made |-> 0, todo |-> <<>>, kinds |-> <<>>]
    /\ wire = <<>>
    /\ log = [sent |-> <<>>, finished |-> [m \in Message |-> 0], half |-> FALSE,
              fault |-> FALSE]

-----------------------------------------------------------------------------
(* References and tasks.                                                   *)

Defer(s, t, h) == [s EXCEPT !.tasks = Append(@, [t |-> t, h |-> h])]
Fault(s, bad) == [s EXCEPT !.log.fault = @ \/ bad]

(* fio_io_dup, fio_io_free *)
DupIo(s) == [Fault(s, s.io.refs = 0) EXCEPT !.io.refs = @ + 1]
FreeIoLater(s) == Defer(s, "free", 0)

(* fio___http_connection_dup, fio___http_connection_free *)
DupConnection(s) == [Fault(s, s.c.refs = 0) EXCEPT !.c.refs = @ + 1]
FreeConnection(s) ==
    IF s.c.refs = 0 THEN Fault(s, TRUE) ELSE [s EXCEPT !.c.refs = @ - 1]

(* fio_io_write2, of a response: nothing is sent once the IO closes.       *)
Send(s, h) ==
    IF s.c.io /\ s.io.open /\ ~s.io.closing
    THEN [s EXCEPT !.log.sent = Append(@, s.hs[h].msg)] ELSE s

(* (A mistake to guard against: the task is left to the handle's end.)     *)
RespondOnly(s, h) ==
    [Send(Fault(s, s.c.refs = 0), h) EXCEPT !.hs[h].writer = "done",
                     !.log.finished[s.hs[h].msg] = @ + 1]

(* A response: fio_http_write with `finish`, then the controller's         *)
(* on_finish, which calls the application's and defers the task that ends  *)
(* the request.                                                            *)
Respond(s, h) ==
    Defer([Send(Fault(s, s.c.refs = 0), h) EXCEPT
             !.hs[h].writer = "done",
             !.log.finished[s.hs[h].msg] = @ + 1], "finish", 0)

(* fio_http_upgrade_websocket, fio_http_upgrade_sse: on_finish waits.      *)
Upgrade(s, h) ==
    Defer([Send(s, h) EXCEPT !.hs[h].writer = "upgraded"], "finish", h)

(* fio_http_send_error_response, whose result the callers test: when the   *)
(* response was not sent they drop the IO's reference themselves.          *)
SendError(s, h) ==
    IF s.hs[h].writer = "start" THEN Respond(s, h) ELSE FreeIoLater(s)

(* fio_http_free, with fio_http_destroy and on_destroyed.  A handle that   *)
(* was not finished is finished here.                                      *)
FreeHandle(s, h) ==
    IF h = 0 THEN s
    ELSE IF s.hs[h].refs # 1
    THEN [Fault(s, s.hs[h].refs = 0) EXCEPT !.hs[h].refs = IF @ = 0 THEN 0 ELSE @ - 1]
    ELSE LET done == IF s.hs[h].writer = "start" THEN Respond(s, h) ELSE s
         IN  Defer([done EXCEPT !.hs[h].refs = 0], "destroyed", 0)

(* fio___http_on_close; fio___websocket_on_close and fio___sse_on_close    *)
(* call the application's on_finish.  The protocol that replaces one whose *)
(* upgrade failed does nothing.                                            *)
OnClose(s) ==
    LET off == [s EXCEPT !.c.io = FALSE,
                         !.log.half = @ \/ (s.io.protocol # "ws" /\ s.c.h # 0)]
        told == IF s.io.protocol # "ws" \/ s.c.h = 0 THEN off
                ELSE [off EXCEPT !.log.finished[s.hs[s.c.h].msg] = @ + 1]
    IN  IF s.io.protocol = "none" THEN s
        ELSE FreeConnection(FreeHandle(told, s.c.h))

(* fio___io_free2 *)
FreeIo(s) ==
    IF s.io.refs = 0 THEN Fault(s, TRUE)
    ELSE LET less == [s EXCEPT !.io.refs = @ - 1]
         IN  IF less.io.refs = 0 THEN OnClose(less) ELSE less

(* fio_io_close_now *)
CloseNow(s) == FreeIoLater([s EXCEPT !.io.open = FALSE, !.io.closing = TRUE])

-----------------------------------------------------------------------------
(* The parser's callbacks.                                                 *)

(* fio_http1_attach_handle *)
AttachHandle(s, m, up) ==
    LET h == Len(s.hs) + 1
    IN  [DupConnection(s) EXCEPT
           !.hs = Append(@, [refs |-> 1, writer |-> "start", msg |-> m, up |-> up]),
           !.c.h = h]

(* (A mistake to guard against: the request borrows the IO's reference.)   *)
OnCompleteBorrowed(s) ==
    Defer([s EXCEPT !.io.suspended = TRUE, !.c.h = 0, !.c.suspend = TRUE,
                    !.c.within = FALSE], "on_http", s.c.h)

(* (A mistake to guard against: the next request is parsed as well.)       *)
OnCompleteAndGoOn(s) ==
    Defer([DupIo(s) EXCEPT !.c.h = 0, !.c.within = FALSE], "on_http", s.c.h)

(* fio_http1_on_complete *)
OnComplete(s) ==
    Defer([DupIo(s) EXCEPT !.io.suspended = TRUE, !.c.h = 0, !.c.suspend = TRUE,
                           !.c.within = FALSE], "on_http", s.c.h)

(* fio___http_request_too_big *)
TooBig(s) ==
    LET held == [DupIo(s) EXCEPT !.io.suspended = TRUE, !.c.h = 0, !.c.suspend = TRUE]
    IN  FreeHandle(SendError(held, s.c.h), s.c.h)

(* fio_http1_on_expect, when the answer is an error: the parser starts     *)
(* over.  Only an error of the library takes a reference for its response. *)
Refused(s, held) ==
    LET start == [s EXCEPT !.c.within = FALSE, !.c.h = 0]
    IN  IF s.c.h = 0 THEN start
        ELSE FreeHandle(SendError(IF held THEN DupIo(start) ELSE start, s.c.h), s.c.h)

(* The tokens at which the parser gives up, before or in a callback.       *)
Broken(s, k) ==
    IF s.c.within
    THEN \/ k \in {"line", "lead", "target", "upgrade", "junk"}
         \/ k \in {"chunk", "over"} /\ s.c.h = 0
         \/ k = "long" /\ s.c.h # 0
    ELSE k \notin {"line", "lead", "upgrade"}

(* What the parser has done when it gives up: a handle whose target is     *)
(* invalid was made; a header that is too long was answered.               *)
BeforeBreaking(s, tok) ==
    IF tok.k = "target" /\ ~s.c.within THEN AttachHandle(s, tok.m, FALSE)
    ELSE IF tok.k = "long" /\ s.c.within THEN Respond(s, s.c.h) ELSE s

(* fio_http1_on_method and the rest of the first line, on_header,          *)
(* on_header_content_length, on_expect, on_body_chunk, on_complete.        *)
Accepted(s, tok) ==
    CASE tok.k \in {"line", "upgrade"} ->
            [AttachHandle(s, tok.m, tok.k = "upgrade") EXCEPT !.c.within = TRUE]
      [] tok.k = "end" -> OnComplete(s)
      [] tok.k = "over" -> TooBig(s)
      [] tok.k = "large" /\ s.c.h # 0 -> TooBig(s)
      [] tok.k = "refuse" -> Refused(s, TRUE)
      [] tok.k = "deny" -> Refused(s, FALSE)
      [] OTHER -> s

(* fio___http1_process_data at its labels http1_error and http1_abuse.     *)
GiveUp(s) ==
    LET h == s.c.h
        off == [s EXCEPT !.c.h = 0]
        answered == IF h = 0 THEN s ELSE FreeHandle(SendError(DupIo(off), h), h)
    IN  IF answered.io.open THEN [answered EXCEPT !.io.closing = TRUE] ELSE answered

(* fio___http1_process_data: messages are parsed until one suspends the    *)
(* connection.  A call of the parser that fails consumes nothing.          *)
ParseToken(a, tok) ==
    IF a.stop THEN [a EXCEPT !.left = Append(@, tok)]
    ELSE IF Broken(a.s, tok.k)
    THEN [s |-> GiveUp(BeforeBreaking(a.s, tok)), left |-> Append(a.call, tok),
          call |-> <<>>, stop |-> TRUE]
    ELSE LET s == Accepted(a.s, tok)
         IN  [s |-> s, left |-> <<>>,
              call |-> IF s.c.within THEN Append(a.call, tok) ELSE <<>>,
              stop |-> ~s.c.within /\ s.c.suspend]

ProcessData(s) ==
    LET none == [s |-> s, left |-> <<>>, call |-> <<>>, stop |-> FALSE]
        all == FoldLeft(ParseToken, none, s.c.buf)
    IN  [all.s EXCEPT !.c.buf = all.left]

-----------------------------------------------------------------------------
(* The reactor.                                                            *)

Listens ==
    /\ io.open /\ ~io.closing /\ ~io.suspended /\ wire # <<>>
    /\ ~\E i \in DOMAIN tasks : tasks[i].t \in {"http", "ws", "none"}

(* fio___http1_accept_on_data.  While all there is may be the preface of   *)
(* HTTP/2 more is read; the length is then that of the last read.          *)
AcceptOnData ==
    /\ io.protocol = "accept" /\ Listens
    /\ LET read == [S EXCEPT !.c.buf = SubSeq(c.buf \o wire, 1, Len(wire))]
           lead == Len(read.c.buf) = 1 /\ read.c.buf[1].k = "lead"
       IN  Become(IF lead THEN read ELSE Defer(DupIo(read), "http", 0))
    /\ wire' = <<>>
    /\ UNCHANGED <<calls, user, client>>

(* fio___http1_on_data *)
Http1OnData ==
    /\ io.protocol = "http" /\ Listens
    /\ Become(ProcessData([S EXCEPT !.c.buf = c.buf \o wire]))
    /\ wire' = <<>>
    /\ UNCHANGED <<calls, user, client>>

(* Each task of the reactor's queue, as a function of the reactor's state. *)

(* fio___io_protocol_set, with the on_attach of the protocol.              *)
SetProtocol(s, p) ==
    LET set == [s EXCEPT !.io.protocol = p]
    IN  FreeIo(IF p = "http" THEN ProcessData(set) ELSE set)

(* (A mistake to guard against: the buffered requests wait for more data.) *)
FinishPlainOnly(s) ==
    LET go == [s EXCEPT !.c.suspend = FALSE, !.io.suspended = FALSE]
    IN  IF ~s.c.io THEN FreeConnection(go) ELSE FreeIoLater(go)

(* fio___http_controller_http1_on_finish_task: the request is over.        *)
FinishPlain(s) ==
    LET go == [Fault(s, s.c.refs = 0) EXCEPT !.c.suspend = FALSE]
        next == IF s.io.open THEN ProcessData(go) ELSE go
    IN  IF ~s.c.io THEN FreeConnection(go)
        ELSE FreeIoLater([next EXCEPT !.io.suspended = @ /\ next.c.suspend])

(* The same, of a request that was upgraded; at something_is_wrong the     *)
(* protocol is dropped and nobody takes the handle.                        *)
FinishUpgraded(s, h) ==
    LET go == [Fault(s, s.c.refs = 0 \/ ~s.c.io) EXCEPT !.c.suspend = FALSE]
    IN  IF s.c.h # 0 \/ ~s.io.open
        THEN FreeConnection(FreeIoLater(Defer(DupIo(go), "none", 0)))
        ELSE FreeIoLater([Defer(DupIo(go), "ws", 0)
                            EXCEPT !.c.h = h, !.io.suspended = FALSE])

RunTask(s, task) ==
    CASE task.t = "free" -> FreeIo(s)
      [] task.t \in {"http", "ws", "none"} -> SetProtocol(s, task.t)
      [] task.t = "destroyed" -> FreeConnection(s)
      [] task.t = "finish" /\ task.h = 0 -> FinishPlain(s)
      [] task.t = "finish" /\ task.h # 0 -> FinishUpgraded(s, task.h)
      [] task.t = "on_http" -> Fault(s, task.h = 0)

(* fio_queue_perform, of the reactor's queue.  on_http_callback            *)
(* (fio___http_on_http_direct) queues the application's callback.          *)
Perform ==
    /\ tasks # <<>>
    /\ Len(hs) < MaxHandles \/ ~io.closing \/ ~io.open
    /\ Become(RunTask([S EXCEPT !.tasks = Tail(@)], Head(tasks)))
    /\ calls' = IF Head(tasks).t = "on_http" /\ Head(tasks).h # 0
                THEN Append(calls, Head(tasks).h) ELSE calls
    /\ UNCHANGED <<user, client, wire>>

(* The output was flushed, and the IO that was to close is closed.         *)
Flushed ==
    /\ io.open /\ io.closing
    /\ Become(CloseNow(S))
    /\ UNCHANGED <<calls, user, client, wire>>

(* The client has gone, or the connection timed out.                       *)
Disconnect ==
    /\ io.open
    /\ Become(CloseNow(S))
    /\ UNCHANGED <<calls, user, client, wire>>

-----------------------------------------------------------------------------
(* The application, in the thread of c->queue and in a thread of its own.  *)

(* fio___http_perform_user_callback and                                    *)
(* fio___http_perform_user_upgrade_callback_websocket or _sse begin.       *)
CallBegins ==
    /\ user.running = 0 /\ calls # <<>>
    /\ calls' = Tail(calls)
    /\ LET h == Head(calls)
       IN  IF hs[h].up /\ ~io.open
           THEN Become(FreeHandle(SendError(S, h), h)) /\ UNCHANGED user
           ELSE user' = [user EXCEPT !.running = h] /\ UNCHANGED server
    /\ UNCHANGED <<client, wire>>

Running == user.running # 0 /\ ~hs[user.running].up

(* on_http responds. *)
CallResponds ==
    /\ Running /\ hs[user.running].writer = "start" /\ user.running \notin user.kept
    /\ Become(Respond(S, user.running))
    /\ UNCHANGED <<calls, user, client, wire>>

(* on_http keeps the handle (fio_http_dup), to respond later.              *)
CallKeeps ==
    /\ Running /\ hs[user.running].writer = "start" /\ user.running \notin user.kept
    /\ Become([S EXCEPT !.hs[user.running].refs = @ + 1])
    /\ user' = [user EXCEPT !.kept = @ \cup {user.running}]
    /\ UNCHANGED <<calls, client, wire>>

(* on_http returns, with or without a response. *)
CallReturns ==
    /\ Running
    /\ Become(FreeHandle(S, user.running))
    /\ user' = [user EXCEPT !.running = 0]
    /\ UNCHANGED <<calls, client, wire>>

(* Another thread of the application responds and frees the handle.        *)
KeptResponds ==
    \E h \in user.kept :
        /\ hs[h].writer = "start"
        /\ Become(Respond(S, h))
        /\ UNCHANGED <<calls, user, client, wire>>

KeptFreed ==
    \E h \in user.kept :
        /\ Become(FreeHandle(S, h))
        /\ user' = [user EXCEPT !.kept = @ \ {h}]
        /\ UNCHANGED <<calls, client, wire>>

(* The upgrade is authorized, or denied. *)
UpgradeDecided ==
    /\ user.running # 0 /\ hs[user.running].up
    /\ \E allow \in BOOLEAN :
           Become(IF allow /\ c.h = 0 THEN Upgrade(S, user.running)
                  ELSE FreeHandle(SendError(S, user.running), user.running))
    /\ user' = [user EXCEPT !.running = 0]
    /\ UNCHANGED <<calls, client, wire>>

-----------------------------------------------------------------------------
(* The client: one message after another, without waiting for responses    *)
(* (pipelining), except for the answer to an `Expect` header.              *)

ClientSends ==
    /\ io.open
    /\ \/ /\ client.todo = <<>> /\ client.made < MaxMessages
          /\ \E k \in Kinds :
                /\ wire' = Append(wire, [k |-> Head(Tokens(k)), m |-> client.made + 1])
                /\ client' = [made |-> client.made + 1, todo |-> Tail(Tokens(k)),
                              kinds |-> Append(client.kinds, k)]
       \/ /\ client.todo # <<>>
          /\ wire' = Append(wire, [k |-> Head(client.todo), m |-> client.made])
          /\ client' = [client EXCEPT !.todo = Tail(@)]
    /\ client.kinds # <<>> /\ Last(client.kinds) \in {"expect", "refuse", "deny"} =>
           wire = <<>> /\ tasks = <<>>
    /\ UNCHANGED <<server, calls, user>>

Next ==
    \/ AcceptOnData \/ Http1OnData \/ Perform \/ Flushed \/ Disconnect
    \/ CallBegins \/ CallResponds \/ CallKeeps \/ CallReturns
    \/ KeptResponds \/ KeptFreed \/ UpgradeDecided
    \/ ClientSends

Spec == Init /\ [][Next]_vars

-----------------------------------------------------------------------------
(* Properties.                                                             *)

Handles == DOMAIN hs
Piece == [k : UNION {ToSet(Tokens(k)) : k \in Kinds}, m : Message]
TypeOK ==
    /\ io \in [refs : Nat, open : BOOLEAN, closing : BOOLEAN, suspended : BOOLEAN,
               protocol : {"accept", "http", "ws", "none"}]
    /\ c \in [refs : Nat, io : BOOLEAN, h : Handles \cup {0}, suspend : BOOLEAN,
              within : BOOLEAN, buf : Seq(Piece)]
    /\ hs \in Seq([refs : Nat, writer : {"start", "done", "upgraded"}, msg : Message,
                   up : BOOLEAN])
    /\ tasks \in Seq([t : {"free", "http", "ws", "none", "destroyed", "finish", "on_http"},
                      h : Handles \cup {0}])
    /\ calls \in Seq(Handles) /\ wire \in Seq(Piece)
    /\ user.running \in Handles \cup {0} /\ user.kept \subseteq Handles
    /\ client.made = Len(client.kinds) /\ client.made <= MaxMessages

Live == {h \in Handles : hs[h].refs > 0}
TasksOf(ts) == Cardinality({i \in DOMAIN tasks : tasks[i].t \in ts})

(* The requests that the application has and has not answered.             *)
InFlight == {h \in Live : hs[h].writer = "start" /\ h # c.h}

(* Nothing is left to run.                                                 *)
Quiet == tasks = <<>> /\ calls = <<>> /\ user.running = 0 /\ user.kept = {}

(* The handles of upgrades that were cut short: the client left between    *)
(* the 101 response and the change of protocols, and nobody has them.      *)
Stranded ==
    {h \in Live : hs[h].writer = "upgraded" /\ h # c.h
                  /\ ~\E i \in DOMAIN tasks : tasks[i] = [t |-> "finish", h |-> h]}

(* The accounts balance: the IO is held by being open, once for each       *)
(* request in flight and by the tasks that will drop a reference; the      *)
(* connection by its IO and its handles.  So no task, callback or thread   *)
(* meets a released object, whichever order they come in, and none is      *)
(* dropped twice.  Once the IO has closed within a request they no longer  *)
(* do: its handle is finished when there is no IO left to give back.       *)
RefsBalance ==
  /\ TypeOK
  /\ ~log.half =>
    /\ ~log.fault
    /\ io.refs = (IF io.open THEN 1 ELSE 0) + Cardinality(InFlight)
                 + TasksOf({"finish", "free", "http", "ws", "none"})
    /\ c.refs = (IF io.refs > 0 /\ io.protocol # "none" /\ TasksOf({"none"}) = 0
                 THEN 1 ELSE 0)
                + Cardinality(Live) + TasksOf({"destroyed"})

(* Requests are taken one at a time: the application never has two         *)
(* unanswered requests of a connection, whatever the client pipelines, and *)
(* the responses leave in the order of the requests, one for each.         *)
InTurn ==
    /\ Cardinality(InFlight) <= 1
    /\ \A i, j \in DOMAIN log.sent : i < j => log.sent[i] < log.sent[j]

(* When nothing is left to run, an open connection listens and has         *)
(* answered every message that was sent whole; and a closed one has given  *)
(* everything back, but for a handle whose upgrade was cut short.          *)
NothingStuck ==
    Quiet =>
      /\ io.open /\ ~io.closing =>
           /\ ~io.suspended
           /\ wire = <<>> /\ client.todo = <<>> /\ io.protocol # "ws" =>
                \A m \in 1..client.made : \E i \in DOMAIN log.sent : log.sent[i] = m
      /\ ~io.open =>
           /\ io.refs = 0 /\ Live = Stranded
           /\ c.refs = IF log.half THEN 0 ELSE Cardinality(Stranded)

(* What the source says of the reference it takes for a callback: "make    *)
(* sure the IO and its data are valid in callback".  Refuted when the      *)
(* client leaves within a request.                                         *)
ValidInCallback == ~log.fault

(* Everything is given back.  Refuted by an upgrade that is cut short.     *)
AllGivenBack == Quiet /\ ~io.open => Live = {} /\ c.refs = 0

(* on_finish is called "when a request / response cycle is finished", once *)
(* for each request.  Refuted by a request whose target is invalid.        *)
FinishedOnce == \A m \in Message : log.finished[m] <= 1
=============================================================================
