------------------------------- MODULE Redis -------------------------------
(***************************************************************************)
(* The Redis engine of the root process: one connection that carries       *)
(* commands in lock step and subscriptions without waiting, a queue of     *)
(* commands that survives the loss of the connection, retry timers, and    *)
(* the engine's reference count, which tasks, timers, the application and  *)
(* the pub/sub system share while connections only borrow it.              *)
(*                                                                         *)
(* The handlers are written as functions of the engine's state (a record   *)
(* of r, ios, tasks, timers and answers), as the source writes them as     *)
(* functions of the engine.  They run in the reactor's thread, in the      *)
(* order in which they were queued; the reactor polls once its queue holds *)
(* nothing that handlers have deferred.  The server and the network are    *)
(* external.                                                               *)
(***************************************************************************)
EXTENDS Naturals, Sequences, FiniteSets

CONSTANTS
    Commands,       \* the commands that fio_redis_send is called with
    Remote,         \* those among them that a worker process sends
    MaxBatch,       \* FIO_REDIS_MAX_BATCH
    MaxLosses,      \* bound on failed and lost connections
    MaxTimeouts,    \* bound on the calls of on_timeout
    MaxToggles,     \* bound on subscribing and unsubscribing
    Circumstances   \* what may happen beyond the above: see the operator May

(* Words that go over the wire besides commands and their replies, and the *)
(* reply of a call that gets none.  A command is an identity, told from    *)
(* these also when it is a PING; fio_redis_send must not be called with    *)
(* what subscribes.                                                        *)
NoWait == {"SUBSCRIBE", "UNSUBSCRIBE", "UNSUBSCRIBE all"}
Reserved == NoWait \cup {"HELLO", "PING", "push", "plain", "error", "garbage", "none"}

ASSUME RedisAssumption ==
    /\ Remote \subseteq Commands /\ Commands \cap Reserved = {}
    /\ MaxBatch \in Nat \ {0}
    /\ MaxLosses \in Nat /\ MaxTimeouts \in Nat /\ MaxToggles \in Nat

(* "refuse": the server may refuse the handshake.  "garbage": it may send  *)
(* what the parser refuses.  "unresolved": connecting may fail at once.    *)
(* "detach early", "detach late", "detach unused": the engine is detached  *)
(* before the handshake is over, while subscriptions are queued, before    *)
(* anything was subscribed.  "free early": it is freed while a worker's    *)
(* call is on its way.                                                     *)
May(what) == what \in Circumstances

VARIABLES
    r,          \* fio_redis_engine_s
    ios,        \* the IO objects of its connections, in order
    tasks,      \* fio_io_queue()
    timers,     \* retry timers that are armed
    answers,    \* answers[c]: the replies c's callback was called with
    app,        \* the references the application holds, what it has sent;
                \* whether the pub/sub system holds the engine, whether
                \* somebody subscribes to the channel
    spent       \* how much of each bound is used; whether the server ever
                \* refused the handshake

vars == <<r, ios, tasks, timers, answers, app, spent>>

NoIo == 0
ShouldWait(c) == c \notin NoWait

Engine == [r |-> r, ios |-> ios, tasks |-> tasks, timers |-> timers, answers |-> answers]
Become(s) ==
    /\ r' = s.r /\ ios' = s.ios /\ tasks' = s.tasks /\ timers' = s.timers
    /\ answers' = s.answers

Task(fn, arg, reply) == [fn |-> fn, arg |-> arg, reply |-> reply]
Defer(s, fn, arg, reply) == [s EXCEPT !.tasks = Append(@, Task(fn, arg, reply))]
Dup(s) == [s EXCEPT !.r.refs = @ + 1]

(* fio_redis_new, with the reference of the deferred connect, and          *)
(* fio_redis_dup: the application keeps a reference besides the one it may *)
(* give to the pub/sub system.                                             *)
Init ==
    /\ r = [refs |-> 3, running |-> TRUE, attached |-> FALSE, pub_sent |-> FALSE,
            io |-> NoIo, ready |-> FALSE, cmd_queue |-> <<>>, buf |-> <<>>]
    /\ ios = <<>>
    /\ tasks = <<Task("connect", NoIo, "none")>>
    /\ timers = 0
    /\ answers = [cmd \in Commands |-> <<>>]
    /\ \E subscribed \in BOOLEAN :
         app = [held |-> 2, sent |-> {}, calls |-> {}, system |-> FALSE, subscribed |-> subscribed]
    /\ spent = [losses |-> 0, timeouts |-> 0, toggles |-> 0, refused |-> FALSE]

-----------------------------------------------------------------------------
(* The IO object.                                                          *)

NewIo == [st |-> "connecting", closed |-> FALSE, owned |-> TRUE,
          up |-> <<>>, down |-> <<>>, proto |-> "none", subs |-> FALSE]

(* fio_io_write, which a closed IO ignores *)
Write(s, i, words) ==
    IF s.ios[i].closed THEN s ELSE [s EXCEPT !.ios[i].up = @ \o words]

(* fio_io_close_now *)
CloseNow(s, i) ==
    IF s.ios[i].closed THEN s
    ELSE Defer([s EXCEPT !.ios[i].closed = TRUE, !.ios[i].up = <<>>, !.ios[i].down = <<>>],
               "closed", i, "none")

-----------------------------------------------------------------------------
(* References and the end of the engine.                                   *)

Contents(q) == {q[k] : k \in DOMAIN q}

(* fio___redis_destroy: the engine stops, and the callbacks of what is     *)
(* still queued are called with no reply.                                  *)
Drained(s) ==
    [s EXCEPT !.r.running = FALSE, !.r.io = NoIo, !.r.cmd_queue = <<>>,
              !.answers = [cmd \in Commands |->
                             IF cmd \in Contents(s.r.cmd_queue) THEN Append(@[cmd], "none") ELSE @[cmd]]]

(* (A mistake to guard against: the IO keeps its pointer to the engine.)   *)
DestroyOnly(s) == IF s.r.io = NoIo THEN Drained(s) ELSE CloseNow(Drained(s), s.r.io)

(* fio___redis_destroy.  The IO forgets the engine before it is closed.    *)
Destroy(s) ==
    IF s.r.io = NoIo THEN Drained(s)
    ELSE CloseNow([Drained(s) EXCEPT !.ios[s.r.io].owned = FALSE], s.r.io)

(* fio___redis_free *)
Free(s) ==
    LET less == [s EXCEPT !.r.refs = @ - 1]
    IN  IF less.r.refs = 0 THEN Destroy(less) ELSE less

-----------------------------------------------------------------------------
(* The queue of commands.                                                  *)

(* fio___redis_send_next_cmd: from the head, up to and including the first *)
(* command that waits for a reply; that one stays queued.                  *)
SendNextCmd(s) ==
    IF s.r.pub_sent \/ s.r.io = NoIo \/ ~s.r.ready THEN s
    ELSE LET q == s.r.cmd_queue
             waits == {k \in 1..Len(q) : ShouldWait(q[k])}
             k == IF waits = {} THEN Len(q) + 1 ELSE CHOOSE m \in waits : \A n \in waits : m <= n
         IN  Write([s EXCEPT !.r.cmd_queue = SubSeq(q, k, Len(q)),
                             !.r.pub_sent = (waits # {})],
                   s.r.io, SubSeq(q, 1, IF waits = {} THEN k - 1 ELSE k))

(* fio___redis_queue_cmd_bytes, at the tail and at the head *)
Queue(s, cmd) == [s EXCEPT !.r.cmd_queue = Append(@, cmd)]
QueueFirst(s, cmd) == [s EXCEPT !.r.cmd_queue = <<cmd>> \o @]

(* fio___redis_sub_send *)
SubSend(s, verb) == IF s.r.running THEN SendNextCmd(Queue(s, verb)) ELSE s

(* fio___redis_attach_cmd_task, with the reference of fio___redis_attach_cmd *)
AttachCmd(s, cmd) ==
    Free(IF s.r.running THEN SendNextCmd(Queue(s, cmd))
         ELSE [s EXCEPT !.answers[cmd] = Append(@, "none")])

(* fio___redis_on_pub_message: a reply is for the head of the queue.       *)
OnPubMessage(s, reply) ==
    LET q == s.r.cmd_queue
        popped == [s EXCEPT !.r.cmd_queue = IF q = <<>> THEN q ELSE Tail(q),
                            !.r.pub_sent = FALSE]
        next == SendNextCmd(popped)
    IN  IF q = <<>> THEN next ELSE Defer(Dup(next), "perform_callback", Head(q), reply)

(* fio___redis_on_hello_reply *)
OnHelloReply(s, reply) ==
    IF reply = "HELLO" THEN s
    ELSE LET off == [s EXCEPT !.r.running = FALSE]
         IN  IF s.r.io = NoIo THEN off ELSE CloseNow(off, s.r.io)

(* fio___redis_perform_callback; PING has no callback.                     *)
PerformCallback(s, cmd, reply) ==
    Free(CASE cmd = "HELLO" -> OnHelloReply(s, reply)
           [] cmd \in Commands -> [s EXCEPT !.answers[cmd] = Append(@, reply)]
           [] OTHER -> s)

-----------------------------------------------------------------------------
(* The connection.                                                         *)

(* A retry timer, with its reference, once the engine may reconnect.       *)
Retry(s) == Dup([s EXCEPT !.timers = @ + 1])

(* fio___redis_connect_impl.  fio_io_connect that fails at once returns    *)
(* NULL, and the reactor calls on_failed later all the same.               *)
ConnectImpl(s, resolved) ==
    IF ~s.r.running \/ s.r.io # NoIo THEN s
    ELSE IF resolved
    THEN [s EXCEPT !.ios = Append(@, NewIo), !.r.io = Len(s.ios) + 1]
    ELSE Retry(Defer(s, "closed", NoIo, "none"))

(* (A mistake to guard against: what was read is left for the next         *)
(* connection's replies.)                                                  *)
ResetOnly(s) == [s EXCEPT !.r.io = NoIo, !.r.ready = FALSE]

(* fio___redis_connection_reset *)
Reset(s) == [s EXCEPT !.r.io = NoIo, !.r.ready = FALSE, !.r.buf = <<>>]

(* fio___redis_purge_hello_cmds, one command of the queue after another    *)
PurgeHello(s) ==
    LET q == s.r.cmd_queue
        kept[k \in 0 .. Len(q)] ==
            IF k = 0 THEN <<>>
            ELSE IF q[k] = "HELLO" THEN kept[k - 1] ELSE Append(kept[k - 1], q[k])
    IN  [s EXCEPT !.r.cmd_queue = kept[Len(q)]]

(* fio___redis_on_close and fio___redis_on_connect_failed, which do the    *)
(* same to an engine that still is.                                        *)
OnClosed(s, i) ==
    LET gone == IF i = NoIo THEN s ELSE [s EXCEPT !.ios[i] = [NewIo EXCEPT !.st = "gone",
                                                !.closed = TRUE, !.owned = FALSE]]
        off == PurgeHello(Reset(gone))
    IN  IF i # NoIo /\ ~s.ios[i].owned THEN gone
        ELSE IF off.r.running THEN Retry(off) ELSE off

(* fio___redis_resubscribe queues what the pub/sub system knows of.        *)
Resubscribe(s) ==
    IF s.r.attached /\ s.r.running /\ app.subscribed THEN QueueFirst(s, "SUBSCRIBE") ELSE s

(* (A mistake to guard against: what was queued comes first.)              *)
OnAttachLast(s, i) ==
    SendNextCmd([Queue(Resubscribe([s EXCEPT !.r.io = i, !.r.ready = TRUE]), "HELLO")
                   EXCEPT !.r.pub_sent = FALSE])

(* (A mistake to guard against: the wait for a lost reply goes on.)        *)
OnAttachWaiting(s, i) ==
    SendNextCmd(QueueFirst(Resubscribe([s EXCEPT !.r.io = i, !.r.ready = TRUE]), "HELLO"))

(* fio___redis_on_attach *)
OnAttach(s, i) ==
    SendNextCmd([QueueFirst(Resubscribe([s EXCEPT !.r.io = i, !.r.ready = TRUE]), "HELLO")
                   EXCEPT !.r.pub_sent = FALSE])

(* fio___connecting_on_ready promotes an IO that is still open.            *)
OnReady(s, i) ==
    IF s.ios[i].closed THEN s ELSE OnAttach([s EXCEPT !.ios[i].st = "open"], i)

(* fio___redis_parse_buffered: push frames are not replies.  What the      *)
(* parser refuses closes the connection; what a batch leaves is deferred.  *)
OnFrame(s, frame) == IF frame = "push" THEN s ELSE OnPubMessage(s, frame)
ParseBuffered(s, i) ==
    LET buf == s.r.buf
        n == IF Len(buf) > MaxBatch THEN MaxBatch ELSE Len(buf)
        bad == {k \in 1..n : buf[k] = "garbage"}
        good == IF bad = {} THEN n ELSE (CHOOSE k \in bad : \A m \in bad : k <= m) - 1
        done[k \in 0 .. n] == IF k = 0 THEN s ELSE OnFrame(done[k - 1], buf[k])
        left == SubSeq(buf, n + 1, Len(buf))
    IN  IF bad # {} THEN CloseNow(done[good], i)
        ELSE LET kept == [done[good] EXCEPT !.r.buf = left]
             IN  IF left = <<>> THEN kept ELSE Defer(Dup(kept), "continue", NoIo, "none")

(* fio___redis_on_data, fio___redis_on_data_continue, of an IO that is     *)
(* open and whose udata is the engine                                      *)
OnData(s, i) ==
    IF s.ios[i].closed \/ ~s.ios[i].owned THEN s
    ELSE ParseBuffered([s EXCEPT !.r.buf = @ \o s.ios[i].down, !.ios[i].down = <<>>], i)
OnDataContinue(s) ==
    Free(IF ~s.r.running \/ s.r.io = NoIo THEN s ELSE ParseBuffered(s, s.r.io))

(* fio___redis_on_timeout *)
OnTimeout(s, i) ==
    IF s.ios[i].closed \/ ~s.ios[i].owned THEN s
    ELSE IF s.r.cmd_queue # <<>> THEN CloseNow(s, i)
    ELSE SendNextCmd(Queue(s, "PING"))

(* fio_redis_state *)
State ==
    CASE ~r.running -> "error"
      [] r.running /\ (r.io = NoIo \/ ~r.ready) -> "connecting"
      [] OTHER -> IF r.cmd_queue # <<>> /\ Head(r.cmd_queue) = "HELLO" THEN "connecting"
                  ELSE "connected"

-----------------------------------------------------------------------------
(* What the pub/sub system asks of the engine.                             *)

(* fio___redis_ensure_attached *)
EnsureAttached(s) ==
    IF s.r.attached THEN s
    ELSE LET on == [s EXCEPT !.r.attached = TRUE]
         IN  IF s.r.running /\ s.r.io = NoIo THEN Defer(Dup(on), "connect", NoIo, "none") ELSE on

(* fio___redis_subscribe, fio___redis_psubscribe *)
Subscribe(s) == SubSend(EnsureAttached(s), "SUBSCRIBE")

(* fio___redis_unsubscribe, fio___redis_punsubscribe *)
Unsubscribe(s) == IF s.r.attached THEN SubSend(s, "UNSUBSCRIBE") ELSE s

(* fio___redis_detached: what it writes does not pass through the queue.   *)
Detached(s) ==
    IF ~s.r.attached THEN s
    ELSE LET off == [s EXCEPT !.r.attached = FALSE]
         IN  Free(IF s.r.io = NoIo THEN off ELSE Write(off, s.r.io, <<"UNSUBSCRIBE all">>))

-----------------------------------------------------------------------------
(* The application, the pub/sub system and the workers.                    *)

(* fio_redis_send of the root *)
Send(cmd) ==
    /\ cmd \in Commands \ (Remote \cup app.sent) /\ app.held > 0
    /\ Become(Defer(Dup(Engine), "attach_cmd", cmd, "none"))
    /\ app' = [app EXCEPT !.sent = @ \cup {cmd}]
    /\ UNCHANGED spent

(* fio_redis_send of a worker calls the root.                              *)
SendRemote(cmd) ==
    /\ cmd \in Remote \ app.sent
    /\ app.held > 0 \/ app.system \/ May("free early")
    /\ app' = [app EXCEPT !.sent = @ \cup {cmd}, !.calls = @ \cup {cmd}]
    /\ UNCHANGED <<r, ios, tasks, timers, answers, spent>>

(* fio___redis_ipc_send_on_master.  The reply goes back the way it came    *)
(* when the callback, fio___redis_ipc_send_redis_reply, is called.         *)
SendOnMaster(cmd) ==
    /\ cmd \in app.calls
    /\ Become(IF r.running THEN Defer(Dup(Engine), "attach_cmd", cmd, "none")
              ELSE [Engine EXCEPT !.answers[cmd] = Append(@, "none")])
    /\ app' = [app EXCEPT !.calls = @ \ {cmd}]
    /\ UNCHANGED spent

(* fio_redis_free *)
FreeEngine ==
    /\ app.held > 0
    /\ app.calls = {} \/ May("free early")
    /\ Become(Free(Engine)) /\ app' = [app EXCEPT !.held = @ - 1]
    /\ UNCHANGED spent

(* fio_pubsub_engine_attach moves one of the application's references to   *)
(* the system, which tells the engine of what is subscribed to.            *)
EngineAttach ==
    /\ app.held > 0 /\ ~app.system
    /\ app' = [app EXCEPT !.held = @ - 1, !.system = TRUE]
    /\ Become(IF app.subscribed THEN Subscribe(Engine) ELSE Engine)
    /\ UNCHANGED spent

(* fio_pubsub_engine_detach *)
EngineDetach ==
    /\ app.system /\ app.held > 0
    /\ r.attached \/ May("detach unused")
    /\ r.io = NoIo \/ State # "connecting" \/ May("detach early")
    /\ (\A k \in 1..Len(r.cmd_queue) : r.cmd_queue[k] \notin NoWait) \/ May("detach late")
    /\ app' = [app EXCEPT !.system = FALSE]
    /\ Become(Detached(Engine))
    /\ UNCHANGED spent

(* fio___pubsub_channel_on_create, fio___pubsub_channel_on_destroy *)
Toggle ==
    /\ spent.toggles < MaxToggles
    /\ app' = [app EXCEPT !.subscribed = ~@]
    /\ Become(CASE ~app.system -> Engine
                [] app.system /\ ~app.subscribed -> Subscribe(Engine)
                [] app.system /\ app.subscribed -> Unsubscribe(Engine))
    /\ spent' = [spent EXCEPT !.toggles = @ + 1]

-----------------------------------------------------------------------------
(* The reactor.                                                            *)

(* It polls when its queue holds nothing but the events of this poll.      *)
Events == {"ready", "data", "timeout"}
Polling == \A k \in 1..Len(tasks) : tasks[k].fn \in Events
Due(fn, i) == Polling /\ ~\E k \in 1..Len(tasks) : tasks[k].fn = fn /\ tasks[k].arg = i
Open(i) == ios[i].st = "open" /\ ~ios[i].closed

Loss == /\ spent.losses < MaxLosses
        /\ spent' = [spent EXCEPT !.losses = @ + 1]

PollReady(i) ==
    /\ Due("ready", i) /\ ios[i].st = "connecting" /\ ~ios[i].closed
    /\ Become(Defer(Engine, "ready", i, "none"))
    /\ UNCHANGED <<app, spent>>

PollData(i) ==
    /\ Due("data", i) /\ Open(i) /\ ios[i].down # <<>>
    /\ Become(Defer(Engine, "data", i, "none"))
    /\ UNCHANGED <<app, spent>>

PollTimeout(i) ==
    /\ Due("timeout", i) /\ Open(i) /\ spent.timeouts < MaxTimeouts
    /\ Become(Defer(Engine, "timeout", i, "none"))
    /\ spent' = [spent EXCEPT !.timeouts = @ + 1]
    /\ UNCHANGED app

(* The connection is refused, or lost with everything on its way.          *)
PollLost(i) ==
    /\ Polling /\ ios[i].st \in {"connecting", "open"} /\ ~ios[i].closed
    /\ Loss
    /\ Become(CloseNow(Engine, i))
    /\ UNCHANGED app

(* fio___redis_connect_timer; fio___redis_connect_timer_cleanup releases   *)
(* the timer's reference as fio___redis_connect does its own.              *)
TimerFires ==
    /\ Polling /\ timers > 0
    /\ Become(Defer([Engine EXCEPT !.timers = @ - 1], "connect", NoIo, "none"))
    /\ UNCHANGED <<app, spent>>

(* A task: fio_queue_perform of what is first.  Connecting fails before    *)
(* there is an IO when fio_sock_open2 finds no address.                    *)
Rest == [Engine EXCEPT !.tasks = Tail(@)]
Unresolved ==
    May("unresolved") /\ Head(tasks).fn = "connect" /\ r.running /\ r.io = NoIo
Perform ==
    /\ tasks # <<>>
    /\ \E resolved \in IF Unresolved THEN BOOLEAN ELSE {TRUE} :
         LET t == Head(tasks)
         IN  /\ Become(CASE t.fn = "connect"          -> Free(ConnectImpl(Rest, resolved))
                         [] t.fn = "attach_cmd"       -> AttachCmd(Rest, t.arg)
                         [] t.fn = "perform_callback" -> PerformCallback(Rest, t.arg, t.reply)
                         [] t.fn = "continue"         -> OnDataContinue(Rest)
                         [] t.fn = "closed"           -> OnClosed(Rest, t.arg)
                         [] t.fn = "ready"            -> OnReady(Rest, t.arg)
                         [] t.fn = "data"             -> OnData(Rest, t.arg)
                         [] t.fn = "timeout"          -> OnTimeout(Rest, t.arg))
             /\ IF resolved THEN UNCHANGED spent ELSE Loss
    /\ UNCHANGED app

-----------------------------------------------------------------------------
(* The server answers what it was sent, in order.  Before the handshake it *)
(* speaks RESP2, which confirms subscriptions with ordinary replies.       *)
Confirmation(i) == IF ios[i].proto = "resp3" THEN "push" ELSE "plain"

Says(i, frame, proto) ==
    LET io == ios[i]
        word == Head(io.up)
        subs == (io.subs \/ word = "SUBSCRIBE") /\ word \notin NoWait \ {"SUBSCRIBE"}
    IN  ios' = [ios EXCEPT ![i] = [io EXCEPT !.up = Tail(io.up), !.proto = proto,
                                             !.subs = subs, !.down = Append(io.down, frame)]]
Serve(i) ==
    /\ Open(i) /\ ios[i].up # <<>>
    /\ LET word == Head(ios[i].up)
       IN  \/ word = "HELLO" /\ Says(i, word, "resp3") /\ UNCHANGED spent
           \/ word = "HELLO" /\ May("refuse") /\ Says(i, "error", "refused")
              /\ spent' = [spent EXCEPT !.refused = TRUE]
           \/ word \notin NoWait \cup {"HELLO"} /\ Says(i, word, ios[i].proto) /\ UNCHANGED spent
           \/ word \in NoWait /\ Says(i, Confirmation(i), ios[i].proto) /\ UNCHANGED spent
           \/ May("garbage") /\ Loss
              /\ Says(i, "garbage", IF word = "HELLO" THEN "refused" ELSE ios[i].proto)
    /\ UNCHANGED <<r, tasks, timers, answers, app>>

Next ==
    \/ \E cmd \in Commands : Send(cmd) \/ SendRemote(cmd) \/ SendOnMaster(cmd)
    \/ FreeEngine \/ EngineAttach \/ EngineDetach \/ Toggle
    \/ \E i \in 1..Len(ios) : PollReady(i) \/ PollData(i) \/ PollTimeout(i) \/ PollLost(i) \/ Serve(i)
    \/ TimerFires \/ Perform

Spec == Init /\ [][Next]_vars

-----------------------------------------------------------------------------
(* Properties.                                                             *)

Words == Commands \cup NoWait \cup {"HELLO", "PING"}
Frames == Words \cup {"push", "plain", "error", "garbage"}
TypeOK ==
    /\ r \in [refs : Nat, running : BOOLEAN, attached : BOOLEAN, pub_sent : BOOLEAN,
              io : 0..Len(ios), ready : BOOLEAN, cmd_queue : Seq(Words), buf : Seq(Frames)]
    /\ ios \in Seq([st : {"connecting", "open", "gone"}, closed : BOOLEAN, owned : BOOLEAN,
                    up : Seq(Words), down : Seq(Frames),
                    proto : {"none", "resp3", "refused"}, subs : BOOLEAN])
    /\ \A k \in DOMAIN tasks :
           LET t == tasks[k]
           IN  /\ t.reply \in Frames \cup {"none"}
               /\ IF t.fn \in {"attach_cmd", "perform_callback"} THEN t.arg \in Words
                  ELSE t.arg \in 0..Len(ios)
    /\ timers \in Nat /\ answers \in [Commands -> Seq(Frames \cup {"none"})]
    /\ app.held \in 0..2 /\ app.calls \subseteq app.sent /\ app.sent \subseteq Commands

(* The reference count is what its holders add up to: the application, the *)
(* pub/sub system, deferred tasks and retry timers.  Once it is zero the   *)
(* queue is empty and nothing refers to the engine any more: no open IO,   *)
(* no call of a worker, no notice of a failed attempt.                     *)
OwningTasks == {"connect", "attach_cmd", "perform_callback", "continue"}
RefsHeld ==
    /\ TypeOK
    /\ r.refs = app.held + (IF app.system THEN 1 ELSE 0) + timers
                + Cardinality({k \in 1..Len(tasks) : tasks[k].fn \in OwningTasks})
    /\ r.refs = 0 =>
         /\ r.cmd_queue = <<>> /\ app.calls = {}
         /\ \A i \in 1..Len(ios) : ~ios[i].owned
         /\ \A k \in 1..Len(tasks) : tasks[k].fn = "closed" => tasks[k].arg # NoIo

(* What is on the wire of the engine's connection is what the engine       *)
(* believes.  The handshake comes first, and once; of the commands that    *)
(* wait for a reply at most one is on its way, as a command or as a reply  *)
(* that was not parsed, and it is the head of the queue.                   *)
Stream(s, i) == s.r.buf \o s.ios[i].down \o s.ios[i].up
Waited(w) == w \notin NoWait \cup {"push"}
LockStep ==
    \A i \in 1..Len(ios) : Open(i) /\ ios[i].owned =>
       /\ r.io = i /\ r.ready
       /\ LET way == Stream(Engine, i)
              waited == {k \in DOMAIN way : Waited(way[k])}
          IN  ios[i].proto # "refused" /\ "garbage" \notin Contents(way) =>
                IF r.pub_sent THEN \E k \in waited : waited = {k} /\ way[k] = Head(r.cmd_queue)
                ELSE waited = {}
       /\ ios[i].proto = "none" => ios[i].up # <<>> /\ Head(ios[i].up) = "HELLO"

(* A command's callback is called once, with the server's reply to that    *)
(* command, or with no reply when the engine has stopped: it does not stop *)
(* unless the server refuses the handshake or its last reference is freed. *)
OwnAnswer ==
    /\ \A cmd \in Commands : answers[cmd] \in {<<>>, <<cmd>>} \/ (answers[cmd] = <<"none">> /\ ~r.running)
    /\ ~r.running => spent.refused \/ r.refs = 0

(* What the documentation promises and the code does not keep.             *)

(* fio_redis_state says "connected" only of a connection whose handshake   *)
(* the server has completed.                                               *)
StateHonest == State = "connected" => ios[r.io].proto = "resp3"

(* At most one retry timer is armed: an endpoint that is refused is not    *)
(* connected to in a hot loop.                                             *)
OneRetry == timers <= 1

(* A command whose connection is lost before its reply arrived is answered *)
(* with no reply; it is not sent, and performed, again.                    *)
LostAnswered ==
    [][\A cmd \in Commands :
         r.pub_sent /\ r.ready /\ r.running /\ ~r'.ready /\ Head(r.cmd_queue) = cmd =>
            cmd \notin Contents(r'.cmd_queue)]_vars

(* When nothing moves any more, whatever was lost, timed out and retried:  *)
(* every command was answered, the engine is connected, and the server has *)
(* the subscriptions of the pub/sub system, or none once it is detached.   *)
(* An engine that was freed has no connection and owes no answer.          *)
Quiet ==
    /\ tasks = <<>> /\ timers = 0 /\ app.calls = {}
    /\ \A i \in 1..Len(ios) : ios[i].st = "gone" \/ (Open(i) /\ ios[i].up = <<>> /\ ios[i].down = <<>>)
Settled ==
    Quiet =>
       /\ r.running \/ r.refs = 0 => \A cmd \in app.sent : answers[cmd] # <<>>
       /\ {i \in 1..Len(ios) : Open(i)} = IF r.running THEN {r.io} ELSE {}
       /\ r.running => /\ ios[r.io].proto = "resp3" /\ r.cmd_queue = <<>>
                       /\ ios[r.io].subs = (app.system /\ app.subscribed)
=============================================================================
