------------------------------- MODULE PubSub -------------------------------
(***************************************************************************)
(* Publish and subscribe in one process: the map of channels, the          *)
(* subscriptions with their reference counts, the environment of an IO     *)
(* that owns subscriptions, and the tasks between them.  Subscribing,      *)
(* unsubscribing, publishing and the freeing of a subscription are tasks   *)
(* of the reactor's queue; messages are delivered either there or by the   *)
(* thread of another queue that the subscriber names.                      *)
(*                                                                         *)
(* A message is its number: messages are numbered as they are published.   *)
(* The list of a channel is the set of its members: in which order a       *)
(* message is handed to them is left open.                                 *)
(***************************************************************************)
EXTENDS Integers, Sequences, FiniteSets

CONSTANTS
    Names,      \* names of channels
    Patterns,   \* patterns that subscribers name instead
    Matches,    \* the names that each pattern matches
    Ios,        \* connections that own subscriptions
    Global,     \* the owner of what no connection owns
    QueueOf,    \* the queue each owner's subscriptions name: "io" or "user"
    MaxSubs, MaxMsgs, MaxDefers,    \* bounds
    MaxObjects      \* bound on the three together: a subscription counts twice

Keys == Names \cup Patterns
Owners == Ios \cup {Global}

ASSUME PubSubAssumption ==
    /\ Names \cap Patterns = {} /\ Global \notin Ios
    /\ Matches \in [Patterns -> SUBSET Names]
    /\ QueueOf \in [Owners -> {"io", "user"}]
    /\ {MaxSubs, MaxMsgs, MaxDefers, MaxObjects} \subseteq Nat

VARIABLES
    o,          \* what the functions below change, see Init
    env,        \* the subscription an owner holds for a key, 0 for none
    handles,    \* subscriptions whose handle a caller holds
    open,       \* connections that are not destroyed
    delivering, \* the delivery that the reactor is performing, and the one
    running,    \* that the thread of the other queue is
    publishing, \* the message the reactor is distributing, and to whom it
                \* still has to: channels, and subscribers of the one it is at
    sent,       \* messages published: name, and the connection to leave out
    defers      \* calls of fio_pubsub_defer

vars == <<o, env, handles, open, delivering, running, publishing, sent, defers>>

Idle == [fn |-> "idle", sub |-> 0, msg |-> 0, again |-> FALSE]
Done == [msg |-> 0, keys |-> {}, list |-> {}]
Task(fn, i) == [fn |-> fn, sub |-> i, msg |-> 0, again |-> FALSE]

Init ==
    /\ o = [sub |-> <<>>,                       \* the subscriptions allocated
            chan |-> <<>>,                      \* the channels allocated
            map |-> [k \in Keys |-> 0],         \* channels and patterns
            told |-> {},                        \* what an engine was told
            io |-> <<>>, user |-> <<>>]         \* the two queues
    /\ env = [w \in Owners |-> [k \in Keys |-> 0]]
    /\ handles = {} /\ open = Ios /\ delivering = Idle /\ running = Idle
    /\ publishing = Done /\ sent = <<>> /\ defers = 0

-----------------------------------------------------------------------------
(* The functions *)

Push(p, q, t) == IF q = "io" THEN [p EXCEPT !.io = Append(@, t)]
                 ELSE [p EXCEPT !.user = Append(@, t)]

(* fio_pubsub_channel_free and fio___pubsub_channel_on_destroy.            *)
FreeChannel(p, c) ==
    LET d == [p EXCEPT !.chan[c].refs = @ - 1]
    IN  IF d.chan[c].refs > 0 THEN d ELSE [d EXCEPT !.told = @ \ {p.chan[c].key}]

(* (A mistake to guard against: the map's reference is not dropped.)       *)
MapForget(p, k) ==
    IF p.map[k] = 0 THEN p ELSE [p EXCEPT !.map[k] = 0]

(* fio___pubsub_channel_map_remove *)
MapRemove(p, k) ==
    IF p.map[k] = 0 THEN p ELSE FreeChannel([p EXCEPT !.map[k] = 0], p.map[k])

(* fio___pubsub_channel_map_set_ptr: finds the channel or makes it, in     *)
(* which case fio___pubsub_channel_on_create tells the engines.            *)
MapSet(p, k) ==
    IF p.map[k] # 0 THEN p
    ELSE [p EXCEPT !.chan = Append(@, [key |-> k, refs |-> 1, list |-> {}]),
                   !.map[k] = Len(p.chan) + 1,
                   !.told = @ \cup {k}]

Unlink(p, i) ==
    LET c == p.sub[i].chan
    IN  IF c = 0 THEN p ELSE [p EXCEPT !.chan[c].list = @ \ {i}]

(* fio___pubsub_subscription_on_destroy.  The channel leaves the map - by  *)
(* its name - when other subscribers are left on its list.                 *)
OnDestroy(p, i) ==
    LET s == p.sub[i]
        u == Push(Unlink(p, i), s.queue, Task("ended", i))
        m == IF u.chan[s.chan].list # {} THEN MapRemove(u, s.key) ELSE u
    IN  FreeChannel(m, s.chan)

(* fio___pubsub_subscription_free2 *)
FreeSub(p, i) ==
    LET d == [p EXCEPT !.sub[i].refs = @ - 1]
    IN  IF d.sub[i].refs > 0 THEN d ELSE OnDestroy(d, i)

(* (A mistake to guard against: the messages on their way are delivered.)  *)
UnsubscribeLate(p, i) ==
    IF i = 0 THEN p
    ELSE Push([p EXCEPT !.sub[i].cancelled = TRUE], "io", Task("unsubscribe", i))

(* fio___pubsub_subscription_env_unsubscribe *)
EnvUnsubscribe(p, i) ==
    IF i = 0 THEN p
    ELSE Push([p EXCEPT !.sub[i].live = FALSE, !.sub[i].cancelled = TRUE],
              "io", Task("unsubscribe", i))

(* (A mistake to guard against: the task does not own the subscription.)   *)
DeliverBorrowed(p, i, m) ==
    IF sent[m].from # Global /\ p.sub[i].owner = sent[m].from THEN p
    ELSE Push(p, p.sub[i].queue, [fn |-> "deliver", sub |-> i, msg |-> m, again |-> FALSE])

(* fio___pubsub_engine_ipc_deliver2channel, for one subscriber.  The       *)
(* connection that publishes is left out; what no connection published     *)
(* goes to all, also to those that no connection owns.                     *)
Deliver(p, i, m) ==
    IF sent[m].from # Global /\ p.sub[i].owner = sent[m].from THEN p
    ELSE Push([p EXCEPT !.sub[i].refs = @ + 1], p.sub[i].queue,
              [fn |-> "deliver", sub |-> i, msg |-> m, again |-> FALSE])

-----------------------------------------------------------------------------
(* The API: callable from any thread, and from the callbacks.              *)

Room(n) == 2 * Len(o.sub) + Len(sent) + defers + n <= MaxObjects

New(k, w) ==
    [refs |-> 2, key |-> k, owner |-> w, queue |-> QueueOf[w], chan |-> 0, live |-> TRUE,
     cancelled |-> FALSE,               \* auxiliary
     heard |-> <<>>, ended |-> 0,       \* auxiliary: the calls it received
     late |-> 0]                        \* auxiliary: those begun when cancelled

Subscribed(k, w) ==
    Push([o EXCEPT !.sub = Append(@, New(k, w))], "io",
         Task("subscribe", Len(o.sub) + 1))

(* fio_pubsub_subscribe: what the owner had under the same key is          *)
(* cancelled by the environment.                                           *)
Subscribe(w, k) ==
    /\ Len(o.sub) < MaxSubs /\ Room(2) /\ w \in open \cup {Global}
    /\ o' = EnvUnsubscribe(Subscribed(k, w), env[w][k])
    /\ env' = [env EXCEPT ![w][k] = Len(o.sub) + 1]
    /\ UNCHANGED <<handles, open, delivering, running, publishing, sent, defers>>

SubscribeHandle(k) ==
    /\ Len(o.sub) < MaxSubs /\ Room(2)
    /\ o' = Subscribed(k, Global)
    /\ handles' = handles \cup {Len(o.sub) + 1}
    /\ UNCHANGED <<env, open, delivering, running, publishing, sent, defers>>

(* fio_pubsub_unsubscribe: by the owner's environment, or by the handle,   *)
(* which it exchanges for 0.                                               *)
Unsubscribe(w, k) ==
    /\ env[w][k] # 0 /\ w \in open \cup {Global}
    /\ o' = EnvUnsubscribe(o, env[w][k])
    /\ env' = [env EXCEPT ![w][k] = 0]
    /\ UNCHANGED <<handles, open, delivering, running, publishing, sent, defers>>

UnsubscribeHandle(i) ==
    /\ i \in handles
    /\ o' = EnvUnsubscribe(o, i)
    /\ handles' = handles \ {i}
    /\ UNCHANGED <<env, open, delivering, running, publishing, sent, defers>>

(* fio___io_env_safe_destroy, when the connection is destroyed: in the     *)
(* reactor's thread, one entry of the environment after the other.         *)
Closing == {w \in Ios \ open : \E k \in Keys : env[w][k] # 0}
AtRest == publishing = Done /\ delivering = Idle /\ Closing = {}

CloseIo(w) ==
    /\ AtRest /\ w \in open
    /\ open' = open \ {w}
    /\ UNCHANGED <<o, env, handles, delivering, running, publishing, sent, defers>>

CloseEntry(w, k) ==
    /\ w \in Closing /\ env[w][k] # 0
    /\ o' = EnvUnsubscribe(o, env[w][k])
    /\ env' = [env EXCEPT ![w][k] = 0]
    /\ UNCHANGED <<handles, open, delivering, running, publishing, sent, defers>>

(* (A mistake to guard against: messages overtake each other.)            *)
PublishUrgent(n, from) ==
    /\ Len(sent) < MaxMsgs /\ Room(1)
    /\ sent' = Append(sent, [name |-> n, from |-> from])
    /\ o' = [o EXCEPT !.io = <<[Task("publish", 0) EXCEPT !.msg = Len(sent) + 1]>> \o @]
    /\ UNCHANGED <<env, handles, open, delivering, running, publishing, defers>>

(* fio_pubsub_publish with the engine of this process: fio_ipc_send defers *)
(* a copy of the message.                                                  *)
Publish(n, from) ==
    /\ Len(sent) < MaxMsgs /\ Room(1)
    /\ sent' = Append(sent, [name |-> n, from |-> from])
    /\ o' = Push(o, "io", [Task("publish", 0) EXCEPT !.msg = Len(sent) + 1])
    /\ UNCHANGED <<env, handles, open, delivering, running, publishing, defers>>

-----------------------------------------------------------------------------
(* Tasks of the reactor's queue *)

Run(fn) == AtRest /\ o.io # <<>> /\ Head(o.io).fn = fn
This == Head(o.io)
Rest == [o EXCEPT !.io = Tail(@)]
OnlyTask == UNCHANGED <<env, handles, open, delivering, running, publishing, sent, defers>>

(* fio___pubsub_subscribe_task *)
RunSubscribe ==
    /\ Run("subscribe")
    /\ LET i == This.sub
           k == o.sub[i].key
           p == MapSet(Rest, k)
           c == p.map[k]
       IN  o' = FreeSub([p EXCEPT !.sub[i].chan = c,
                                  !.chan[c].refs = @ + 1,
                                  !.chan[c].list = @ \cup {i}], i)
    /\ OnlyTask

(* fio___pubsub_unsubscribe_task *)
RunUnsubscribe ==
    /\ Run("unsubscribe")
    /\ o' = FreeSub([Unlink(Rest, This.sub) EXCEPT !.sub[This.sub].live = FALSE], This.sub)
    /\ OnlyTask

(* fio___pubsub_subscription_free_task *)
RunFree ==
    /\ Run("free")
    /\ o' = FreeSub(Rest, This.sub)
    /\ OnlyTask

(* fio___pubsub_engine_ipc_publish_deliver: to the channel of that name,   *)
(* then to the patterns that match it.  Other threads go on meanwhile.     *)
Distribute(m, ks, list) ==
    publishing' = IF ks = {} /\ list = {} THEN Done
                  ELSE [msg |-> m, keys |-> ks, list |-> list]

RunPublish ==
    /\ Run("publish")
    /\ LET n == sent[This.msg].name
           found == {n} \cup {k \in Patterns : n \in Matches[k]}
       IN  Distribute(This.msg, {k \in found : o.map[k] # 0}, {})
    /\ o' = Rest
    /\ UNCHANGED <<env, handles, open, delivering, running, sent, defers>>

NextChannel ==
    /\ publishing.list = {}
    /\ \E k \in publishing.keys :
           /\ k \in Patterns => publishing.keys \cap Names = {}
           /\ Distribute(publishing.msg, publishing.keys \ {k}, o.chan[o.map[k]].list)
    /\ UNCHANGED <<o, env, handles, open, delivering, running, sent, defers>>

NextSubscriber ==
    /\ \E i \in publishing.list :
           /\ o' = Deliver(o, i, publishing.msg)
           /\ Distribute(publishing.msg, publishing.keys, publishing.list \ {i})
    /\ UNCHANGED <<env, handles, open, delivering, running, sent, defers>>

(* fio___pubsub_subscription_ipc_deliver, in three steps: other threads go *)
(* on meanwhile.  First on_message is read.  A message counts as heard from *)
(* there on, the first time it is delivered, for the same thread calls     *)
(* on_message next; the stub hears nothing and never defers.               *)
Read(t) == [t EXCEPT !.fn = IF o.sub[t.sub].live THEN "call" ELSE "stub"]

Heard(p, t) ==
    IF p.sub[t.sub].live /\ ~t.again
    THEN [p EXCEPT !.sub[t.sub].heard = Append(@, t.msg)] ELSE p

(* Then the call begins.                                                   *)
Begun(p, t) ==
    IF p.sub[t.sub].cancelled THEN [p EXCEPT !.sub[t.sub].late = @ + 1] ELSE p

(* What follows the call: the delivery that fio_pubsub_defer asked to      *)
(* repeat goes to the end of its queue, with the reference that it owns.   *)
Delivered(p, t, defer) ==
    IF defer THEN Push(p, p.sub[t.sub].queue, [t EXCEPT !.again = TRUE])
    ELSE Push(p, "io", Task("free", t.sub))

RunDeliver ==
    /\ Run("deliver")
    /\ o' = Heard(Rest, This) /\ delivering' = Read(This)
    /\ UNCHANGED <<env, handles, open, running, publishing, sent, defers>>

CallMessage ==
    /\ delivering.fn = "call"
    /\ o' = Begun(o, delivering) /\ delivering' = [delivering EXCEPT !.fn = "called"]
    /\ UNCHANGED <<env, handles, open, running, publishing, sent, defers>>

EndDelivery ==
    /\ delivering.fn \in {"called", "stub"}
    /\ \E defer \in BOOLEAN :
           /\ defer => delivering.fn = "called" /\ defers < MaxDefers /\ Room(1)
           /\ o' = Delivered(o, [delivering EXCEPT !.fn = "deliver"], defer)
           /\ defers' = IF defer THEN defers + 1 ELSE defers
    /\ delivering' = Idle
    /\ UNCHANGED <<env, handles, open, running, publishing, sent>>

(* fio___pubsub_subscription_on_destroy_task *)
RunEnded ==
    /\ Run("ended")
    /\ o' = [Rest EXCEPT !.sub[This.sub].ended = @ + 1]
    /\ OnlyTask

IoTask ==
    \/ RunSubscribe \/ RunUnsubscribe \/ RunFree \/ RunPublish
    \/ NextChannel \/ NextSubscriber \/ RunEnded
    \/ RunDeliver \/ CallMessage \/ EndDelivery
    \/ \E w \in Ios, k \in Keys : CloseEntry(w, k)

-----------------------------------------------------------------------------
(* The thread of the other queue.                                         *)

UserDeliver ==
    /\ running = Idle /\ o.user # <<>> /\ Head(o.user).fn = "deliver"
    /\ o' = Heard([o EXCEPT !.user = Tail(@)], Head(o.user))
    /\ running' = Read(Head(o.user))
    /\ UNCHANGED <<env, handles, open, delivering, publishing, sent, defers>>

UserCall ==
    /\ running.fn = "call"
    /\ o' = Begun(o, running) /\ running' = [running EXCEPT !.fn = "called"]
    /\ UNCHANGED <<env, handles, open, delivering, publishing, sent, defers>>

UserReturn ==
    /\ running.fn \in {"called", "stub"}
    /\ \E defer \in BOOLEAN :
           /\ defer => running.fn = "called" /\ defers < MaxDefers /\ Room(1)
           /\ o' = Delivered(o, [running EXCEPT !.fn = "deliver"], defer)
           /\ defers' = IF defer THEN defers + 1 ELSE defers
    /\ running' = Idle
    /\ UNCHANGED <<env, handles, open, delivering, publishing, sent>>

UserEnded ==
    /\ running = Idle /\ o.user # <<>> /\ Head(o.user).fn = "ended"
    /\ o' = [o EXCEPT !.user = Tail(@), !.sub[Head(o.user).sub].ended = @ + 1]
    /\ UNCHANGED <<env, handles, open, delivering, running, publishing, sent, defers>>

UserTask == UserDeliver \/ UserCall \/ UserReturn \/ UserEnded

Call ==
    \/ \E w \in Owners, k \in Keys : Subscribe(w, k)
    \/ \E k \in Keys : SubscribeHandle(k)
    \/ \E w \in Owners, k \in Keys : Unsubscribe(w, k)
    \/ \E i \in handles : UnsubscribeHandle(i)
    \/ \E w \in Ios : CloseIo(w)
    \/ \E n \in Names, from \in Owners : Publish(n, from)

Next == Call \/ IoTask \/ UserTask

Spec == Init /\ [][Next]_vars

-----------------------------------------------------------------------------
Subs == 1..Len(o.sub)
Channels == 1..Len(o.chan)
Tasks ==
    {o.io[j] : j \in DOMAIN o.io} \cup {o.user[j] : j \in DOMAIN o.user}
        \cup {delivering, running}

TypeOK ==
    /\ \A i \in Subs :
           /\ o.sub[i].refs \in Nat /\ o.sub[i].key \in Keys
           /\ o.sub[i].owner \in Owners
           /\ o.sub[i].chan \in 0..Len(o.chan) /\ o.sub[i].ended \in 0..1
    /\ \A c \in Channels : o.chan[c].key \in Keys /\ o.chan[c].list \subseteq Subs
    /\ o.map \in [Keys -> 0..Len(o.chan)] /\ o.told \subseteq Keys
    /\ env \in [Owners -> [Keys -> 0..Len(o.sub)]]
    /\ handles \subseteq Subs /\ open \subseteq Ios
    /\ \A t \in Tasks : t.sub \in 0..Len(o.sub) /\ t.msg \in 0..Len(sent)

(* The tasks that own a reference to a subscription.                       *)
OwnerFn == {"subscribe", "unsubscribe", "free", "deliver", "call", "called", "stub"}
One(b) == IF b THEN 1 ELSE 0
Is(t, F, i) == t.fn \in F /\ t.sub = i
Count(q, F, i) == Cardinality({j \in 1 .. Len(q) : Is(q[j], F, i)})

Owning(i) ==
    Count(o.io, OwnerFn, i) + Count(o.user, OwnerFn, i)
        + One(Is(delivering, OwnerFn, i)) + One(Is(running, OwnerFn, i))

Held(i) == i \in handles \/ \E w \in Owners, k \in Keys : env[w][k] = i

(* Whatever the order of subscribing, replacing, cancelling, closing and   *)
(* delivering, a subscription has one reference for each of its holders -  *)
(* the environment or the handle until it is cancelled, and every task     *)
(* that names it - and a channel has one for the map and one for each      *)
(* subscription that was not freed; so neither is used after it is freed,  *)
(* and what a channel's list names is never freed.                         *)
RefsOK ==
    /\ TypeOK
    /\ \A i \in Subs : o.sub[i].refs = Owning(i) + One(Held(i))
    /\ \A c \in Channels :
           /\ o.chan[c].refs = Cardinality({k \in Keys : o.map[k] = c})
                               + Cardinality({i \in Subs : o.sub[i].chan = c /\ o.sub[i].refs > 0})
           /\ \A i \in o.chan[c].list : o.sub[i].refs > 0 /\ o.sub[i].chan = c

Quiet == AtRest /\ o.io = <<>> /\ o.user = <<>> /\ running = Idle

(* on_unsubscribe is the last that a subscriber hears: it is called at     *)
(* most once, when no message is being delivered and none is on its way,   *)
(* whichever queue delivers them.  And nobody is forgotten: once the       *)
(* queues have run empty, it was called for exactly the subscriptions that *)
(* were cancelled by their owner, by a replacement or by a connection that *)
(* closed.                                                                 *)
EndsLast ==
    /\ \A i \in Subs : o.sub[i].ended > 0 =>
           o.sub[i].ended = 1 /\ o.sub[i].refs = 0 /\ Owning(i) = 0
    /\ Quiet => \A i \in Subs : (o.sub[i].ended = 1) <=> o.sub[i].cancelled

(* Cancelling a subscription, from any thread, silences it: the messages   *)
(* on their way to it, and those it asked to hear again, find the stub.    *)
(* One call of on_message may begin afterwards, that which its thread had  *)
(* read but not yet called, and never a second one.                        *)
SilentWhenCancelled == \A i \in Subs : o.sub[i].late <= 1

(* A subscriber hears each message at most once, but for those it asks to  *)
(* hear again, and in the order in which they were published, also with    *)
(* deliveries that were put off.                                           *)
InOrder ==
    \A i \in Subs : \A a, b \in DOMAIN o.sub[i].heard :
        a < b => o.sub[i].heard[a] < o.sub[i].heard[b]

(* A channel leaves the map only when there are "no more subscribers"      *)
(* (420 pubsub.h:1491): who is on the list of a channel hears what is      *)
(* published there.                                                        *)
SubscribersHear ==
    \A c \in Channels : o.chan[c].list # {} => o.map[o.chan[c].key] = c

(* The other half: a channel without subscribers is removed.               *)
NoEmptyChannel ==
    Quiet => \A k \in Keys : o.map[k] # 0 => o.chan[o.map[k]].list # {}

(* An engine is told to listen exactly to what this process listens to.    *)
EngineListens ==
    o.told = {k \in Keys : \E c \in Channels : o.chan[c].key = k /\ o.chan[c].list # {}}
=============================================================================
