-------------------------------- MODULE Ipc --------------------------------
(***************************************************************************)
(* Messages between the processes of a machine (IPC) and between machines  *)
(* (the RPC of a cluster): a root process for each machine, with a         *)
(* connection to each of its workers and to its peers, the roots of other  *)
(* machines.  A worker sends everything through its root, which performs   *)
(* the message, forwards it, or both.  Connections keep order.  What a     *)
(* process wrote waits in its own memory first, and is lost with it.       *)
(*                                                                         *)
(* A root has the name of its machine.  A message is the number of the     *)
(* call that posted it, with what its routing needs.                       *)
(***************************************************************************)
EXTENDS Integers, Sequences, FiniteSets, SequencesExt

CONSTANTS
    Machines,       \* the machines, and their root processes
    Workers,        \* the worker processes
    Home,           \* the machine of each worker
    Peers,          \* pairs of machines that are connected
    Nobody,         \* the sender of what a process sends itself
    Authors, Calls, \* the processes that post, and what: kind, excluded, ask,
                    \* how far the stamp is from the clock of the others
    Answers,        \* replies to a message whose author asks for them
    Window,         \* how far a stamp may be from the clock of a root
    FilterLimit, FilterKeep, FilterMoved,   \* limits of the filter, see Full
    MaxPosts, MaxCrashes, MaxTicks          \* bounds

Procs == Machines \cup Workers
Kinds == {"call", "local", "cluster", "broadcast"}

ASSUME IpcAssumption ==
    /\ Machines \cap Workers = {} /\ Nobody \notin Procs
    /\ Home \in [Workers -> Machines]
    /\ Authors \subseteq Procs /\ Calls \subseteq Kinds \X BOOLEAN \X BOOLEAN \X Int
    /\ \A link \in Peers : link \subseteq Machines /\ Cardinality(link) = 2
    /\ {Answers, Window, FilterLimit, FilterKeep, FilterMoved,
        MaxPosts, MaxCrashes, MaxTicks} \subseteq Nat
    /\ FilterMoved <= FilterKeep /\ FilterKeep <= FilterLimit

VARIABLES
    o,          \* what the functions below change, see Init
    wire,       \* what each connection carries
    posts,      \* the messages posted: author, kind, excluded, ask
    alive,      \* the processes that did not crash
    now,        \* the clock of the machines
    late        \* auxiliary: each message that a root read from another root
                \* when its stamp was out of the window, with that root

vars == <<o, wire, posts, alive, now, late>>

Links == {l \in Procs \X Procs :
            \/ l[1] \in Workers /\ Home[l[1]] = l[2]
            \/ l[2] \in Workers /\ Home[l[2]] = l[1]
            \/ {l[1], l[2]} \in Peers}

Init ==
    /\ o = [queue |-> [p \in Procs |-> <<>>],   \* the tasks of each process
            out |-> [l \in Links |-> <<>>],     \* what it wrote to a connection
            seen |-> [m \in Machines |-> <<>>], \* the filter of each root
            done |-> [p \in Procs |-> <<>>],    \* the messages it performed
            got |-> [p \in Procs |-> <<>>]]     \* and the replies: <<message, number>>
    /\ wire = [l \in Links |-> <<>>]
    /\ posts = <<>> /\ alive = Procs /\ now = 1 /\ late = {}

-----------------------------------------------------------------------------
(* Messages.  Number 0 is the message itself, the others are replies to it. *)

Message(i, n, mark, stamp) == [id |-> i, number |-> n, mark |-> mark, stamp |-> stamp]
Task(fn, m, from) == [fn |-> fn, m |-> m, from |-> from]

ForWorkers(kind) == kind \in {"local", "broadcast"}
ForCluster(kind) == kind \in {"cluster", "broadcast"}
ToWorkers(ps, m) == m.number = 0 /\ ForWorkers(ps[m.id].kind)
ToCluster(ps, m) == ForCluster(ps[m.id].kind)

\* A root does without what another machine sent too long ago, or in its future.
InWindow(m) == m.stamp \in (now - Window) .. (now + Window)

\* The filter of what other machines sent: the messages of the last minute,
\* it is meant.  At its limit it is sorted by time and cut, and its last part
\* is to move to the front; the move counts bytes where it means entries.
Full(f) == Len(f) >= FilterLimit
Cut(f) ==
    LET s == SortSeq(f, LAMBDA x, y : x[1] < y[1])
        last == SubSeq(s, Len(s) - FilterKeep + 1, Len(s))
    IN  [k \in 1..FilterKeep |-> IF k <= FilterMoved THEN last[k] ELSE s[k]]
Remember(f, mid) == Append(IF Full(f) THEN Cut(f) ELSE f, mid)

-----------------------------------------------------------------------------
(* The functions: what they do to o, whole. *)

Push(s, p, t) == [s EXCEPT !.queue[p] = Append(@, t)]

\* A write to a connection that is closed is dropped.
Write(s, p, to, ms) ==
    [s EXCEPT !.out = [l \in Links |-> IF l[1] = p /\ l[2] \in to \cap alive
                                         THEN @[l] \o ms ELSE @[l]]]

\* What a handler answers goes to the connection that its message came from,
\* and is performed at once if it came from none.
Reply(s, p, m, from) ==
    LET replies == [n \in 1..Answers |-> Message(m.id, n, FALSE, now)]
    IN  IF from \in Procs THEN Write(s, p, {from}, replies)
        ELSE [s EXCEPT !.got[p] = @ \o [n \in 1..Answers |-> <<m.id, n>>]]

\* Handlers answer on roots only.
Execute(s, ps, p, m, from) ==
    IF m.number > 0 THEN [s EXCEPT !.got[p] = Append(@, <<m.id, m.number>>)]
    ELSE LET performed == [s EXCEPT !.done[p] = Append(@, m.id)]
         IN  IF ps[m.id].ask /\ p \in Machines
               THEN Reply(performed, p, m, from)
               ELSE performed

\* (A mistake to guard against: a message returns to where it came from.)
ForwardBack(s, ps, p, m, from) ==
    LET workers == IF ToWorkers(ps, m) THEN {w \in Workers : Home[w] = p} ELSE {}
        peers == IF ToCluster(ps, m) THEN {q \in Machines : {p, q} \in Peers} ELSE {}
    IN  Write(s, p, workers \cup peers, <<m>>)

Forward(s, ps, p, m, from) ==
    LET workers == IF ToWorkers(ps, m) THEN {w \in Workers : Home[w] = p} ELSE {}
        peers == IF ToCluster(ps, m) THEN {q \in Machines : {p, q} \in Peers} ELSE {}
    IN  Write(s, p, (workers \cup peers) \ {from}, <<m>>)

SendOnRoot(s, ps, p, m, from, excluded) ==
    LET deferred == IF excluded THEN s ELSE Push(s, p, Task("execute", m, from))
    IN  IF ToWorkers(ps, m) \/ ToCluster(ps, m)
          THEN Push(deferred, p, Task("forward", m, from))
          ELSE deferred

Send(s, ps, p, m, excluded) ==
    IF p \in Machines THEN SendOnRoot(s, ps, p, m, Nobody, excluded)
    ELSE Write(s, p, {Home[p]}, <<m>>)

\* (Mistakes to guard against: what the root does not perform is not forwarded;
\* the message no longer tells where it came from.)
OnIpcMasterDrops(s, ps, p, m, from) ==
    IF m.mark /\ ToCluster(ps, m) THEN s
    ELSE Execute(Forward(s, ps, p, m, from), ps, p, m, from)
OnIpcMasterDetached(s, ps, p, m, from) ==
    LET forwarded == Forward(s, ps, p, m, from)
    IN  IF m.mark /\ ToCluster(ps, m) THEN forwarded
        ELSE Execute(forwarded, ps, p, m, Nobody)

OnIpcMaster(s, ps, p, m, from) ==
    LET forwarded == Forward(s, ps, p, m, from)
    IN  IF m.mark /\ ToCluster(ps, m) THEN forwarded
        ELSE Execute(forwarded, ps, p, m, from)


OnRpcMaster(s, ps, p, m, from) ==
    LET mid == <<m.stamp, m.id>>
        first == [s EXCEPT !.seen[p] = Remember(@, mid)]
    IN  IF ~InWindow(m) \/ mid \in ToSet(s.seen[p]) THEN s
        ELSE IF ToWorkers(ps, m) THEN SendOnRoot(first, ps, p, m, from, FALSE)
        ELSE Execute(first, ps, p, m, from)

Receive(s, ps, p, m, from) ==
    IF p \in Workers THEN Execute(s, ps, p, m, from)
    ELSE IF from \in Workers THEN OnIpcMaster(s, ps, p, m, from)
    ELSE OnRpcMaster(s, ps, p, m, from)

\* A worker that is among those it addresses performs its message when the
\* write is released.
AfterSend(s, p, m) ==
    IF /\ p \in Workers /\ posts[m.id].author = p
       /\ ToWorkers(posts, m) /\ ~posts[m.id].excluded
      THEN Execute(s, posts, p, m, Nobody)
      ELSE s

-----------------------------------------------------------------------------
(* The actions *)

\* A call of fio_ipc_call, _local, _cluster or _broadcast, with the caller
\* excluded or not.  A worker notes in its message that it is excluded.  The
\* stamp is the author's clock, which another machine's may not agree with, or
\* what the caller asks for.
Post(p, kind, excluded, ask, skew) ==
    /\ p \in alive /\ Len(posts) < MaxPosts
    /\ posts' = Append(posts, [author |-> p, kind |-> kind,
                               excluded |-> excluded, ask |-> ask])
    /\ o' = Send(o, posts', p,
                 Message(Len(posts'), 0, p \in Workers /\ excluded, now + skew),
                 excluded)
    /\ UNCHANGED <<wire, alive, now, late>>

\* The reactor performs a task.
Perform(p) ==
    /\ p \in alive /\ o.queue[p] # <<>>
    /\ LET t == Head(o.queue[p])
           s == [o EXCEPT !.queue[p] = Tail(@)]
       IN  o' = CASE t.fn = "execute" -> Execute(s, posts, p, t.m, t.from)
                  [] t.fn = "forward" -> Forward(s, posts, p, t.m, t.from)
                  [] t.fn = "receive" -> Receive(s, posts, p, t.m, t.from)
    /\ UNCHANGED <<wire, posts, alive, now, late>>

\* The system takes a message from the process's buffer, which releases it.
Written(p, q) ==
    /\ p \in alive /\ q \in alive /\ <<p, q>> \in Links /\ o.out[p, q] # <<>>
    /\ wire' = [wire EXCEPT ![p, q] = Append(@, Head(o.out[p, q]))]
    /\ o' = AfterSend([o EXCEPT !.out[p, q] = Tail(@)], p, Head(o.out[p, q]))
    /\ UNCHANGED <<posts, alive, now, late>>

\* on_data: a whole message was read, a task is to decrypt and route it.
Read(p, q) ==
    /\ p \in alive /\ <<q, p>> \in Links /\ wire[q, p] # <<>>
    /\ LET m == Head(wire[q, p])
       IN  /\ wire' = [wire EXCEPT ![q, p] = Tail(@)]
           /\ o' = Push(o, p, Task("receive", m, q))
           /\ late' = IF {p, q} \subseteq Machines /\ m.number = 0 /\ ~InWindow(m)
                        THEN late \cup {<<p, m.id>>} ELSE late
    /\ UNCHANGED <<posts, alive, now>>

\* A worker dies: its memory is lost, and any part of what is on its way.
Crash(w) ==
    /\ w \in alive /\ Cardinality(Procs \ alive) < MaxCrashes
    /\ alive' = alive \ {w}
    /\ \E n \in 0..Len(wire[w, Home[w]]) :
          wire' = [l \in Links |-> IF l = <<w, Home[w]>> THEN SubSeq(wire[l], 1, n)
                                   ELSE IF l[2] = w THEN <<>> ELSE wire[l]]
    /\ o' = [o EXCEPT !.queue[w] = <<>>,
                      !.out = [l \in Links |-> IF w \in {l[1], l[2]}
                                                 THEN <<>> ELSE @[l]]]
    /\ UNCHANGED <<posts, now, late>>

\* fio_io_last_tick changes when the reactors poll, their tasks performed.
Tick ==
    /\ now <= MaxTicks /\ now' = now + 1
    /\ \A p \in Procs : o.queue[p] = <<>>
    /\ UNCHANGED <<o, wire, posts, alive, late>>

Next ==
    \/ \E p \in Authors, call \in Calls : Post(p, call[1], call[2], call[3], call[4])
    \/ \E p \in Procs : Perform(p)
    \/ \E p, q \in Procs : Written(p, q) \/ Read(p, q)
    \/ \E w \in Workers : Crash(w)
    \/ Tick

Spec == Init /\ [][Next]_vars

-----------------------------------------------------------------------------
(* Properties *)

Messages == [id : DOMAIN posts, number : 0..Answers, mark : BOOLEAN, stamp : Int]
TypeOK ==
    /\ posts \in Seq([author : Authors, kind : Kinds, excluded : BOOLEAN, ask : BOOLEAN])
    /\ Machines \subseteq alive /\ alive \subseteq Procs /\ now \in 1..(MaxTicks + 1)
    /\ \A l \in Links : o.out[l] \in Seq(Messages) /\ wire[l] \in Seq(Messages)
    /\ \A p \in Procs :
           /\ o.queue[p] \in Seq([fn : {"execute", "forward", "receive"}, m : Messages,
                                  from : Procs \cup {Nobody}])
           /\ o.done[p] \in Seq(DOMAIN posts)
           /\ o.got[p] \in Seq((DOMAIN posts) \X (1..Answers))
    /\ \A m \in Machines : o.seen[m] \in Seq(Int \X (DOMAIN posts))
    /\ late \subseteq Machines \X (DOMAIN posts)

HomeOf(p) == IF p \in Machines THEN p ELSE Home[p]

\* Whom a message is for.  To exclude a worker from what goes to the cluster
\* excludes its root, too.
Addressed(p, kind, excluded) ==
    LET home == HomeOf(p)
        roots == IF ForCluster(kind) THEN {m \in Machines : m = home \/ {m, home} \in Peers}
                                     ELSE {home}
        workers == IF ForWorkers(kind) THEN {w \in Workers : Home[w] \in roots} ELSE {}
        left == IF ~excluded THEN {} ELSE IF ForCluster(kind) THEN {p, home} ELSE {p}
    IN  (roots \cup workers) \ left

\* Every process that a message addresses performs it at most once, in the
\* order its author posted such messages in, and no other process does: with
\* the copies, the deferred tasks, what a worker performs once it was written,
\* and the relays of a cluster, the processes implement a multicast.
Mc == INSTANCE Multicast WITH done <- o.done
ImplementsMulticast == Mc!Spec

Quiet == /\ \A p \in Procs : o.queue[p] = <<>>
         /\ \A l \in Links : o.out[l] = <<>> /\ wire[l] = <<>>


\* Without the last exception: refuted, see README.md.
AllArrive ==
    Quiet => \A i \in DOMAIN posts : \A p \in Mc!To(i) :
        i \in ToSet(o.done[p]) \/ ~({p, posts[i].author} \subseteq alive)

RepliesAt(p, i) == SelectSeq(o.got[p], LAMBDA x : x[1] = i)

\* The replies of a root to a message that stays on its machine reach the
\* process that posted it and no other, in order, the last one (on_done) last,
\* all of them if the author lives.
Answered ==
    \A i \in {j \in DOMAIN posts : posts[j].ask /\ ~ForCluster(posts[j].kind)} :
        \A p \in Procs :
            LET got == RepliesAt(p, i)
                author == posts[i].author
            IN  /\ got # <<>> => p = author /\ i \in ToSet(o.done[HomeOf(p)])
                /\ \A k \in DOMAIN got : got[k][2] = k
                /\ Quiet /\ p = author /\ p \in alive
                   /\ i \in ToSet(o.done[HomeOf(p)]) => Len(got) = Answers

\* A process of another machine performs a message once even where machines
\* form a cycle of relays.  The author's own does not, see README.md.
OnceElsewhere ==
    \A p \in Procs : \A j, k \in DOMAIN o.done[p] :
        o.done[p][j] = o.done[p][k] /\ HomeOf(posts[o.done[p][j]].author) # HomeOf(p)
            => j = k

\* Each root that performs a message to the cluster answers to its author.
\* Refuted, as is TailKept: see README.md.
AnsweredByAll ==
    Quiet => \A i \in {j \in DOMAIN posts : posts[j].ask /\ posts[j].kind = "cluster"} :
        LET performers == {p \in Machines : i \in ToSet(o.done[p])}
        IN  posts[i].author \in alive =>
                Len(RepliesAt(posts[i].author, i)) = Answers * Cardinality(performers)

\* The filter at its limit keeps its newest entries.
TailKept ==
    LET f == [k \in 1..FilterLimit |-> <<k, k>>]
    IN  SubSeq(f, FilterLimit - FilterKeep + 1, FilterLimit) = Cut(f)
=============================================================================
