---------------------------- MODULE Redis_proofs ----------------------------
(***************************************************************************)
(* The Redis engine keeps its references, the lock step of its connection, *)
(* one answer for each command and, once nothing moves, the subscriptions, *)
(* for any commands, batches and bounds on what is lost or times out: the  *)
(* server may refuse the handshake and may send garbage.                   *)
(***************************************************************************)
EXTENDS Redis, FiniteSetTheorems, SequenceTheorems, WellFoundedInduction, TLAPS

(* The circumstances under which the code keeps its promises; README.md    *)
(* tells what it does under the others.                                    *)
Ordinary == Circumstances \subseteq {"refuse", "garbage"}

-----------------------------------------------------------------------------
(* The invariant, a predicate of the engine's state s, of what the         *)
(* application has done (a) and of what was spent (p).                     *)

IoRec == [st : {"connecting", "open", "gone"}, closed : BOOLEAN, owned : BOOLEAN,
          up : Seq(Words), down : Seq(Frames),
          proto : {"none", "resp3", "refused"}, subs : BOOLEAN]
Fns == {"connect", "attach_cmd", "perform_callback", "continue", "closed", "ready", "data",
        "timeout"}
TaskRec == [fn : Fns, arg : Words \cup Nat, reply : Frames \cup {"none"}]
EngineRec ==
    [r : [refs : Nat, running : BOOLEAN, attached : BOOLEAN, pub_sent : BOOLEAN,
          io : Nat, ready : BOOLEAN, cmd_queue : Seq(Words), buf : Seq(Frames)],
     ios : Seq(IoRec), tasks : Seq(TaskRec), timers : Nat,
     answers : [Commands -> Seq(Frames \cup {"none"})]]

(* What a task is given.  Nothing but a command, the handshake and a ping  *)
(* is answered, and an error answers nothing but the handshake.            *)
TaskOK(t, ios_, p) ==
    /\ t.fn \in {"connect", "continue"} => t.arg = NoIo
    /\ t.fn \in {"closed", "ready", "data", "timeout"} => t.arg \in DOMAIN ios_
    /\ t.fn = "attach_cmd" => t.arg \in Commands
    /\ t.fn = "perform_callback" =>
         /\ t.arg \in Commands \cup {"HELLO", "PING"}
         /\ t.reply = t.arg \/ (t.arg = "HELLO" /\ t.reply = "error" /\ p.refused)
Typed(s, p) ==
    /\ s \in EngineRec
    /\ \A t \in Contents(s.tasks) : TaskOK(t, s.ios, p)

(* The references, of which n are held outside the engine's own tasks.     *)
Owning(ts) == {k \in DOMAIN ts : ts[k].fn \in OwningTasks}
Counted(s, n) ==
    /\ s.r.refs = n + s.timers + Cardinality(Owning(s.tasks))
    /\ s.r.refs = 0 => ~s.r.running /\ s.r.io = NoIo /\ s.r.cmd_queue = <<>>

(* The engine's connection is the one that it owns; every other is closed, *)
(* and one that was closed will be told of.                                *)
Greeted(q) == \A k \in DOMAIN q : q[k] # "HELLO"
IoOK(s, i) ==
    /\ s.ios[i].owned = (s.r.io = i)
    /\ s.ios[i].closed => s.ios[i].up = <<>> /\ s.ios[i].down = <<>>
    /\ ~s.ios[i].owned \/ ~s.r.running => s.ios[i].closed
    /\ s.ios[i].st = "gone" => ~s.ios[i].owned
    /\ s.ios[i].st = "connecting" =>
         s.ios[i].up = <<>> /\ s.ios[i].down = <<>> /\ s.ios[i].proto = "none" /\ ~s.ios[i].subs
    /\ ~s.ios[i].closed /\ s.ios[i].proto # "none" => Greeted(s.ios[i].up)
Told(s, i) ==
    s.ios[i].closed /\ s.ios[i].st # "gone" => Task("closed", i, "none") \in Contents(s.tasks)
Connected(s) ==
    /\ s.r.io \in {NoIo} \cup DOMAIN s.ios
    /\ \A i \in DOMAIN s.ios : IoOK(s, i)
    /\ s.r.io # NoIo => s.r.ready = (s.ios[s.r.io].st = "open")
    /\ s.r.io = NoIo /\ s.r.running => ~s.r.ready
    /\ (s.r.io # NoIo \/ s.r.running) /\ ~s.r.ready => s.r.buf = <<>>
AllTold(s) ==
    /\ \A i \in DOMAIN s.ios : Told(s, i)
    /\ \A t \in Contents(s.tasks) : t.fn = "closed" => s.ios[t.arg].closed

Single(T) == \A x, y \in T : x = y

(* Who will parse what is in the buffer.                                   *)
Reads(t, i) == t.fn = "continue" \/ (t.fn = "data" /\ t.arg = i)
Readers(s) == {k \in DOMAIN s.tasks : Reads(s.tasks[k], s.r.io)}
Continues(s) == \E t \in Contents(s.tasks) : t.fn = "continue"
Live(s) == s.r.io # NoIo /\ s.r.ready /\ ~s.ios[s.r.io].closed
ReadersOK(s) ==
    /\ Single(Readers(s))
    /\ Live(s) /\ s.r.buf # <<>> => Continues(s)

(* An IO becomes ready once.                                               *)
Readies(s, i) == {k \in DOMAIN s.tasks : s.tasks[k].fn = "ready" /\ s.tasks[k].arg = i}
ReadyOK(s) ==
    \A i \in DOMAIN s.ios :
       Single(Readies(s, i)) /\ (Readies(s, i) # {} /\ ~s.ios[i].closed => s.ios[i].st = "connecting")

(* The frames that the parser will come to, and which of them is a reply.  *)
Comes(way, k) ==
    k \in DOMAIN way /\ Waited(way[k]) /\ \A j \in 1 .. k : way[j] # "garbage"
NoneComes(way) == \A k \in Nat : ~Comes(way, k)
Replies(w, q) == q # <<>> /\ (w = Head(q) \/ (w = "error" /\ Head(q) = "HELLO"))
InStep(way, q, sent) ==
    \A k \in Nat : Comes(way, k) =>
        sent /\ Replies(way[k], q) /\ \A j \in Nat : Comes(way, j) => j = k

(* The handshake is the head of the queue; or it was refused, and the      *)
(* connection lives until the callback has run.                            *)
Greets(q) == q # <<>> /\ Head(q) = "HELLO"
Dying(s) == Live(s) /\ s.ios[s.r.io].proto = "refused" /\ ~Greets(s.r.cmd_queue)
Refusal == Task("perform_callback", "HELLO", "error")
Way(s) == Stream(s, s.r.io)

(* What holds of the connection while the parser runs (parsing) and when   *)
(* it does not.                                                            *)
StepOK(s, parsing) ==
    s.r.io # NoIo /\ (parsing \/ Live(s) \/ Continues(s)) /\ ~Dying(s) =>
        InStep(Way(s), s.r.cmd_queue, s.r.pub_sent)
GreetOK(s) ==
    Live(s) =>
      /\ Greets(s.r.cmd_queue) =>
           /\ Len(Way(s)) = 1
           /\ Way(s)[1] \in IF s.ios[s.r.io].proto = "refused" THEN {"error", "garbage"} ELSE {"HELLO"}
           /\ s.ios[s.r.io].proto = "none" => s.ios[s.r.io].up = <<"HELLO">>
      /\ s.ios[s.r.io].proto = "none" => Greets(s.r.cmd_queue)
SentOK(s) ==
    Live(s) /\ ~Dying(s) /\ s.r.pub_sent /\ "garbage" \notin Contents(Way(s)) =>
        \E k \in DOMAIN Way(s) : Waited(Way(s)[k])
DyingOK(s) ==
    Dying(s) => s.r.buf = <<>> /\ Readers(s) = {} /\ Refusal \in Contents(s.tasks)
FrameOK(f, p) == f \notin NoWait /\ (f = "error" => p.refused)
FramesOK(s, p) ==
    /\ \A f \in Contents(s.r.buf) : FrameOK(f, p)
    /\ \A i \in DOMAIN s.ios : \A f \in Contents(s.ios[i].down) : FrameOK(f, p)

(* The queue of commands.                                                  *)
QueueOK(s) ==
    /\ s.r.io # NoIo /\ s.r.ready =>
         IF s.r.pub_sent THEN s.r.cmd_queue # <<>> /\ ShouldWait(Head(s.r.cmd_queue))
         ELSE s.r.cmd_queue = <<>>
    /\ \A k \in DOMAIN s.r.cmd_queue : s.r.cmd_queue[k] = "HELLO" =>
         k = 1 /\ s.r.io # NoIo /\ s.r.ready /\ s.r.pub_sent

(* Where a command is: called, in a task, queued, or answered.             *)
Carries(t, cmd) == t.fn \in {"attach_cmd", "perform_callback"} /\ t.arg = cmd
InTasks(s, cmd) == {k \in DOMAIN s.tasks : Carries(s.tasks[k], cmd)}
InQueue(s, cmd) == {k \in DOMAIN s.r.cmd_queue : s.r.cmd_queue[k] = cmd}
Answered(s, cmd) == DOMAIN s.answers[cmd]
PlaceOK(s, a, cmd) ==
    /\ Single(InTasks(s, cmd)) /\ Single(InQueue(s, cmd)) /\ Single(Answered(s, cmd))
    /\ cmd \in a.sent <=> \/ cmd \in a.calls \/ InTasks(s, cmd) # {}
                         \/ InQueue(s, cmd) # {} \/ Answered(s, cmd) # {}
    /\ cmd \in a.calls => InTasks(s, cmd) = {}
    /\ cmd \in a.calls \/ InTasks(s, cmd) # {} => InQueue(s, cmd) = {}
    /\ cmd \in a.calls \/ InTasks(s, cmd) # {} \/ InQueue(s, cmd) # {} => Answered(s, cmd) = {}
AnswersOK(s, p) ==
    /\ \A cmd \in Commands : \A k \in DOMAIN s.answers[cmd] :
         s.answers[cmd][k] = cmd \/ (s.answers[cmd][k] = "none" /\ ~s.r.running)
    /\ ~s.r.running => p.refused \/ s.r.refs = 0

(* What the server will have heard of the channel.                         *)
Wants(a) == a.system /\ a.subscribed
LastIs(q, b) ==
    \A k \in DOMAIN q :
        q[k] \in NoWait /\ (\A j \in DOMAIN q : j > k => q[j] \notin NoWait) => (q[k] = "SUBSCRIBE") = b
Silent(q) == \A k \in DOMAIN q : q[k] \notin NoWait
SubsOK(s, a) ==
    /\ s.r.attached => a.system
    /\ s.r.running =>
         /\ Wants(a) => s.r.attached
         /\ LastIs(s.r.cmd_queue, Wants(a))
         /\ Live(s) /\ Silent(s.r.cmd_queue) => LastIs(s.ios[s.r.io].up, Wants(a))
         /\ Live(s) /\ Silent(s.r.cmd_queue) /\ Silent(s.ios[s.r.io].up) => s.ios[s.r.io].subs = Wants(a)

(* An engine that runs has a connection, or will have one.                 *)
Retries(s) ==
    s.r.running /\ s.r.io = NoIo =>
        s.timers > 0 \/ \E t \in Contents(s.tasks) : t.fn = "connect"

AppRec == [held : 0 .. 2, sent : SUBSET Commands, calls : SUBSET Commands,
           system : BOOLEAN, subscribed : BOOLEAN]
SpentRec == [losses : Nat, timeouts : Nat, toggles : Nat, refused : BOOLEAN]
AppOK(a) ==
    /\ a \in AppRec /\ a.calls \subseteq a.sent
    /\ a.calls # {} => a.held > 0 \/ a.system
Outside(a) == a.held + (IF a.system THEN 1 ELSE 0)

LockOK(s, p, parsing) ==
    StepOK(s, parsing) /\ GreetOK(s) /\ SentOK(s) /\ FramesOK(s, p)
Base(s, a, p, n, parsing) ==
    /\ Typed(s, p) /\ Counted(s, n) /\ Connected(s) /\ LockOK(s, p, parsing)
    /\ QueueOK(s) /\ AnswersOK(s, p) /\ SubsOK(s, a)
Core(s, a, p, n, parsing) == Base(s, a, p, n, parsing) /\ AllTold(s)
Fine(s, a, p, n) == Core(s, a, p, n, FALSE) /\ ReadersOK(s) /\ ReadyOK(s) /\ DyingOK(s)
Good(s, a, p, n) ==
    Fine(s, a, p, n) /\ Retries(s) /\ \A cmd \in Commands : PlaceOK(s, a, cmd)
IInv == AppOK(app) /\ spent \in SpentRec /\ Good(Engine, app, spent, Outside(app))
-----------------------------------------------------------------------------
(* Sequences and numbers.                                                  *)

(* A set of natural numbers has a least element.                           *)
LEMMA Least ==
    ASSUME NEW T \in SUBSET Nat, T # {}
    PROVE  \E x \in T : \A y \in T : x <= y
<1> DEFINE R == {ss \in Nat \X Nat : ss[1] < ss[2]}
<1>1. R = OpToRel(<, Nat)
  BY DEF OpToRel
<1>2. IsWellFoundedOn(R, Nat)
  BY Zenon, NatLessThanWellFounded, <1>1
<1>3. PICK x \in T : \A y \in T : ~ (<<y, x>> \in R)
  <2> HIDE DEF R
  <2> QED
    BY <1>2, WFMin
<1>4. ASSUME NEW y \in T PROVE x <= y
  <2>1. x \in Nat /\ y \in Nat /\ ~ (<<y, x>> \in R)
    BY <1>3
  <2> QED
    BY <2>1
<1> QED
  BY <1>4

(* Induction, for a set of numbers.                                        *)
LEMMA Induction ==
    ASSUME NEW T \in SUBSET Nat, 0 \in T, \A n \in T : n + 1 \in T
    PROVE  T = Nat
<1>1. SUFFICES ASSUME Nat \ T # {} PROVE FALSE
  OBVIOUS
<1>2. PICK x \in Nat \ T : \A y \in Nat \ T : x <= y
  BY <1>1, Least
<1>3. x # 0 /\ x - 1 \in Nat /\ x - 1 \in T
  BY <1>2
<1> QED
  BY <1>3, <1>2

LEMMA ContentsAppend ==
    ASSUME NEW V, NEW q \in Seq(V), NEW x \in V
    PROVE  Append(q, x) \in Seq(V) /\ Contents(Append(q, x)) = Contents(q) \cup {x}
<1>1. /\ Append(q, x) \in Seq(V) /\ Len(q) \in Nat
      /\ Len(Append(q, x)) = Len(q) + 1
      /\ DOMAIN q = 1 .. Len(q) /\ DOMAIN Append(q, x) = 1 .. Len(q) + 1
      /\ Append(q, x)[Len(q) + 1] = x
      /\ \A i \in 1 .. Len(q) : Append(q, x)[i] = q[i]
  BY AppendProperties, LenProperties
<1> QED
  BY <1>1 DEF Contents

LEMMA ContentsTail ==
    ASSUME NEW V, NEW q \in Seq(V), q # <<>>
    PROVE  /\ Tail(q) \in Seq(V) /\ Head(q) \in V
           /\ Contents(q) = {Head(q)} \cup Contents(Tail(q))
<1>1. /\ Tail(q) \in Seq(V) /\ Len(q) \in Nat \ {0} /\ Len(Tail(q)) = Len(q) - 1
      /\ DOMAIN q = 1 .. Len(q) /\ DOMAIN Tail(q) = 1 .. Len(q) - 1
      /\ Head(q) = q[1] /\ Head(q) \in V
      /\ \A i \in 1 .. Len(q) - 1 : Tail(q)[i] = q[i + 1]
  BY HeadTailProperties, LenProperties, EmptySeq
<1>2. ASSUME NEW x \in Contents(q) PROVE x \in {Head(q)} \cup Contents(Tail(q))
  <2>1. PICK k \in 1 .. Len(q) : x = q[k]
    BY <1>1 DEF Contents
  <2>2. k = 1 \/ (k - 1 \in 1 .. Len(q) - 1 /\ x = Tail(q)[k - 1])
    BY <1>1, <2>1
  <2> QED
    BY <1>1, <2>1, <2>2 DEF Contents
<1>3. ASSUME NEW x \in {Head(q)} \cup Contents(Tail(q)) PROVE x \in Contents(q)
  BY <1>1, <1>3 DEF Contents
<1> QED
  BY <1>1, <1>2, <1>3

LEMMA ContentsIn ==
    ASSUME NEW V, NEW q \in Seq(V)
    PROVE  /\ Contents(q) \subseteq V
           /\ \A k \in 1 .. Len(q) : q[k] \in Contents(q)
           /\ q = <<>> <=> Contents(q) = {}
<1>1. DOMAIN q = 1 .. Len(q) /\ Len(q) \in Nat /\ (q = <<>> <=> Len(q) = 0)
      /\ \A k \in 1 .. Len(q) : q[k] \in V
  BY LenProperties, EmptySeq, ElementOfSeq
<1>2. Contents(q) \subseteq V /\ \A k \in 1 .. Len(q) : q[k] \in Contents(q)
  BY <1>1 DEF Contents
<1>3. ASSUME q # <<>> PROVE Contents(q) # {}
  <2>1. 1 \in 1 .. Len(q)
    BY <1>1, <1>3
  <2> QED
    BY <1>2, <2>1
<1>4. ASSUME q = <<>> PROVE Contents(q) = {}
  <2>1. DOMAIN q = {}
    BY <1>1, <1>4
  <2> QED
    BY <2>1 DEF Contents
<1> QED
  BY <1>2, <1>3, <1>4
-----------------------------------------------------------------------------
(* Counting the tasks that own a reference.                                *)

One(b) == IF b THEN 1 ELSE 0

LEMMA OwningType ==
    ASSUME NEW q \in Seq(TaskRec)
    PROVE  /\ IsFiniteSet(Owning(q)) /\ Cardinality(Owning(q)) \in Nat
           /\ Cardinality(Owning(q)) = 0 <=> Owning(q) = {}
<1>1. Len(q) \in Nat /\ DOMAIN q = 1 .. Len(q)
  BY LenProperties
<1>2. IsFiniteSet(1 .. Len(q))
  BY <1>1, FS_Interval
<1>3. IsFiniteSet(Owning(q))
  BY <1>1, <1>2, FS_Subset DEF Owning
<1> QED
  BY <1>3, FS_CardinalityType, FS_EmptySet

LEMMA OwningAppend ==
    ASSUME NEW q \in Seq(TaskRec), NEW t \in TaskRec
    PROVE  Cardinality(Owning(Append(q, t)))
             = Cardinality(Owning(q)) + One(t.fn \in OwningTasks)
<1>1. /\ Append(q, t) \in Seq(TaskRec) /\ Len(q) \in Nat
      /\ Len(Append(q, t)) = Len(q) + 1
      /\ DOMAIN q = 1 .. Len(q) /\ DOMAIN Append(q, t) = 1 .. Len(q) + 1
      /\ Append(q, t)[Len(q) + 1] = t
      /\ \A i \in 1 .. Len(q) : Append(q, t)[i] = q[i]
  BY AppendProperties, LenProperties
<1>2. /\ IsFiniteSet(Owning(q)) /\ Cardinality(Owning(q)) \in Nat
      /\ Len(q) + 1 \notin Owning(q)
  BY <1>1, OwningType DEF Owning
<1>3. CASE t.fn \in OwningTasks
  <2>1. Owning(Append(q, t)) = Owning(q) \cup {Len(q) + 1}
    BY <1>1, <1>3 DEF Owning
  <2> QED
    BY <1>2, <1>3, <2>1, FS_AddElement DEF One
<1>4. CASE t.fn \notin OwningTasks
  <2>1. Owning(Append(q, t)) = Owning(q)
    BY <1>1, <1>4 DEF Owning
  <2> QED
    BY <1>2, <1>4, <2>1 DEF One
<1> QED
  BY <1>3, <1>4

LEMMA OwningTail ==
    ASSUME NEW q \in Seq(TaskRec), q # <<>>
    PROVE  Cardinality(Owning(q))
             = Cardinality(Owning(Tail(q))) + One(Head(q).fn \in OwningTasks)
<1>1. /\ Tail(q) \in Seq(TaskRec) /\ Len(q) \in Nat \ {0} /\ Len(Tail(q)) = Len(q) - 1
      /\ DOMAIN q = 1 .. Len(q) /\ DOMAIN Tail(q) = 1 .. Len(q) - 1
      /\ Head(q) = q[1] /\ Head(q) \in TaskRec
      /\ \A i \in 1 .. Len(q) - 1 : Tail(q)[i] = q[i + 1]
  BY HeadTailProperties, LenProperties, EmptySeq
<1> DEFINE T == Owning(Tail(q))
           U == {i + 1 : i \in T}
           f == [i \in T |-> i + 1]
<1>2. IsFiniteSet(T) /\ Cardinality(T) \in Nat /\ T \subseteq 1 .. Len(q) - 1
  BY <1>1, OwningType DEF Owning
<1>3. f \in Bijection(T, U)
  <2>1. f \in Injection(T, U)
    BY <1>1, <1>2 DEF Injection, IsInjective
  <2>2. f \in Surjection(T, U)
    BY DEF Surjection
  <2> QED
    BY <2>1, <2>2 DEF Bijection
<1>4. IsFiniteSet(U) /\ Cardinality(U) = Cardinality(T)
  BY <1>2, <1>3, FS_Bijection DEF ExistsBijection
<1>5. \A k \in 2 .. Len(q) : k \in Owning(q) <=> k \in U
  <2>1. ASSUME NEW k \in 2 .. Len(q) PROVE k \in Owning(q) <=> k - 1 \in T
    BY <1>1 DEF Owning
  <2>2. ASSUME NEW k \in 2 .. Len(q) PROVE k \in U <=> k - 1 \in T
    BY <1>1, <1>2
  <2> QED
    BY <2>1, <2>2
<1>6. U \subseteq 2 .. Len(q) /\ Owning(q) \subseteq 1 .. Len(q) /\ 1 \notin U
  BY <1>1, <1>2 DEF Owning
<1>7. CASE Head(q).fn \in OwningTasks
  <2>1. 1 \in Owning(q)
    BY <1>1, <1>7 DEF Owning
  <2>2. Owning(q) = U \cup {1}
    BY <1>1, <1>5, <1>6, <2>1
  <2> QED
    BY Zenon, <1>2, <1>4, <1>6, <1>7, <2>2, FS_AddElement DEF One
<1>8. CASE Head(q).fn \notin OwningTasks
  <2>1. 1 \notin Owning(q)
    BY <1>1, <1>8 DEF Owning
  <2>2. Owning(q) = U
    BY <1>1, <1>5, <1>6, <2>1
  <2> QED
    BY <1>2, <1>4, <1>8, <2>2 DEF One
<1> QED
  BY <1>7, <1>8
-----------------------------------------------------------------------------
(* Deferring a task, with the reference that it owns.                      *)

Owned(t) == t.fn \in OwningTasks
With(s, t) == [s EXCEPT !.r.refs = @ + One(Owned(t)), !.tasks = Append(@, t)]

LEMMA Typed2 ==
    ASSUME NEW s \in EngineRec
    PROVE  /\ s.r.refs \in Nat /\ s.r.running \in BOOLEAN /\ s.r.attached \in BOOLEAN
           /\ s.r.pub_sent \in BOOLEAN /\ s.r.io \in Nat /\ s.r.ready \in BOOLEAN
           /\ s.r.cmd_queue \in Seq(Words) /\ s.r.buf \in Seq(Frames)
           /\ s.ios \in Seq(IoRec) /\ s.tasks \in Seq(TaskRec) /\ s.timers \in Nat
           /\ s.answers \in [Commands -> Seq(Frames \cup {"none"})]
BY DEF EngineRec

LEMMA WithIs ==
    ASSUME NEW s \in EngineRec, NEW t \in TaskRec
    PROVE  LET u == With(s, t)
           IN  /\ u \in EngineRec
               /\ u.r = [s.r EXCEPT !.refs = @ + One(Owned(t))]
               /\ u.r.refs = s.r.refs + One(Owned(t))
               /\ u.r.running = s.r.running /\ u.r.attached = s.r.attached
               /\ u.r.pub_sent = s.r.pub_sent /\ u.r.io = s.r.io /\ u.r.ready = s.r.ready
               /\ u.r.cmd_queue = s.r.cmd_queue /\ u.r.buf = s.r.buf
               /\ u.ios = s.ios /\ u.timers = s.timers /\ u.answers = s.answers
               /\ u.tasks = Append(s.tasks, t) /\ u.tasks \in Seq(TaskRec)
               /\ Contents(u.tasks) = Contents(s.tasks) \cup {t}
               /\ Cardinality(Owning(u.tasks)) = Cardinality(Owning(s.tasks)) + One(Owned(t))
<1>1. s.tasks \in Seq(TaskRec) /\ One(Owned(t)) \in Nat
  BY Typed2 DEF One
<1>2. /\ Append(s.tasks, t) \in Seq(TaskRec)
      /\ Contents(Append(s.tasks, t)) = Contents(s.tasks) \cup {t}
  BY <1>1, ContentsAppend
<1>3. Cardinality(Owning(Append(s.tasks, t))) = Cardinality(Owning(s.tasks)) + One(Owned(t))
  BY <1>1, OwningAppend DEF Owned
<1> DEFINE m == s.r.refs + One(Owned(t))
           v == [s EXCEPT !.r.refs = m]
           u == With(s, t)
<1>4. m \in Nat
  BY <1>1, Typed2
<1>5. /\ v \in EngineRec /\ v.r = [s.r EXCEPT !.refs = m]
      /\ v.ios = s.ios /\ v.timers = s.timers /\ v.answers = s.answers /\ v.tasks = s.tasks
  BY <1>4 DEF EngineRec
<1>6. u = [v EXCEPT !.tasks = Append(s.tasks, t)]
  BY DEF With, EngineRec
<1> HIDE DEF u, v
<1>7. /\ u \in EngineRec /\ u.r = v.r
      /\ u.ios = s.ios /\ u.timers = s.timers /\ u.answers = s.answers
      /\ u.tasks = Append(s.tasks, t)
  BY <1>2, <1>5, <1>6 DEF EngineRec
<1>8. /\ v.r.refs = m /\ v.r.running = s.r.running /\ v.r.attached = s.r.attached
      /\ v.r.pub_sent = s.r.pub_sent /\ v.r.io = s.r.io /\ v.r.ready = s.r.ready
      /\ v.r.cmd_queue = s.r.cmd_queue /\ v.r.buf = s.r.buf
  BY <1>5 DEF EngineRec
<1> QED
  BY <1>2, <1>3, <1>5, <1>7, <1>8 DEF u

(* The positions of those that read and those that carry a command.        *)
LEMMA WithReaders ==
    ASSUME NEW s \in EngineRec, NEW t \in TaskRec
    PROVE  /\ ~Reads(t, s.r.io) => Readers(With(s, t)) = Readers(s)
           /\ Reads(t, s.r.io) => Readers(With(s, t)) = Readers(s) \cup {Len(s.tasks) + 1}
<1> DEFINE u == With(s, t)
<1>1. /\ u.r.io = s.r.io /\ u.tasks = Append(s.tasks, t) /\ s.tasks \in Seq(TaskRec)
  BY WithIs, Typed2
<1>2. /\ Len(s.tasks) \in Nat
      /\ DOMAIN s.tasks = 1 .. Len(s.tasks) /\ DOMAIN u.tasks = 1 .. Len(s.tasks) + 1
      /\ u.tasks[Len(s.tasks) + 1] = t
      /\ \A i \in 1 .. Len(s.tasks) : u.tasks[i] = s.tasks[i]
  BY <1>1, AppendProperties, LenProperties
<1> QED
  BY <1>1, <1>2 DEF Readers

LEMMA WithCarried ==
    ASSUME NEW s \in EngineRec, NEW t \in TaskRec, NEW cmd
    PROVE  /\ ~Carries(t, cmd) => InTasks(With(s, t), cmd) = InTasks(s, cmd)
           /\ Carries(t, cmd) => InTasks(With(s, t), cmd) = InTasks(s, cmd) \cup {Len(s.tasks) + 1}
<1> DEFINE u == With(s, t)
<1>1. /\ u.r.io = s.r.io /\ u.tasks = Append(s.tasks, t) /\ s.tasks \in Seq(TaskRec)
  BY WithIs, Typed2
<1>2. /\ Len(s.tasks) \in Nat
      /\ DOMAIN s.tasks = 1 .. Len(s.tasks) /\ DOMAIN u.tasks = 1 .. Len(s.tasks) + 1
      /\ u.tasks[Len(s.tasks) + 1] = t
      /\ \A i \in 1 .. Len(s.tasks) : u.tasks[i] = s.tasks[i]
  BY <1>1, AppendProperties, LenProperties
<1> QED
  BY <1>1, <1>2 DEF InTasks

(* Every task but one that continues to parse may be deferred.             *)
LEMMA WithCore ==
    ASSUME NEW s, NEW a, NEW p, NEW n \in Nat, NEW parsing \in BOOLEAN, Core(s, a, p, n, parsing),
           NEW t \in TaskRec, TaskOK(t, s.ios, p), t.fn # "continue" \/ parsing,
           t.fn = "closed" => s.ios[t.arg].closed,
           Owned(t) => s.r.refs > 0
    PROVE  Core(With(s, t), a, p, n, parsing)
<1> DEFINE u == With(s, t)
<1>0. s \in EngineRec
  BY DEF Core, Base, Typed
<1>1. /\ u \in EngineRec
      /\ u.r.refs = s.r.refs + One(Owned(t))
      /\ u.r.running = s.r.running /\ u.r.attached = s.r.attached
      /\ u.r.pub_sent = s.r.pub_sent /\ u.r.io = s.r.io /\ u.r.ready = s.r.ready
      /\ u.r.cmd_queue = s.r.cmd_queue /\ u.r.buf = s.r.buf
      /\ u.ios = s.ios /\ u.timers = s.timers /\ u.answers = s.answers
      /\ Contents(u.tasks) = Contents(s.tasks) \cup {t}
      /\ Cardinality(Owning(u.tasks)) = Cardinality(Owning(s.tasks)) + One(Owned(t))
      /\ Cardinality(Owning(s.tasks)) \in Nat /\ s.timers \in Nat /\ s.r.refs \in Nat
  BY Zenon, <1>0, WithIs, Typed2, OwningType
<1> HIDE DEF u
<1>3. Typed(u, p)
  BY <1>1 DEF Typed, Core, Base
<1>4. Counted(u, n)
  <2>1. One(Owned(t)) \in {0, 1} /\ Counted(s, n)
    BY DEF One, Core, Base
  <2>2. u.r.refs = n + u.timers + Cardinality(Owning(u.tasks))
    BY <1>1, <2>1 DEF Counted
  <2>3. u.r.refs = 0 => s.r.refs = 0
    BY <1>1, <2>1
  <2> QED
    BY <1>1, <2>1, <2>2, <2>3 DEF Counted
<1>5. Connected(u) /\ AllTold(u) /\ QueueOK(u)
  <2>1. Connected(u)
    BY <1>1 DEF Core, Base, Connected, IoOK
  <2>2. AllTold(u)
    BY <1>1 DEF Core, Base, AllTold, Told
  <2>3. QueueOK(u)
    BY <1>1 DEF Core, Base, QueueOK
  <2> QED
    BY <2>1, <2>2, <2>3
<1>6. Live(u) = Live(s) /\ Dying(u) = Dying(s) /\ Way(u) = Way(s)
      /\ (t.fn # "continue" => Continues(u) = Continues(s))
  BY <1>1 DEF Live, Dying, Way, Stream, Continues
<1>7. LockOK(u, p, parsing)
  <2>1. StepOK(u, parsing) /\ GreetOK(u) /\ SentOK(u)
    BY <1>1, <1>6 DEF Core, Base, LockOK, StepOK, GreetOK, SentOK
  <2>2. FramesOK(u, p)
    BY <1>1 DEF Core, Base, LockOK, FramesOK
  <2> QED
    BY <2>1, <2>2 DEF LockOK
<1>8. AnswersOK(u, p) /\ SubsOK(u, a)
  BY <1>1, <1>6 DEF Core, Base, AnswersOK, SubsOK, One
<1> QED
  BY <1>3, <1>4, <1>5, <1>7, <1>8 DEF Core, Base, u
LEMMA DeferIs ==
    ASSUME NEW s \in EngineRec, NEW fn, NEW arg, NEW reply
    PROVE  /\ fn \notin OwningTasks => Defer(s, fn, arg, reply) = With(s, Task(fn, arg, reply))
           /\ fn \in OwningTasks => Defer(Dup(s), fn, arg, reply) = With(s, Task(fn, arg, reply))
<1> DEFINE t == Task(fn, arg, reply)
<1>1. t.fn = fn
  BY DEF Task
<1>2. CASE fn \notin OwningTasks
  <2>1. One(Owned(t)) = 0 /\ s.r.refs \in Nat
    BY <1>1, <1>2, Typed2 DEF One, Owned
  <2>2. [s EXCEPT !.r.refs = @ + One(Owned(t))] = s
    BY <2>1 DEF EngineRec
  <2>3. With(s, t) = [[s EXCEPT !.r.refs = @ + One(Owned(t))] EXCEPT !.tasks = Append(s.tasks, t)]
    BY DEF With, EngineRec
  <2> QED
    BY <1>2, <2>2, <2>3 DEF Defer
<1>3. CASE fn \in OwningTasks
  <2>1. One(Owned(t)) = 1
    BY <1>1, <1>3 DEF One, Owned
  <2>2. Dup(s).tasks = s.tasks
    BY DEF Dup, EngineRec
  <2>3. With(s, t) = [Dup(s) EXCEPT !.tasks = Append(s.tasks, t)]
    BY <2>1 DEF With, Dup, EngineRec
  <2> QED
    BY <1>3, <2>2, <2>3 DEF Defer
<1> QED
  BY <1>2, <1>3

(* Other ways to change one part of the engine.                            *)
RRec == [refs : Nat, running : BOOLEAN, attached : BOOLEAN, pub_sent : BOOLEAN,
         io : Nat, ready : BOOLEAN, cmd_queue : Seq(Words), buf : Seq(Frames)]

LEMMA SetR ==
    ASSUME NEW s \in EngineRec, NEW x \in RRec
    PROVE  LET u == [s EXCEPT !.r = x]
           IN  /\ u \in EngineRec /\ u.r = x /\ u.ios = s.ios /\ u.tasks = s.tasks
               /\ u.timers = s.timers /\ u.answers = s.answers
BY DEF EngineRec, RRec

LEMMA SetIos ==
    ASSUME NEW s \in EngineRec, NEW x \in Seq(IoRec)
    PROVE  LET u == [s EXCEPT !.ios = x]
           IN  /\ u \in EngineRec /\ u.r = s.r /\ u.ios = x /\ u.tasks = s.tasks
               /\ u.timers = s.timers /\ u.answers = s.answers
BY DEF EngineRec

LEMMA SetIo ==
    ASSUME NEW s \in EngineRec, NEW i \in DOMAIN s.ios, NEW x \in IoRec
    PROVE  LET u == [s EXCEPT !.ios[i] = x]
           IN  /\ u \in EngineRec /\ u.r = s.r /\ u.tasks = s.tasks
               /\ u.timers = s.timers /\ u.answers = s.answers
               /\ u.ios = [s.ios EXCEPT ![i] = x]
               /\ DOMAIN u.ios = DOMAIN s.ios /\ Len(u.ios) = Len(s.ios) /\ u.ios[i] = x
               /\ \A j \in DOMAIN s.ios : j # i => u.ios[j] = s.ios[j]
<1>1. s.ios \in Seq(IoRec)
  BY Typed2
<1>2. /\ [s.ios EXCEPT ![i] = x] \in Seq(IoRec)
      /\ Len([s.ios EXCEPT ![i] = x]) = Len(s.ios)
      /\ DOMAIN s.ios = 1 .. Len(s.ios)
  BY <1>1, ExceptSeq, LenProperties
<1>3. [s EXCEPT !.ios[i] = x] = [s EXCEPT !.ios = [s.ios EXCEPT ![i] = x]]
  BY DEF EngineRec
<1> QED
  BY <1>1, <1>2, <1>3, SetIos

LEMMA IoType ==
    ASSUME NEW s \in EngineRec, NEW i \in DOMAIN s.ios
    PROVE  /\ s.ios[i] \in IoRec /\ i \in Nat \ {0} /\ i \in 1 .. Len(s.ios)
           /\ s.ios[i].st \in {"connecting", "open", "gone"} /\ s.ios[i].closed \in BOOLEAN
           /\ s.ios[i].owned \in BOOLEAN /\ s.ios[i].subs \in BOOLEAN
           /\ s.ios[i].up \in Seq(Words) /\ s.ios[i].down \in Seq(Frames)
           /\ s.ios[i].proto \in {"none", "resp3", "refused"}
<1>1. s.ios \in Seq(IoRec)
  BY Typed2
<1>2. s.ios[i] \in IoRec /\ i \in Nat \ {0} /\ i \in 1 .. Len(s.ios)
  BY <1>1, ElementOfSeq, LenProperties
<1> QED
  BY <1>2 DEF IoRec

LEMMA ClosedIs ==
    ASSUME NEW s \in EngineRec, NEW i \in DOMAIN s.ios
    PROVE  LET u == [s EXCEPT !.ios[i].closed = TRUE, !.ios[i].up = <<>>, !.ios[i].down = <<>>]
           IN  /\ u \in EngineRec /\ u.r = s.r /\ u.tasks = s.tasks
               /\ u.timers = s.timers /\ u.answers = s.answers
               /\ DOMAIN u.ios = DOMAIN s.ios
               /\ \A j \in DOMAIN s.ios : j # i => u.ios[j] = s.ios[j]
               /\ u.ios[i].closed /\ u.ios[i].up = <<>> /\ u.ios[i].down = <<>>
               /\ u.ios[i].st = s.ios[i].st /\ u.ios[i].owned = s.ios[i].owned
               /\ u.ios[i].proto = s.ios[i].proto /\ u.ios[i].subs = s.ios[i].subs
<1> DEFINE x == [s.ios[i] EXCEPT !.closed = TRUE, !.up = <<>>, !.down = <<>>]
<1>1. s.ios[i] \in IoRec /\ s.ios \in Seq(IoRec)
  BY IoType, Typed2
<1>2. /\ x \in IoRec /\ x.closed = TRUE /\ x.up = <<>> /\ x.down = <<>> /\ x.st = s.ios[i].st
      /\ x.owned = s.ios[i].owned /\ x.proto = s.ios[i].proto /\ x.subs = s.ios[i].subs
  <2>1. <<>> \in Seq(Words) /\ <<>> \in Seq(Frames)
    BY EmptySeq
  <2> QED
    BY <1>1, <2>1 DEF IoRec
<1>3. [s EXCEPT !.ios[i].closed = TRUE, !.ios[i].up = <<>>, !.ios[i].down = <<>>]
        = [s EXCEPT !.ios[i] = x]
  <2>1. s.ios \in Seq(IoRec) /\ DOMAIN s.ios = 1 .. Len(s.ios)
    BY <1>1, LenProperties
  <2> QED
    BY <1>1, <2>1 DEF EngineRec, IoRec
<1> HIDE DEF x
<1> DEFINE w == [s EXCEPT !.ios[i] = x]
<1>4. /\ w \in EngineRec /\ w.r = s.r /\ w.tasks = s.tasks
      /\ w.timers = s.timers /\ w.answers = s.answers
      /\ DOMAIN w.ios = DOMAIN s.ios /\ w.ios[i] = x
      /\ \A j \in DOMAIN s.ios : j # i => w.ios[j] = s.ios[j]
  BY <1>2, SetIo
<1> HIDE DEF w
<1> QED
  BY ONLY <1>2, <1>3, <1>4 DEF w
-----------------------------------------------------------------------------
(* What comes to the parser.                                               *)

LEMMA WordsInFrames == Words \subseteq Frames /\ Seq(Words) \subseteq Seq(Frames)
<1>1. Words \subseteq Frames
  BY DEF Frames
<1> QED
  BY <1>1, SeqMonotonic

LEMMA ComesJoin ==
    ASSUME NEW b \in Seq(Frames), NEW x \in Seq(Frames), NEW k \in Nat
    PROVE  /\ b \o x \in Seq(Frames)
           /\ Comes(b, k) => Comes(b \o x, k)
           /\ Comes(b \o x, k) /\ k <= Len(b) => Comes(b, k)
           /\ Comes(b \o x, k) => k \in 1 .. Len(b) + Len(x)
           /\ Comes(b, k) => k \in 1 .. Len(b)
<1>1. /\ b \o x \in Seq(Frames) /\ Len(b) \in Nat /\ Len(x) \in Nat
      /\ Len(b \o x) = Len(b) + Len(x)
      /\ \A i \in 1 .. Len(b) : (b \o x)[i] = b[i]
      /\ DOMAIN b = 1 .. Len(b) /\ DOMAIN (b \o x) = 1 .. Len(b) + Len(x)
  BY ConcatProperties, LenProperties
<1>2. ASSUME Comes(b, k) PROVE Comes(b \o x, k)
  <2>1. k \in 1 .. Len(b) /\ 1 .. k \subseteq 1 .. Len(b)
    BY <1>1, <1>2 DEF Comes
  <2> QED
    BY <1>1, <1>2, <2>1 DEF Comes
<1>3. ASSUME Comes(b \o x, k), k <= Len(b) PROVE Comes(b, k)
  <2>1. k \in 1 .. Len(b) /\ 1 .. k \subseteq 1 .. Len(b)
    BY <1>1, <1>3 DEF Comes
  <2> QED
    BY <1>1, <1>3, <2>1 DEF Comes
<1> QED
  BY <1>1, <1>2, <1>3 DEF Comes

LEMMA InStepPrefix ==
    ASSUME NEW b \in Seq(Frames), NEW x \in Seq(Frames), NEW q, NEW sent, InStep(b \o x, q, sent)
    PROVE  InStep(b, q, sent)
<1> SUFFICES ASSUME NEW k \in Nat, Comes(b, k)
             PROVE  sent /\ Replies(b[k], q) /\ \A j \in Nat : Comes(b, j) => j = k
  BY DEF InStep
<1>1. k \in 1 .. Len(b) /\ Comes(b \o x, k)
  BY ComesJoin
<1>2. (b \o x)[k] = b[k]
  BY <1>1, ConcatProperties
<1>3. \A j \in Nat : Comes(b, j) => Comes(b \o x, j)
  BY ComesJoin
<1> QED
  BY <1>1, <1>2, <1>3 DEF InStep

LEMMA NoneInStep ==
    ASSUME NEW way, NoneComes(way), NEW q, NEW sent
    PROVE  InStep(way, q, sent)
BY DEF NoneComes, InStep

LEMMA EmptyWay == NoneComes(<<>>)
<1>1. DOMAIN <<>> = {}
  OBVIOUS
<1> QED
  BY <1>1 DEF NoneComes, Comes

LEMMA WayType ==
    ASSUME NEW s \in EngineRec, NEW i \in DOMAIN s.ios
    PROVE  /\ Stream(s, i) = s.r.buf \o (s.ios[i].down \o s.ios[i].up)
           /\ s.r.buf \in Seq(Frames) /\ s.ios[i].down \in Seq(Frames) /\ s.ios[i].up \in Seq(Frames)
           /\ s.ios[i].down \o s.ios[i].up \in Seq(Frames)
           /\ Stream(s, i) \in Seq(Frames)
<1>1. s.r.buf \in Seq(Frames) /\ s.ios[i].down \in Seq(Frames) /\ s.ios[i].up \in Seq(Frames)
  BY Typed2, IoType, WordsInFrames
<1> DEFINE x == s.r.buf
           y == s.ios[i].down
           z == s.ios[i].up
<1>2. (x \o y) \o z = x \o (y \o z) /\ y \o z \in Seq(Frames)
  <2> HIDE DEF x, y, z
  <2> SUFFICES ASSUME x \in Seq(Frames), y \in Seq(Frames), z \in Seq(Frames)
               PROVE  (x \o y) \o z = x \o (y \o z) /\ y \o z \in Seq(Frames)
    BY <1>1 DEF x, y, z
  <2> QED
    BY ConcatAssociative, ConcatProperties
<1>3. x \o (y \o z) \in Seq(Frames)
  BY <1>1, <1>2, ConcatProperties
<1> QED
  BY <1>1, <1>2, <1>3 DEF Stream

-----------------------------------------------------------------------------
(* Closing the connection.                                                 *)

LEMMA CloseNowIs ==
    ASSUME NEW s \in EngineRec, NEW i \in DOMAIN s.ios, ~s.ios[i].closed
    PROVE  LET u == CloseNow(s, i)
           IN  /\ u \in EngineRec /\ u.r = s.r /\ u.timers = s.timers /\ u.answers = s.answers
               /\ Contents(u.tasks) = Contents(s.tasks) \cup {Task("closed", i, "none")}
               /\ Cardinality(Owning(u.tasks)) = Cardinality(Owning(s.tasks))
               /\ Readers(u) = Readers(s) /\ \A cmd : InTasks(u, cmd) = InTasks(s, cmd)
               /\ DOMAIN u.ios = DOMAIN s.ios
               /\ \A j \in DOMAIN s.ios : j # i => u.ios[j] = s.ios[j]
               /\ u.ios[i].closed /\ u.ios[i].up = <<>> /\ u.ios[i].down = <<>>
               /\ u.ios[i].st = s.ios[i].st /\ u.ios[i].owned = s.ios[i].owned
               /\ u.ios[i].proto = s.ios[i].proto /\ u.ios[i].subs = s.ios[i].subs
<1> DEFINE v == [s EXCEPT !.ios[i].closed = TRUE, !.ios[i].up = <<>>, !.ios[i].down = <<>>]
           t == Task("closed", i, "none")
           u == With(v, t)
<1>1. /\ v \in EngineRec /\ v.r = s.r /\ v.tasks = s.tasks
      /\ v.timers = s.timers /\ v.answers = s.answers
      /\ DOMAIN v.ios = DOMAIN s.ios
      /\ \A j \in DOMAIN s.ios : j # i => v.ios[j] = s.ios[j]
      /\ v.ios[i].closed /\ v.ios[i].up = <<>> /\ v.ios[i].down = <<>>
      /\ v.ios[i].st = s.ios[i].st /\ v.ios[i].owned = s.ios[i].owned
      /\ v.ios[i].proto = s.ios[i].proto /\ v.ios[i].subs = s.ios[i].subs
  BY ClosedIs
<1> HIDE DEF v
<1>2. t \in TaskRec /\ t.fn = "closed" /\ t.fn \notin OwningTasks
  BY IoType DEF Task, TaskRec, Fns, OwningTasks
<1>3. CloseNow(s, i) = u
  BY <1>1, <1>2, DeferIs DEF CloseNow, v, OwningTasks
<1>4. /\ u \in EngineRec /\ u.r = [v.r EXCEPT !.refs = @ + One(Owned(t))]
      /\ u.ios = v.ios /\ u.timers = v.timers /\ u.answers = v.answers
      /\ Contents(u.tasks) = Contents(v.tasks) \cup {t}
      /\ Cardinality(Owning(u.tasks)) = Cardinality(Owning(v.tasks)) + One(Owned(t))
  BY Zenon, <1>1, <1>2, WithIs
<1>5. One(Owned(t)) = 0 /\ v.r.refs \in Nat /\ Cardinality(Owning(v.tasks)) \in Nat
  BY <1>1, <1>2, Typed2, OwningType DEF One, Owned
<1>6. u.r = v.r /\ Cardinality(Owning(u.tasks)) = Cardinality(Owning(v.tasks))
  BY <1>1, <1>4, <1>5 DEF EngineRec
<1>7. Readers(u) = Readers(s)
  <2>1. ~Reads(t, v.r.io)
    BY <1>2 DEF Reads
  <2> QED
    BY <1>1, <1>2, <2>1, WithReaders DEF Readers
<1>8. ASSUME NEW cmd PROVE InTasks(u, cmd) = InTasks(s, cmd)
  <2>1. ~Carries(t, cmd)
    BY <1>2 DEF Carries
  <2> QED
    BY <1>1, <1>2, <2>1, WithCarried DEF InTasks
<1> HIDE DEF u
<1> QED
  BY ONLY <1>1, <1>3, <1>4, <1>6, <1>7, <1>8
LEMMA PlacesSame ==
    ASSUME NEW s, NEW u, NEW a, NEW cmd, InTasks(u, cmd) = InTasks(s, cmd),
           u.r.cmd_queue = s.r.cmd_queue, u.answers = s.answers, PlaceOK(s, a, cmd)
    PROVE  PlaceOK(u, a, cmd)
BY DEF PlaceOK, InQueue, Answered

LEMMA CloseNowCore ==
    ASSUME NEW s, NEW a, NEW p, NEW n \in Nat, NEW parsing \in BOOLEAN, Core(s, a, p, n, parsing),
           Dying(s) => s.r.buf = <<>>, NEW i \in DOMAIN s.ios
    PROVE  Core(CloseNow(s, i), a, p, n, parsing)
<1>1. CASE s.ios[i].closed
  BY <1>1 DEF CloseNow
<1>2. CASE ~s.ios[i].closed
  <2> DEFINE u == CloseNow(s, i)
  <2>0. s \in EngineRec /\ Typed(s, p) /\ Connected(s)
    BY DEF Core, Base, Typed
  <2>1. /\ u \in EngineRec /\ u.r = s.r /\ u.timers = s.timers /\ u.answers = s.answers
        /\ Contents(u.tasks) = Contents(s.tasks) \cup {Task("closed", i, "none")}
        /\ Cardinality(Owning(u.tasks)) = Cardinality(Owning(s.tasks))
        /\ Readers(u) = Readers(s)
        /\ DOMAIN u.ios = DOMAIN s.ios
        /\ \A j \in DOMAIN s.ios : j # i => u.ios[j] = s.ios[j]
        /\ u.ios[i].closed /\ u.ios[i].up = <<>> /\ u.ios[i].down = <<>>
        /\ u.ios[i].st = s.ios[i].st /\ u.ios[i].owned = s.ios[i].owned
        /\ u.ios[i].proto = s.ios[i].proto /\ u.ios[i].subs = s.ios[i].subs
    BY <1>2, <2>0, CloseNowIs
  <2> HIDE DEF u
  <2>2. s.r.io = i /\ i # NoIo /\ i \in Nat /\ s.ios[i].owned
    BY <1>2, <2>0, IoType DEF Connected, IoOK, NoIo
  <2>3. Typed(u, p)
    <3>1. TaskOK(Task("closed", i, "none"), u.ios, p)
      BY <2>1 DEF TaskOK, Task
    <3>2. ASSUME NEW t \in Contents(s.tasks) PROVE TaskOK(t, u.ios, p)
      BY <2>0, <2>1 DEF TaskOK, Typed
    <3> QED
      BY <2>1, <3>1, <3>2 DEF Typed
  <2>4. Counted(u, n)
    BY <2>1 DEF Core, Base, Counted
  <2>5. Connected(u)
    <3>1. ASSUME NEW j \in DOMAIN s.ios PROVE IoOK(u, j)
      <4>1. IoOK(s, j)
        BY <2>0 DEF Connected
      <4>2. CASE j = i
        BY <2>1, <4>1, <4>2 DEF IoOK
      <4>3. CASE j # i
        BY <2>1, <4>1, <4>3 DEF IoOK
      <4> QED
        BY <4>2, <4>3
    <3>2. s.r.io # NoIo => u.ios[u.r.io].st = s.ios[s.r.io].st
      BY <2>1, <2>2
    <3> QED
      BY <2>0, <2>1, <3>1, <3>2 DEF Connected
  <2>6. AllTold(u)
    <3>1. ASSUME NEW j \in DOMAIN s.ios PROVE Told(u, j)
      <4>1. CASE j = i
        BY <2>1, <4>1 DEF Told
      <4>2. CASE j # i
        BY <2>1, <4>2 DEF Core, Base, AllTold, Told
      <4> QED
        BY <4>1, <4>2
    <3>2. ASSUME NEW t \in Contents(u.tasks), t.fn = "closed" PROVE u.ios[t.arg].closed
      <4>1. CASE t = Task("closed", i, "none")
        BY <2>1, <4>1 DEF Task
      <4>2. CASE t \in Contents(s.tasks)
        <5>1. s.ios[t.arg].closed /\ t.arg \in DOMAIN s.ios
          BY <2>0, <3>2, <4>2 DEF Core, Base, AllTold, Typed, TaskOK
        <5> QED
          BY <1>2, <2>1, <5>1
      <4> QED
        BY <2>1, <4>1, <4>2
    <3> QED
      BY <2>1, <3>1, <3>2 DEF AllTold
  <2>7. ~Live(u) /\ ~Dying(u)
    BY <2>1, <2>2 DEF Live, Dying
  <2>8. StepOK(u, parsing)
    <3>1. Way(u) = s.r.buf
      <4>1. s.r.buf \in Seq(Frames)
        BY <2>0, Typed2
      <4>2. u.ios[i].down = <<>> /\ u.ios[i].up = <<>> /\ u.r.io = i /\ u.r.buf = s.r.buf
        BY <2>1, <2>2
      <4>3. s.r.buf \o <<>> = s.r.buf
        BY <4>1, ConcatEmptySeq
      <4> QED
        BY <4>2, <4>3 DEF Way, Stream
    <3>2. CASE s.r.buf = <<>>
      BY <3>1, <3>2, EmptyWay, NoneInStep DEF StepOK
    <3>3. CASE s.r.buf # <<>>
      <4>1. s.r.ready
        BY <2>0, <2>2, <3>3 DEF Connected
      <4>2. Live(s)
        BY <1>2, <2>2, <4>1 DEF Live
      <4>3. ~Dying(s)
        BY <3>3
      <4>4. InStep(Way(s), s.r.cmd_queue, s.r.pub_sent)
        BY <2>2, <4>2, <4>3 DEF Core, Base, LockOK, StepOK
      <4>5. InStep(s.r.buf, s.r.cmd_queue, s.r.pub_sent)
        <5> DEFINE y == s.ios[i].down \o s.ios[i].up
        <5>1. Way(s) = s.r.buf \o y /\ s.r.buf \in Seq(Frames) /\ y \in Seq(Frames)
          BY <2>0, <2>2, WayType DEF Way
        <5> HIDE DEF y
        <5> QED
          BY ONLY <4>4, <5>1, InStepPrefix
      <4> QED
        BY <2>1, <3>1, <4>5 DEF StepOK
    <3> QED
      BY <3>2, <3>3
  <2>9. FramesOK(u, p)
    <3>1. Contents(<<>>) = {}
      BY DEF Contents
    <3>2. ASSUME NEW j \in DOMAIN s.ios, NEW f \in Contents(u.ios[j].down) PROVE FrameOK(f, p)
      BY <2>1, <3>1, <3>2 DEF Core, Base, LockOK, FramesOK
    <3> QED
      BY <2>1, <3>2 DEF Core, Base, LockOK, FramesOK
  <2>10. LockOK(u, p, parsing)
    BY <2>7, <2>8, <2>9 DEF LockOK, GreetOK, SentOK
  <2>11. QueueOK(u) /\ AnswersOK(u, p) /\ SubsOK(u, a)
    <3>1. QueueOK(u)
      BY <2>1 DEF Core, Base, QueueOK
    <3>2. AnswersOK(u, p)
      BY <2>1 DEF Core, Base, AnswersOK
    <3>3. SubsOK(u, a)
      BY <2>1, <2>7 DEF Core, Base, SubsOK
    <3> QED
      BY <3>1, <3>2, <3>3
  <2> QED
    BY <2>3, <2>4, <2>5, <2>6, <2>10, <2>11 DEF Core, Base, u
<1> QED
  BY <1>1, <1>2

-----------------------------------------------------------------------------
(* Positions.                                                              *)

At(q, S) == {k \in DOMAIN q : q[k] \in S}

LEMMA AtAppend ==
    ASSUME NEW V, NEW q \in Seq(V), NEW x \in V, NEW S
    PROVE  /\ x \notin S => At(Append(q, x), S) = At(q, S)
           /\ x \in S => At(Append(q, x), S) = At(q, S) \cup {Len(q) + 1}
<1>1. /\ Append(q, x) \in Seq(V) /\ Len(q) \in Nat
      /\ Len(Append(q, x)) = Len(q) + 1
      /\ DOMAIN q = 1 .. Len(q) /\ DOMAIN Append(q, x) = 1 .. Len(q) + 1
      /\ Append(q, x)[Len(q) + 1] = x
      /\ \A i \in 1 .. Len(q) : Append(q, x)[i] = q[i]
  BY AppendProperties, LenProperties
<1> QED
  BY <1>1 DEF At

LEMMA AtTail ==
    ASSUME NEW V, NEW q \in Seq(V), q # <<>>, NEW S
    PROVE  /\ At(Tail(q), S) # {} => At(q, S) # {}
           /\ Head(q) \notin S /\ At(q, S) # {} => At(Tail(q), S) # {}
           /\ Single(At(q, S)) => Single(At(Tail(q), S))
           /\ Single(At(q, S)) /\ Head(q) \in S => At(Tail(q), S) = {}
           /\ Head(q) \in S => At(q, S) # {}
<1>1. /\ Tail(q) \in Seq(V) /\ Len(q) \in Nat \ {0} /\ Len(Tail(q)) = Len(q) - 1
      /\ DOMAIN q = 1 .. Len(q) /\ DOMAIN Tail(q) = 1 .. Len(q) - 1
      /\ Head(q) = q[1] /\ Head(q) \in V
      /\ \A i \in 1 .. Len(q) - 1 : Tail(q)[i] = q[i + 1]
  BY HeadTailProperties, LenProperties, EmptySeq
<1>2. ASSUME NEW k \in At(Tail(q), S) PROVE k \in Nat /\ k > 0 /\ k + 1 \in At(q, S)
  BY <1>1 DEF At
<1>3. ASSUME NEW k \in At(q, S) PROVE k = 1 \/ (k - 1 \in At(Tail(q), S))
  <2>1. k \in 1 .. Len(q) /\ q[k] \in S
    BY <1>1, <1>3 DEF At
  <2>2. k = 1 \/ (k - 1 \in 1 .. Len(q) - 1 /\ Tail(q)[k - 1] = q[k])
    BY <1>1, <2>1
  <2> QED
    BY <1>1, <2>1, <2>2 DEF At
<1>4. Head(q) \in S <=> 1 \in At(q, S)
  BY <1>1 DEF At
<1>5. ASSUME Single(At(q, S)), NEW j \in At(Tail(q), S), NEW k \in At(Tail(q), S) PROVE j = k
  <2>1. j + 1 = k + 1 /\ j \in Nat /\ k \in Nat
    BY <1>2, <1>5 DEF Single
  <2> QED
    BY <2>1
<1>6. ASSUME Single(At(q, S)), Head(q) \in S, NEW j \in At(Tail(q), S) PROVE FALSE
  <2>1. j + 1 = 1 /\ j \in Nat /\ j > 0
    BY <1>2, <1>4, <1>6 DEF Single
  <2> QED
    BY <2>1
<1> QED
  BY <1>2, <1>3, <1>4, <1>5, <1>6 DEF Single

LEMMA SingleAdded ==
    ASSUME NEW T, NEW x
    PROVE  /\ Single({}) /\ Single({x})
           /\ T = {} => Single(T \cup {x})
BY DEF Single

(* The tasks that read, that carry a command and that promote an IO.       *)
Reading(i) == {t \in TaskRec : Reads(t, i)}
Carrying(cmd) == {t \in TaskRec : Carries(t, cmd)}
Promoting(i) == {t \in TaskRec : t.fn = "ready" /\ t.arg = i}

LEMMA TasksAt ==
    ASSUME NEW s \in EngineRec
    PROVE  /\ Readers(s) = At(s.tasks, Reading(s.r.io))
           /\ \A cmd : InTasks(s, cmd) = At(s.tasks, Carrying(cmd))
           /\ \A i : Readies(s, i) = At(s.tasks, Promoting(i))
           /\ Owning(s.tasks) = At(s.tasks, {t \in TaskRec : Owned(t)})
<1>1. \A k \in DOMAIN s.tasks : s.tasks[k] \in TaskRec
  BY Typed2, ElementOfSeq, LenProperties
<1> QED
  BY <1>1 DEF Readers, InTasks, Readies, At, Reading, Carrying, Promoting, Owning, Owned

(* Every task that does not carry a command may be deferred.               *)
LEMMA WithFine ==
    ASSUME NEW s, NEW a, NEW p, NEW n \in Nat, Fine(s, a, p, n),
           NEW t \in TaskRec, TaskOK(t, s.ios, p), t.fn # "continue",
           t.fn = "closed" => s.ios[t.arg].closed,
           Owned(t) => s.r.refs > 0,
           Reads(t, s.r.io) => Readers(s) = {} /\ ~Dying(s),
           t.fn = "ready" => Readies(s, t.arg) = {} /\ s.ios[t.arg].st = "connecting"
    PROVE  Fine(With(s, t), a, p, n)
<1> DEFINE u == With(s, t)
<1>0. s \in EngineRec
  BY DEF Fine, Core, Base, Typed
<1>1. /\ u.r.io = s.r.io /\ u.r.cmd_queue = s.r.cmd_queue /\ u.r.buf = s.r.buf
      /\ u.r.ready = s.r.ready /\ u.ios = s.ios /\ u.tasks = Append(s.tasks, t)
      /\ Contents(u.tasks) = Contents(s.tasks) \cup {t} /\ u \in EngineRec
      /\ s.tasks \in Seq(TaskRec)
  BY Zenon, <1>0, WithIs, Typed2
<1>2. Core(u, a, p, n, FALSE)
  BY WithCore DEF Fine
<1> HIDE DEF u
<1>3. /\ Live(u) = Live(s) /\ Dying(u) = Dying(s)
      /\ (Continues(s) => Continues(u))
  BY <1>1 DEF Live, Dying, Continues
<1>4. Readers(s) = At(s.tasks, Reading(s.r.io)) /\ Readers(u) = At(Append(s.tasks, t), Reading(s.r.io))
  BY <1>0, <1>1, TasksAt
<1>5. t \in Reading(s.r.io) <=> Reads(t, s.r.io)
  BY DEF Reading
<1>6. ReadersOK(u)
  <2>1. Single(Readers(u))
    <3>1. CASE Reads(t, s.r.io)
      <4>1. Readers(u) = Readers(s) \cup {Len(s.tasks) + 1} /\ Readers(s) = {}
        BY <1>1, <1>4, <1>5, <3>1, AtAppend
      <4> QED
        BY <4>1, SingleAdded
    <3>2. CASE ~Reads(t, s.r.io)
      BY <1>1, <1>4, <1>5, <3>2, AtAppend DEF Fine, ReadersOK
    <3> QED
      BY <3>1, <3>2
  <2> QED
    BY <1>1, <1>3, <2>1 DEF Fine, ReadersOK
<1>7. ReadyOK(u)
  <2> SUFFICES ASSUME NEW i \in DOMAIN s.ios
               PROVE  Single(Readies(u, i)) /\ (Readies(u, i) # {} /\ ~s.ios[i].closed => s.ios[i].st = "connecting")
    BY <1>1 DEF ReadyOK
  <2>1. /\ Readies(s, i) = At(s.tasks, Promoting(i))
        /\ Readies(u, i) = At(Append(s.tasks, t), Promoting(i))
    BY <1>0, <1>1, TasksAt
  <2>2. Single(Readies(s, i)) /\ (Readies(s, i) # {} /\ ~s.ios[i].closed => s.ios[i].st = "connecting")
    BY DEF Fine, ReadyOK
  <2>3. CASE t \in Promoting(i)
    <3>1. Readies(s, i) = {} /\ s.ios[i].st = "connecting"
      BY <2>3 DEF Promoting
    <3> QED
      <4>1. Readies(u, i) = Readies(s, i) \cup {Len(s.tasks) + 1}
        BY <1>1, <2>1, <2>3, AtAppend
      <4> QED
        BY <3>1, <4>1, SingleAdded
  <2>4. CASE t \notin Promoting(i)
    BY <1>1, <2>1, <2>2, <2>4, AtAppend
  <2> QED
    BY <2>3, <2>4
<1>8. DyingOK(u)
  <2> SUFFICES ASSUME Dying(s) PROVE u.r.buf = <<>> /\ Readers(u) = {} /\ Refusal \in Contents(u.tasks)
    BY <1>3 DEF DyingOK
  <2>1. t \notin Reading(s.r.io)
    BY <1>5
  <2>2. Readers(u) = Readers(s)
    BY <1>1, <1>4, <2>1, AtAppend
  <2> QED
    BY <1>1, <2>2 DEF Fine, DyingOK
<1> QED
  BY <1>2, <1>6, <1>7, <1>8 DEF Fine, u

LEMMA WithPlace ==
    ASSUME NEW s \in EngineRec, NEW t \in TaskRec, NEW a, NEW cmd, ~Carries(t, cmd), PlaceOK(s, a, cmd)
    PROVE  PlaceOK(With(s, t), a, cmd)
<1>1. InTasks(With(s, t), cmd) = InTasks(s, cmd)
  BY WithCarried
<1> QED
  BY <1>1, WithIs, PlacesSame

LEMMA WithRetries ==
    ASSUME NEW s \in EngineRec, NEW t \in TaskRec, Retries(s) \/ t.fn = "connect"
    PROVE  Retries(With(s, t))
BY WithIs DEF Retries

LEMMA WithGood ==
    ASSUME NEW s, NEW a, NEW p, NEW n \in Nat, Good(s, a, p, n),
           NEW t \in TaskRec, TaskOK(t, s.ios, p),
           t.fn \notin {"continue", "attach_cmd", "perform_callback"},
           t.fn = "closed" => s.ios[t.arg].closed,
           Owned(t) => s.r.refs > 0,
           Reads(t, s.r.io) => Readers(s) = {} /\ ~Dying(s),
           t.fn = "ready" => Readies(s, t.arg) = {} /\ s.ios[t.arg].st = "connecting"
    PROVE  Good(With(s, t), a, p, n)
<1>1. s \in EngineRec
  BY DEF Good, Fine, Core, Base, Typed
<1>2. Fine(With(s, t), a, p, n)
  BY WithFine DEF Good
<1>3. \A cmd \in Commands : PlaceOK(With(s, t), a, cmd)
  BY <1>1, WithPlace DEF Good, Carries
<1> QED
  BY <1>1, <1>2, <1>3, WithRetries DEF Good
-----------------------------------------------------------------------------
(* Closing keeps the rest as well.                                         *)
LEMMA CloseNowReady ==
    ASSUME NEW s \in EngineRec, NEW i \in DOMAIN s.ios, ReadyOK(s)
    PROVE  ReadyOK(CloseNow(s, i))
<1> DEFINE u == CloseNow(s, i)
<1>1. CASE s.ios[i].closed
  BY <1>1 DEF CloseNow
<1>2. CASE ~s.ios[i].closed
  <2> DEFINE t == Task("closed", i, "none")
  <2>1. /\ u \in EngineRec /\ DOMAIN u.ios = DOMAIN s.ios /\ u.ios[i].closed
        /\ \A j \in DOMAIN s.ios : j # i => u.ios[j] = s.ios[j]
    BY <1>2, CloseNowIs
  <2>3. \A j : Readies(u, j) = Readies(s, j)
    <3> DEFINE v == [s EXCEPT !.ios[i].closed = TRUE, !.ios[i].up = <<>>, !.ios[i].down = <<>>]
    <3>1. v \in EngineRec /\ v.tasks = s.tasks
      BY Zenon, ClosedIs
    <3>2. u.tasks = Append(v.tasks, t)
      <4> HIDE DEF v
      <4>1. u = [v EXCEPT !.tasks = Append(@, t)]
        BY <1>2 DEF CloseNow, Defer, v
      <4> QED
        BY <3>1, <4>1 DEF EngineRec
    <3> HIDE DEF v, u
    <3>3. t \in TaskRec /\ t.fn = "closed"
      BY IoType DEF Task, TaskRec, Fns
    <3>4. s.tasks \in Seq(TaskRec) /\ \A j : t \notin Promoting(j)
      BY <3>3, Typed2 DEF Promoting
    <3>5. \A j : Readies(u, j) = At(Append(s.tasks, t), Promoting(j)) /\ Readies(s, j) = At(s.tasks, Promoting(j))
      <4>1. u.tasks = Append(s.tasks, t) /\ u \in EngineRec
        BY <2>1, <3>1, <3>2
      <4> HIDE DEF t
      <4>2. \A j : Readies(u, j) = At(u.tasks, Promoting(j))
        BY <4>1, TasksAt
      <4>3. \A j : Readies(s, j) = At(s.tasks, Promoting(j))
        BY TasksAt
      <4> QED
        BY <4>1, <4>2, <4>3
    <3> QED
      BY <3>3, <3>4, <3>5, AtAppend
  <2> HIDE DEF u
  <2>5. ReadyOK(s) => ReadyOK(u)
    <3> SUFFICES ASSUME ReadyOK(s), NEW j \in DOMAIN s.ios
                 PROVE  Single(Readies(u, j)) /\ (Readies(u, j) # {} /\ ~u.ios[j].closed => u.ios[j].st = "connecting")
      BY <2>1 DEF ReadyOK
    <3>1. CASE j = i
      BY <2>1, <2>3, <3>1 DEF ReadyOK
    <3>2. CASE j # i
      BY <2>1, <2>3, <3>2 DEF ReadyOK
    <3> QED
      BY <3>1, <3>2
  <2> QED
    BY <2>5 DEF u
<1> QED
  BY <1>1, <1>2

LEMMA CloseNowRest ==
    ASSUME NEW s \in EngineRec, Connected(s), NEW i \in DOMAIN s.ios
    PROVE  /\ ReadersOK(s) => ReadersOK(CloseNow(s, i))
           /\ ReadyOK(s) => ReadyOK(CloseNow(s, i))
           /\ DyingOK(s) \/ s.r.io = i => DyingOK(CloseNow(s, i))
           /\ Retries(s) => Retries(CloseNow(s, i))
           /\ \A a, cmd : PlaceOK(s, a, cmd) => PlaceOK(CloseNow(s, i), a, cmd)
<1> DEFINE u == CloseNow(s, i)
<1>1. CASE s.ios[i].closed
  BY <1>1 DEF CloseNow, DyingOK, Dying, Live
<1>2. CASE ~s.ios[i].closed
  <2> DEFINE t == Task("closed", i, "none")
  <2>1. /\ u.r = s.r /\ u.timers = s.timers /\ u.answers = s.answers /\ u \in EngineRec
        /\ Contents(u.tasks) = Contents(s.tasks) \cup {t}
        /\ Readers(u) = Readers(s) /\ \A cmd : InTasks(u, cmd) = InTasks(s, cmd)
        /\ u.ios[i].closed /\ DOMAIN u.ios = DOMAIN s.ios
        /\ \A j \in DOMAIN s.ios : j # i => u.ios[j] = s.ios[j]
    BY <1>2, CloseNowIs
  <2>2. s.r.io = i
    BY <1>2 DEF Connected, IoOK
  <2> HIDE DEF u
  <2>4. ReadersOK(s) => ReadersOK(u)
    BY <2>1, <2>2 DEF ReadersOK, Live
  <2>5. ReadyOK(s) => ReadyOK(u)
    BY CloseNowReady DEF u
  <2>6. Retries(s) => Retries(u)
    BY <2>1 DEF Retries
  <2>7. DyingOK(u)
    BY <2>1, <2>2 DEF DyingOK, Dying, Live
  <2>8. \A a, cmd : PlaceOK(s, a, cmd) => PlaceOK(u, a, cmd)
    BY <2>1, PlacesSame
  <2> QED
    BY <2>4, <2>5, <2>6, <2>7, <2>8 DEF u
<1> QED
  BY <1>1, <1>2

LEMMA CloseNowFine ==
    ASSUME NEW s, NEW a, NEW p, NEW n \in Nat, Fine(s, a, p, n), NEW i \in DOMAIN s.ios
    PROVE  Fine(CloseNow(s, i), a, p, n)
<1>1. s \in EngineRec /\ Connected(s)
  BY DEF Fine, Core, Base, Typed
<1>2. Core(CloseNow(s, i), a, p, n, FALSE)
  BY CloseNowCore DEF Fine, DyingOK
<1> QED
  BY <1>1, <1>2, CloseNowRest DEF Fine
-----------------------------------------------------------------------------
(* Taking the first task off the queue.                                    *)

Popped(s) == [s EXCEPT !.tasks = Tail(@)]

LEMMA PoppedIs ==
    ASSUME NEW s \in EngineRec, s.tasks # <<>>
    PROVE  LET u == Popped(s)
               t == Head(s.tasks)
           IN  /\ u \in EngineRec /\ u.r = s.r /\ u.ios = s.ios /\ u.timers = s.timers
               /\ u.answers = s.answers /\ u.tasks = Tail(s.tasks)
               /\ t \in TaskRec /\ t \in Contents(s.tasks)
               /\ Contents(s.tasks) = {t} \cup Contents(u.tasks)
               /\ Cardinality(Owning(s.tasks)) = Cardinality(Owning(u.tasks)) + One(Owned(t))
               /\ Cardinality(Owning(u.tasks)) \in Nat
<1>1. s.tasks \in Seq(TaskRec)
  BY Typed2
<1>2. /\ Tail(s.tasks) \in Seq(TaskRec) /\ Head(s.tasks) \in TaskRec
      /\ Contents(s.tasks) = {Head(s.tasks)} \cup Contents(Tail(s.tasks))
  BY <1>1, ContentsTail
<1>3. Cardinality(Owning(s.tasks)) = Cardinality(Owning(Tail(s.tasks))) + One(Owned(Head(s.tasks)))
  BY <1>1, OwningTail DEF Owned
<1>4. Cardinality(Owning(Tail(s.tasks))) \in Nat
  BY <1>2, OwningType
<1>5. Popped(s) = [s EXCEPT !.tasks = Tail(s.tasks)]
  BY DEF Popped
<1> QED
  BY <1>2, <1>3, <1>4, <1>5 DEF EngineRec

LEMMA PoppedAt ==
    ASSUME NEW s \in EngineRec, s.tasks # <<>>
    PROVE  LET u == Popped(s)
               t == Head(s.tasks)
           IN  /\ Single(Readers(s)) => Single(Readers(u)) /\ (Reads(t, s.r.io) => Readers(u) = {})
               /\ Readers(u) # {} => Readers(s) # {}
               /\ Reads(t, s.r.io) => Readers(s) # {}
               /\ \A i : /\ Single(Readies(s, i)) =>
                              /\ Single(Readies(u, i))
                              /\ t.fn = "ready" /\ t.arg = i => Readies(u, i) = {}
                         /\ Readies(u, i) # {} => Readies(s, i) # {}
                         /\ t.fn = "ready" /\ t.arg = i => Readies(s, i) # {}
               /\ \A cmd : /\ Single(InTasks(s, cmd)) =>
                                /\ Single(InTasks(u, cmd))
                                /\ Carries(t, cmd) => InTasks(u, cmd) = {}
                           /\ InTasks(u, cmd) # {} => InTasks(s, cmd) # {}
                           /\ Carries(t, cmd) => InTasks(s, cmd) # {}
                           /\ ~Carries(t, cmd) /\ InTasks(s, cmd) # {} => InTasks(u, cmd) # {}
<1> DEFINE u == Popped(s)
           t == Head(s.tasks)
           q == s.tasks
<1>1. u \in EngineRec /\ u.r = s.r /\ u.tasks = Tail(q) /\ t \in TaskRec /\ q \in Seq(TaskRec)
  BY PoppedIs, Typed2
<1> HIDE DEF u
<1>2. /\ Readers(s) = At(q, Reading(s.r.io)) /\ Readers(u) = At(Tail(q), Reading(s.r.io))
      /\ \A cmd : InTasks(s, cmd) = At(q, Carrying(cmd)) /\ InTasks(u, cmd) = At(Tail(q), Carrying(cmd))
      /\ \A i : Readies(s, i) = At(q, Promoting(i)) /\ Readies(u, i) = At(Tail(q), Promoting(i))
  <2>1. /\ Readers(s) = At(q, Reading(s.r.io))
        /\ \A cmd : InTasks(s, cmd) = At(q, Carrying(cmd))
        /\ \A i : Readies(s, i) = At(q, Promoting(i))
    BY TasksAt
  <2>2. /\ Readers(u) = At(u.tasks, Reading(u.r.io))
        /\ \A cmd : InTasks(u, cmd) = At(u.tasks, Carrying(cmd))
        /\ \A i : Readies(u, i) = At(u.tasks, Promoting(i))
    BY <1>1, TasksAt
  <2> QED
    BY <1>1, <2>1, <2>2
<1>3. /\ \A i : t \in Reading(i) <=> Reads(t, i)
      /\ \A cmd : t \in Carrying(cmd) <=> Carries(t, cmd)
      /\ \A i : t \in Promoting(i) <=> t.fn = "ready" /\ t.arg = i
  BY <1>1 DEF Reading, Carrying, Promoting
<1>4. \A S : /\ At(Tail(q), S) # {} => At(q, S) # {}
             /\ t \notin S /\ At(q, S) # {} => At(Tail(q), S) # {}
             /\ Single(At(q, S)) => Single(At(Tail(q), S))
             /\ Single(At(q, S)) /\ t \in S => At(Tail(q), S) = {}
             /\ t \in S => At(q, S) # {}
  BY <1>1, AtTail
<1> HIDE DEF t, q
<1>5. /\ Single(Readers(s)) => Single(Readers(u)) /\ (Reads(t, s.r.io) => Readers(u) = {})
      /\ Readers(u) # {} => Readers(s) # {}
      /\ Reads(t, s.r.io) => Readers(s) # {}
  BY ONLY <1>2, <1>3, <1>4
<1>6. ASSUME NEW i
      PROVE  /\ Single(Readies(s, i)) =>
                  /\ Single(Readies(u, i))
                  /\ t.fn = "ready" /\ t.arg = i => Readies(u, i) = {}
             /\ Readies(u, i) # {} => Readies(s, i) # {}
             /\ t.fn = "ready" /\ t.arg = i => Readies(s, i) # {}
  <2>1. Readies(s, i) = At(q, Promoting(i)) /\ Readies(u, i) = At(Tail(q), Promoting(i))
    BY <1>2
  <2>2. t \in Promoting(i) <=> t.fn = "ready" /\ t.arg = i
    BY <1>3
  <2> QED
    BY ONLY <2>1, <2>2, <1>4
<1>7. ASSUME NEW cmd
      PROVE  /\ Single(InTasks(s, cmd)) =>
                  /\ Single(InTasks(u, cmd))
                  /\ Carries(t, cmd) => InTasks(u, cmd) = {}
             /\ InTasks(u, cmd) # {} => InTasks(s, cmd) # {}
             /\ Carries(t, cmd) => InTasks(s, cmd) # {}
             /\ ~Carries(t, cmd) /\ InTasks(s, cmd) # {} => InTasks(u, cmd) # {}
  <2>1. InTasks(s, cmd) = At(q, Carrying(cmd)) /\ InTasks(u, cmd) = At(Tail(q), Carrying(cmd))
    BY <1>2
  <2>2. t \in Carrying(cmd) <=> Carries(t, cmd)
    BY <1>3
  <2> QED
    BY ONLY <2>1, <2>2, <1>4
<1> QED
  BY <1>5, <1>6, <1>7 DEF u, t

LEMMA PoppedBase ==
    ASSUME NEW s, NEW a, NEW p, NEW n \in Nat, Base(s, a, p, n, FALSE), s.tasks # <<>>
    PROVE  Base(Popped(s), a, p, n + One(Owned(Head(s.tasks))), FALSE)
<1> DEFINE u == Popped(s)
           t == Head(s.tasks)
           m == n + One(Owned(t))
<1>0. s \in EngineRec
  BY DEF Base, Typed
<1>1. /\ u \in EngineRec /\ u.r = s.r /\ u.ios = s.ios /\ u.timers = s.timers
      /\ u.answers = s.answers
      /\ Contents(s.tasks) = {t} \cup Contents(u.tasks)
      /\ Cardinality(Owning(s.tasks)) = Cardinality(Owning(u.tasks)) + One(Owned(t))
      /\ Cardinality(Owning(u.tasks)) \in Nat
  BY <1>0, PoppedIs
<1>2. One(Owned(t)) \in {0, 1} /\ s.timers \in Nat /\ m \in Nat
  BY <1>0, Typed2 DEF One
<1> HIDE DEF u
<1>3. Typed(u, p)
  BY <1>1 DEF Base, Typed
<1>4. Counted(u, m)
  BY <1>1, <1>2 DEF Base, Counted
<1>5. Live(u) = Live(s) /\ Dying(u) = Dying(s) /\ Way(u) = Way(s) /\ (Continues(u) => Continues(s))
  BY <1>1 DEF Live, Dying, Way, Stream, Continues
<1>6. Connected(u) /\ QueueOK(u) /\ AnswersOK(u, p)
  BY <1>1 DEF Base, Connected, IoOK, QueueOK, AnswersOK
<1>7. LockOK(u, p, FALSE)
  BY <1>1, <1>5 DEF Base, LockOK, StepOK, GreetOK, SentOK, FramesOK
<1>8. SubsOK(u, a)
  BY <1>1, <1>5 DEF Base, SubsOK
<1> QED
  BY <1>3, <1>4, <1>6, <1>7, <1>8 DEF Base, u

(* What taking off a task leaves to be done is what the task does.         *)
LEMMA PoppedFine ==
    ASSUME NEW s, NEW a, NEW p, NEW n \in Nat, Fine(s, a, p, n), s.tasks # <<>>,
           NEW m \in Nat, m = n + One(Owned(Head(s.tasks)))
    PROVE  LET u == Popped(s)
               t == Head(s.tasks)
           IN  /\ Base(u, a, p, m, FALSE) /\ ReadyOK(u)
               /\ t.fn # "closed" => AllTold(u) /\ Core(u, a, p, m, FALSE)
               /\ t.fn # "continue" => ReadersOK(u)
               /\ Reads(t, s.r.io) => Readers(u) = {} /\ ~Dying(u)
               /\ t.fn # "perform_callback" => DyingOK(u)
               /\ Dying(u) => u.r.buf = <<>> /\ Readers(u) = {}
               /\ t.fn \notin {"closed", "continue", "perform_callback"} => Fine(u, a, p, m)
               /\ t \in TaskRec /\ TaskOK(t, u.ios, p)
               /\ t.fn = "closed" => u.ios[t.arg].closed
               /\ t.fn = "ready" => Readies(u, t.arg) = {}
                                    /\ (~u.ios[t.arg].closed => u.ios[t.arg].st = "connecting")
<1> DEFINE u == Popped(s)
           t == Head(s.tasks)
<1>0. s \in EngineRec /\ Base(s, a, p, n, FALSE) /\ Typed(s, p) /\ AllTold(s)
      /\ ReadersOK(s) /\ ReadyOK(s) /\ DyingOK(s)
  BY DEF Fine, Core, Base, Typed
<1>1. /\ u \in EngineRec /\ u.r = s.r /\ u.ios = s.ios /\ t \in TaskRec
      /\ Contents(s.tasks) = {t} \cup Contents(u.tasks)
  BY <1>0, PoppedIs
<1>2. Base(u, a, p, m, FALSE)
  BY <1>0, PoppedBase
<1>3. TaskOK(t, u.ios, p)
  BY <1>0, <1>1 DEF Typed
<1>4. t.fn # "closed" => AllTold(u)
  BY <1>0, <1>1 DEF AllTold, Told, Task
<1>5. t.fn = "closed" => u.ios[t.arg].closed
  BY <1>0, <1>1 DEF AllTold
<1>6. /\ Single(Readers(s)) => Single(Readers(u)) /\ (Reads(t, s.r.io) => Readers(u) = {})
      /\ Readers(u) # {} => Readers(s) # {}
      /\ Reads(t, s.r.io) => Readers(s) # {}
  BY <1>0, PoppedAt
<1>7. \A i : /\ Single(Readies(s, i)) =>
                  /\ Single(Readies(u, i))
                  /\ t.fn = "ready" /\ t.arg = i => Readies(u, i) = {}
             /\ Readies(u, i) # {} => Readies(s, i) # {}
             /\ t.fn = "ready" /\ t.arg = i => Readies(s, i) # {}
  BY <1>0, PoppedAt
<1> HIDE DEF u, t
<1>8. Live(u) = Live(s) /\ Dying(u) = Dying(s) /\ (t.fn # "continue" /\ Continues(s) => Continues(u))
  BY <1>1 DEF Live, Dying, Continues
<1>9. t.fn # "continue" => ReadersOK(u)
  BY <1>0, <1>1, <1>6, <1>8 DEF ReadersOK
<1>10. Reads(t, s.r.io) => Readers(u) = {} /\ ~Dying(u)
  BY <1>0, <1>6, <1>8 DEF ReadersOK, DyingOK
<1>11. Dying(u) => u.r.buf = <<>> /\ Readers(u) = {}
  BY <1>0, <1>1, <1>6, <1>8 DEF DyingOK
<1>12. t.fn # "perform_callback" => DyingOK(u)
  BY <1>0, <1>1, <1>8, <1>11 DEF DyingOK, Refusal, Task
<1>13. ReadyOK(u)
  <2> SUFFICES ASSUME NEW i \in DOMAIN s.ios
               PROVE  Single(Readies(u, i)) /\ (Readies(u, i) # {} /\ ~s.ios[i].closed => s.ios[i].st = "connecting")
    BY <1>1 DEF ReadyOK
  <2>1. Single(Readies(s, i)) /\ (Readies(s, i) # {} /\ ~s.ios[i].closed => s.ios[i].st = "connecting")
    BY <1>0 DEF ReadyOK
  <2>2. (Single(Readies(s, i)) => Single(Readies(u, i))) /\ (Readies(u, i) # {} => Readies(s, i) # {})
    BY <1>7
  <2> QED
    BY ONLY <2>1, <2>2
<1>14. t.fn = "ready" => Readies(u, t.arg) = {} /\ (~u.ios[t.arg].closed => u.ios[t.arg].st = "connecting")
  <2>1. t.fn = "ready" => t.arg \in DOMAIN s.ios
    BY <1>1, <1>3 DEF TaskOK
  <2>2. t.fn = "ready" => Single(Readies(s, t.arg))
        /\ (Readies(s, t.arg) # {} /\ ~s.ios[t.arg].closed => s.ios[t.arg].st = "connecting")
    BY <1>0, <2>1 DEF ReadyOK
  <2>3. t.fn = "ready" /\ Single(Readies(s, t.arg)) => Readies(u, t.arg) = {} /\ Readies(s, t.arg) # {}
    BY <1>7
  <2> QED
    BY ONLY <1>1, <2>2, <2>3
<1> QED
  BY <1>1, <1>2, <1>3, <1>4, <1>5, <1>9, <1>10, <1>11, <1>12, <1>13, <1>14 DEF Fine, Core, u, t

LEMMA PoppedRest ==
    ASSUME NEW s \in EngineRec, s.tasks # <<>>
    PROVE  /\ Retries(s) /\ Head(s.tasks).fn # "connect" => Retries(Popped(s))
           /\ \A a, cmd : PlaceOK(s, a, cmd) /\ ~Carries(Head(s.tasks), cmd) => PlaceOK(Popped(s), a, cmd)
           /\ \A a, cmd : PlaceOK(s, a, cmd) /\ Carries(Head(s.tasks), cmd) =>
                /\ InTasks(Popped(s), cmd) = {} /\ InQueue(Popped(s), cmd) = {}
                /\ Answered(Popped(s), cmd) = {} /\ cmd \notin a.calls /\ cmd \in a.sent
<1> DEFINE u == Popped(s)
           t == Head(s.tasks)
<1>1. /\ u.r = s.r /\ u.timers = s.timers /\ u.answers = s.answers
      /\ Contents(s.tasks) = {t} \cup Contents(u.tasks)
  BY PoppedIs
<1>2. \A cmd : /\ Single(InTasks(s, cmd)) =>
                    /\ Single(InTasks(u, cmd))
                    /\ Carries(t, cmd) => InTasks(u, cmd) = {}
               /\ InTasks(u, cmd) # {} => InTasks(s, cmd) # {}
               /\ Carries(t, cmd) => InTasks(s, cmd) # {}
               /\ ~Carries(t, cmd) /\ InTasks(s, cmd) # {} => InTasks(u, cmd) # {}
  BY PoppedAt
<1> HIDE DEF u, t
<1>3. \A cmd : InQueue(u, cmd) = InQueue(s, cmd) /\ Answered(u, cmd) = Answered(s, cmd)
  BY <1>1 DEF InQueue, Answered
<1>4. Retries(s) /\ t.fn # "connect" => Retries(u)
  BY <1>1 DEF Retries
<1>5. ASSUME NEW a, NEW cmd, PlaceOK(s, a, cmd), ~Carries(t, cmd) PROVE PlaceOK(u, a, cmd)
  <2>1. /\ Single(InTasks(s, cmd)) => Single(InTasks(u, cmd))
        /\ InTasks(u, cmd) # {} <=> InTasks(s, cmd) # {}
    BY <1>2, <1>5
  <2>2. InQueue(u, cmd) = InQueue(s, cmd) /\ Answered(u, cmd) = Answered(s, cmd)
    BY <1>3
  <2> QED
    BY ONLY <1>5, <2>1, <2>2 DEF PlaceOK
<1>6. ASSUME NEW a, NEW cmd, PlaceOK(s, a, cmd), Carries(t, cmd)
      PROVE  /\ InTasks(u, cmd) = {} /\ InQueue(u, cmd) = {}
             /\ Answered(u, cmd) = {} /\ cmd \notin a.calls /\ cmd \in a.sent
  <2>1. /\ Single(InTasks(s, cmd)) => InTasks(u, cmd) = {}
        /\ InTasks(s, cmd) # {}
    BY <1>2, <1>6
  <2>2. InQueue(u, cmd) = InQueue(s, cmd) /\ Answered(u, cmd) = Answered(s, cmd)
    BY <1>3
  <2> QED
    BY ONLY <1>6, <2>1, <2>2 DEF PlaceOK
<1> QED
  BY <1>4, <1>5, <1>6 DEF u, t
-----------------------------------------------------------------------------
(* The last reference.                                                     *)

LEMMA LessIs ==
    ASSUME NEW s \in EngineRec, s.r.refs > 0
    PROVE  LET u == [s EXCEPT !.r.refs = @ - 1]
           IN  /\ u \in EngineRec /\ u.r.refs = s.r.refs - 1
               /\ u.r.running = s.r.running /\ u.r.attached = s.r.attached
               /\ u.r.pub_sent = s.r.pub_sent /\ u.r.io = s.r.io /\ u.r.ready = s.r.ready
               /\ u.r.cmd_queue = s.r.cmd_queue /\ u.r.buf = s.r.buf
               /\ u.ios = s.ios /\ u.timers = s.timers /\ u.answers = s.answers
               /\ u.tasks = s.tasks
<1> DEFINE x == [s.r EXCEPT !.refs = @ - 1]
           u == [s EXCEPT !.r.refs = @ - 1]
<1>1. /\ x \in RRec /\ x.refs = s.r.refs - 1
      /\ x.running = s.r.running /\ x.attached = s.r.attached
      /\ x.pub_sent = s.r.pub_sent /\ x.io = s.r.io /\ x.ready = s.r.ready
      /\ x.cmd_queue = s.r.cmd_queue /\ x.buf = s.r.buf
  <2>1. s.r \in RRec /\ s.r.refs - 1 \in Nat
    BY DEF EngineRec, RRec
  <2> QED
    BY <2>1 DEF RRec
<1>2. u = [s EXCEPT !.r = x]
  BY DEF EngineRec
<1> HIDE DEF x
<1>3. /\ u \in EngineRec /\ u.r = x /\ u.ios = s.ios /\ u.tasks = s.tasks
      /\ u.timers = s.timers /\ u.answers = s.answers
  <2> HIDE DEF u
  <2> QED
    BY <1>1, <1>2, SetR
<1> QED
  BY <1>1, <1>3

LEMMA DrainedIs ==
    ASSUME NEW s \in EngineRec
    PROVE  LET u == Drained(s)
           IN  /\ u \in EngineRec /\ u.r.refs = s.r.refs
               /\ u.r.running = FALSE /\ u.r.attached = s.r.attached
               /\ u.r.pub_sent = s.r.pub_sent /\ u.r.io = NoIo /\ u.r.ready = s.r.ready
               /\ u.r.cmd_queue = <<>> /\ u.r.buf = s.r.buf
               /\ u.ios = s.ios /\ u.timers = s.timers
               /\ u.tasks = s.tasks
               /\ \A cmd \in Commands : u.answers[cmd] =
                    IF cmd \in Contents(s.r.cmd_queue) THEN Append(s.answers[cmd], "none")
                    ELSE s.answers[cmd]
<1> DEFINE x == [s.r EXCEPT !.running = FALSE, !.io = NoIo, !.cmd_queue = <<>>]
           g == [cmd \in Commands |->
                   IF cmd \in Contents(s.r.cmd_queue) THEN Append(s.answers[cmd], "none")
                   ELSE s.answers[cmd]]
           v == [s EXCEPT !.r = x]
           u == Drained(s)
<1>1. /\ x \in RRec /\ x.refs = s.r.refs
      /\ x.running = FALSE /\ x.attached = s.r.attached
      /\ x.pub_sent = s.r.pub_sent /\ x.io = NoIo /\ x.ready = s.r.ready
      /\ x.cmd_queue = <<>> /\ x.buf = s.r.buf
  <2>1. s.r \in RRec /\ NoIo \in Nat /\ <<>> \in Seq(Words)
    BY EmptySeq DEF EngineRec, RRec, NoIo
  <2> QED
    BY <2>1 DEF RRec
<1>2. g \in [Commands -> Seq(Frames \cup {"none"})]
  <2>1. \A cmd \in Commands : s.answers[cmd] \in Seq(Frames \cup {"none"})
    BY Typed2
  <2>2. \A cmd \in Commands : Append(s.answers[cmd], "none") \in Seq(Frames \cup {"none"})
    BY <2>1, AppendProperties
  <2> QED
    BY <2>1, <2>2
<1>3. u = [v EXCEPT !.answers = g]
  BY DEF Drained, EngineRec
<1>4. /\ v \in EngineRec /\ v.r = x /\ v.ios = s.ios /\ v.tasks = s.tasks
      /\ v.timers = s.timers /\ v.answers = s.answers
  <2> HIDE DEF x
  <2> QED
    BY <1>1, SetR
<1> HIDE DEF x, u, v
<1>5. /\ u \in EngineRec /\ u.r = x /\ u.ios = s.ios /\ u.tasks = s.tasks
      /\ u.timers = s.timers /\ u.answers = g
  <2> HIDE DEF g
  <2> QED
    BY <1>2, <1>3, <1>4 DEF EngineRec
<1> QED
  BY <1>1, <1>5 DEF u

LEMMA DisownedIs ==
    ASSUME NEW s \in EngineRec, NEW i \in DOMAIN s.ios
    PROVE  LET u == [s EXCEPT !.ios[i].owned = FALSE]
           IN  /\ u \in EngineRec /\ u.r = s.r /\ u.tasks = s.tasks
               /\ u.timers = s.timers /\ u.answers = s.answers
               /\ DOMAIN u.ios = DOMAIN s.ios
               /\ \A j \in DOMAIN s.ios : j # i => u.ios[j] = s.ios[j]
               /\ u.ios[i].closed = s.ios[i].closed /\ u.ios[i].up = s.ios[i].up
               /\ u.ios[i].down = s.ios[i].down
               /\ u.ios[i].st = s.ios[i].st /\ u.ios[i].owned = FALSE
               /\ u.ios[i].proto = s.ios[i].proto /\ u.ios[i].subs = s.ios[i].subs
<1> DEFINE x == [s.ios[i] EXCEPT !.owned = FALSE]
<1>1. s.ios[i] \in IoRec /\ s.ios \in Seq(IoRec) /\ DOMAIN s.ios = 1 .. Len(s.ios)
  BY IoType, Typed2, LenProperties
<1>2. /\ x \in IoRec /\ x.closed = s.ios[i].closed /\ x.up = s.ios[i].up /\ x.down = s.ios[i].down
      /\ x.st = s.ios[i].st
      /\ x.owned = FALSE /\ x.proto = s.ios[i].proto /\ x.subs = s.ios[i].subs
  BY <1>1 DEF IoRec
<1>3. [s EXCEPT !.ios[i].owned = FALSE] = [s EXCEPT !.ios[i] = x]
  BY <1>1 DEF EngineRec, IoRec
<1> HIDE DEF x
<1> DEFINE w == [s EXCEPT !.ios[i] = x]
<1>4. /\ w \in EngineRec /\ w.r = s.r /\ w.tasks = s.tasks
      /\ w.timers = s.timers /\ w.answers = s.answers
      /\ DOMAIN w.ios = DOMAIN s.ios /\ w.ios[i] = x
      /\ \A j \in DOMAIN s.ios : j # i => w.ios[j] = s.ios[j]
  BY <1>2, SetIo
<1> HIDE DEF w
<1> QED
  BY ONLY <1>2, <1>3, <1>4 DEF w

(* The engine is stopped and has neither a connection nor a queue.         *)
LEMMA DestroyIs ==
    ASSUME NEW s \in EngineRec, Connected(s)
    PROVE  LET u == Destroy(s)
           IN  /\ u \in EngineRec /\ u.r = Drained(s).r /\ u.answers = Drained(s).answers
               /\ u.timers = s.timers
               /\ Cardinality(Owning(u.tasks)) = Cardinality(Owning(s.tasks))
               /\ Contents(s.tasks) \subseteq Contents(u.tasks)
               /\ \A t \in Contents(u.tasks) \ Contents(s.tasks) :
                    t = Task("closed", s.r.io, "none") /\ s.r.io \in DOMAIN s.ios
               /\ \A cmd : InTasks(u, cmd) = InTasks(s, cmd)
               /\ ReadyOK(s) => ReadyOK(u)
               /\ DOMAIN u.ios = DOMAIN s.ios
               /\ \A j \in DOMAIN s.ios : j # s.r.io => u.ios[j] = s.ios[j]
               /\ s.r.io # NoIo =>
                    LET x == u.ios[s.r.io]
                    IN  /\ x.closed /\ x.owned = FALSE /\ x.up = <<>> /\ x.down = <<>>
                        /\ x.st = s.ios[s.r.io].st /\ x.proto = s.ios[s.r.io].proto
                        /\ x.subs = s.ios[s.r.io].subs
                        /\ s.ios[s.r.io].closed \/ Task("closed", s.r.io, "none") \in Contents(u.tasks)
<1> DEFINE d == Drained(s)
           i == s.r.io
           v == [d EXCEPT !.ios[i].owned = FALSE]
           u == Destroy(s)
<1>1. /\ d \in EngineRec /\ d.ios = s.ios /\ d.timers = s.timers /\ d.tasks = s.tasks
  BY DrainedIs
<1> HIDE DEF d
<1>2. CASE i = NoIo
  <2>1. u = d
    BY <1>2 DEF Destroy, d
  <2>2. \A j \in DOMAIN s.ios : j # NoIo
    BY IoType DEF NoIo
  <2>3. \A cmd : InTasks(u, cmd) = InTasks(s, cmd)
    BY <1>1, <2>1 DEF InTasks
  <2> HIDE DEF u
  <2>4. ReadyOK(s) => ReadyOK(u)
    <3>1. u.tasks = s.tasks /\ u.ios = s.ios
      BY <1>1, <2>1
    <3> QED
      BY <3>1 DEF ReadyOK, Readies
  <2> QED
    BY <1>1, <1>2, <2>1, <2>2, <2>3, <2>4 DEF d, u
<1>3. CASE i # NoIo
  <2>0. i \in DOMAIN s.ios /\ i \in DOMAIN d.ios
    BY <1>1, <1>3 DEF Connected
  <2>1. u = CloseNow(v, i)
    BY <1>3 DEF Destroy, d
  <2>2. /\ v \in EngineRec /\ v.r = d.r /\ v.tasks = d.tasks
        /\ v.timers = d.timers /\ v.answers = d.answers
        /\ DOMAIN v.ios = DOMAIN d.ios
        /\ \A j \in DOMAIN d.ios : j # i => v.ios[j] = d.ios[j]
        /\ v.ios[i].closed = d.ios[i].closed /\ v.ios[i].up = d.ios[i].up
        /\ v.ios[i].down = d.ios[i].down
        /\ v.ios[i].st = d.ios[i].st /\ v.ios[i].owned = FALSE
        /\ v.ios[i].proto = d.ios[i].proto /\ v.ios[i].subs = d.ios[i].subs
    BY <1>1, <2>0, DisownedIs
  <2> HIDE DEF v, u
  <2>3. \A cmd : InTasks(v, cmd) = InTasks(s, cmd)
    BY <1>1, <2>2 DEF InTasks
  <2>4. ReadyOK(s) => ReadyOK(v)
    <3> SUFFICES ASSUME ReadyOK(s), NEW j \in DOMAIN s.ios
                 PROVE  Single(Readies(v, j)) /\ (Readies(v, j) # {} /\ ~v.ios[j].closed => v.ios[j].st = "connecting")
      BY <1>1, <2>2 DEF ReadyOK
    <3>1. Readies(v, j) = Readies(s, j)
      BY <1>1, <2>2 DEF Readies
    <3>2. v.ios[j].closed = s.ios[j].closed /\ v.ios[j].st = s.ios[j].st
      BY <1>1, <2>2
    <3> QED
      BY <3>1, <3>2 DEF ReadyOK
  <2>5. CASE d.ios[i].closed
    <3>1. u = v
      BY <2>1, <2>2, <2>5 DEF CloseNow
    <3>2. IoOK(s, i)
      BY <2>0 DEF Connected
    <3>3. s.ios[i].up = <<>> /\ s.ios[i].down = <<>>
      BY <1>1, <2>5, <3>2 DEF IoOK
    <3>4. /\ u \in EngineRec /\ u.r = d.r /\ u.answers = d.answers /\ u.timers = s.timers
          /\ u.tasks = s.tasks /\ DOMAIN u.ios = DOMAIN s.ios
          /\ \A j \in DOMAIN s.ios : j # i => u.ios[j] = s.ios[j]
          /\ s.ios[i].closed = TRUE
      BY <1>1, <2>2, <2>5, <3>1
    <3>5. /\ u.ios[i].closed = TRUE /\ u.ios[i].owned = FALSE /\ u.ios[i].up = <<>>
          /\ u.ios[i].down = <<>> /\ u.ios[i].st = s.ios[i].st
          /\ u.ios[i].proto = s.ios[i].proto /\ u.ios[i].subs = s.ios[i].subs
      BY <1>1, <2>2, <2>5, <3>1, <3>3
    <3>6. (\A cmd : InTasks(u, cmd) = InTasks(s, cmd)) /\ (ReadyOK(s) => ReadyOK(u))
      BY <2>3, <2>4, <3>1
    <3> QED
      BY <3>4, <3>5, <3>6 DEF d, u
  <2>6. CASE ~d.ios[i].closed
    <3>0. v \in EngineRec /\ i \in DOMAIN v.ios /\ ~v.ios[i].closed
      BY <2>0, <2>2, <2>6
    <3> HIDE DEF i
    <3>1. /\ u \in EngineRec /\ u.r = v.r /\ u.timers = v.timers /\ u.answers = v.answers
          /\ Contents(u.tasks) = Contents(v.tasks) \cup {Task("closed", i, "none")}
          /\ Cardinality(Owning(u.tasks)) = Cardinality(Owning(v.tasks))
          /\ \A cmd : InTasks(u, cmd) = InTasks(v, cmd)
          /\ DOMAIN u.ios = DOMAIN v.ios
          /\ \A j \in DOMAIN v.ios : j # i => u.ios[j] = v.ios[j]
          /\ u.ios[i].closed /\ u.ios[i].up = <<>> /\ u.ios[i].down = <<>>
          /\ u.ios[i].st = v.ios[i].st /\ u.ios[i].owned = v.ios[i].owned
          /\ u.ios[i].proto = v.ios[i].proto /\ u.ios[i].subs = v.ios[i].subs
      BY <2>1, <3>0, CloseNowIs
    <3>2. ReadyOK(v) => ReadyOK(u)
      BY <2>1, <3>0, CloseNowReady
    <3>3. /\ u.r = d.r /\ u.timers = s.timers /\ u.answers = d.answers
          /\ Contents(u.tasks) = Contents(s.tasks) \cup {Task("closed", i, "none")}
          /\ Cardinality(Owning(u.tasks)) = Cardinality(Owning(s.tasks))
          /\ DOMAIN u.ios = DOMAIN s.ios
          /\ \A j \in DOMAIN s.ios : j # i => u.ios[j] = s.ios[j]
      BY <1>1, <2>2, <3>1
    <3>4. /\ u.ios[i].closed /\ u.ios[i].owned = FALSE /\ u.ios[i].up = <<>>
          /\ u.ios[i].down = <<>> /\ u.ios[i].st = s.ios[i].st
          /\ u.ios[i].proto = s.ios[i].proto /\ u.ios[i].subs = s.ios[i].subs
      BY <1>1, <2>2, <3>1
    <3>5. (\A cmd : InTasks(u, cmd) = InTasks(s, cmd)) /\ (ReadyOK(s) => ReadyOK(u))
      BY <2>3, <2>4, <3>1, <3>2
    <3> QED
      BY <1>1, <2>0, <3>1, <3>3, <3>4, <3>5 DEF d, u, i
  <2> QED
    BY <2>5, <2>6
<1> QED
  BY <1>2, <1>3
(* Most of the invariant does not depend on the references, the timers and *)
(* whether the engine is attached.                                         *)
Alike(s, u) ==
    /\ s \in EngineRec /\ u \in EngineRec
    /\ u.r.running = s.r.running /\ u.r.pub_sent = s.r.pub_sent /\ u.r.io = s.r.io
    /\ u.r.ready = s.r.ready /\ u.r.cmd_queue = s.r.cmd_queue /\ u.r.buf = s.r.buf
    /\ u.ios = s.ios /\ u.tasks = s.tasks /\ u.answers = s.answers

LEMMA AlikeKeeps ==
    ASSUME NEW s, NEW u, Alike(s, u)
    PROVE  /\ \A p : Typed(s, p) => Typed(u, p)
           /\ Connected(s) => Connected(u)
           /\ AllTold(s) => AllTold(u)
           /\ \A p, parsing : LockOK(s, p, parsing) => LockOK(u, p, parsing)
           /\ QueueOK(s) => QueueOK(u)
           /\ ReadersOK(s) => ReadersOK(u)
           /\ ReadyOK(s) => ReadyOK(u)
           /\ DyingOK(s) => DyingOK(u)
           /\ \A a, cmd : PlaceOK(s, a, cmd) => PlaceOK(u, a, cmd)
           /\ Live(u) = Live(s) /\ Readers(u) = Readers(s) /\ Dying(u) = Dying(s)
<1>1. /\ Live(u) = Live(s) /\ Dying(u) = Dying(s) /\ Way(u) = Way(s) /\ Readers(u) = Readers(s)
      /\ Continues(u) = Continues(s)
  BY DEF Alike, Live, Dying, Way, Stream, Readers, Continues
<1>2. Connected(s) => Connected(u)
  BY DEF Alike, Connected, IoOK
<1>3. \A p, parsing : LockOK(s, p, parsing) => LockOK(u, p, parsing)
  BY <1>1 DEF Alike, LockOK, StepOK, GreetOK, SentOK, FramesOK
<1>4. /\ AllTold(s) => AllTold(u)
      /\ QueueOK(s) => QueueOK(u)
      /\ ReadersOK(s) => ReadersOK(u)
      /\ DyingOK(s) => DyingOK(u)
  BY <1>1 DEF Alike, AllTold, Told, QueueOK, ReadersOK, DyingOK
<1>5. ReadyOK(s) => ReadyOK(u)
  <2>1. \A i : Readies(u, i) = Readies(s, i)
    BY DEF Alike, Readies
  <2> QED
    BY <2>1 DEF Alike, ReadyOK
<1>6. ASSUME NEW a, NEW cmd, PlaceOK(s, a, cmd) PROVE PlaceOK(u, a, cmd)
  <2>1. InTasks(u, cmd) = InTasks(s, cmd)
    BY DEF Alike, InTasks
  <2> QED
    BY <1>6, <2>1, PlacesSame DEF Alike
<1>7. \A p : Typed(s, p) => Typed(u, p)
  BY DEF Alike, Typed
<1> QED
  BY <1>1, <1>2, <1>3, <1>4, <1>5, <1>6, <1>7

LEMMA AlikeFine ==
    ASSUME NEW s, NEW u, Alike(s, u), NEW a, NEW b, NEW p, NEW m, NEW n, NEW parsing,
           Counted(u, n), SubsOK(u, b), s.r.refs = 0 => u.r.refs = 0
    PROVE  /\ Core(s, a, p, m, parsing) => Core(u, b, p, n, parsing)
           /\ Fine(s, a, p, m) => Fine(u, b, p, n)
<1>1. AnswersOK(s, p) => AnswersOK(u, p)
  BY DEF Alike, AnswersOK
<1>2. Core(s, a, p, m, parsing) => Core(u, b, p, n, parsing)
  BY <1>1, AlikeKeeps DEF Core, Base
<1>3. Core(s, a, p, m, FALSE) => Core(u, b, p, n, FALSE)
  BY <1>1, AlikeKeeps DEF Core, Base
<1> QED
  BY <1>2, <1>3, AlikeKeeps DEF Fine

LEMMA AppendOnce ==
    ASSUME NEW V, NEW x \in V, NEW q, q = <<>>
    PROVE  DOMAIN Append(q, x) = {1} /\ Append(q, x)[1] = x
<1>1. <<>> \in Seq(V) /\ Len(<<>>) = 0
  BY EmptySeq
<1>2. Len(Append(q, x)) = 1 /\ Append(q, x)[1] = x /\ Append(q, x) \in Seq(V)
  BY <1>1, AppendProperties
<1>3. DOMAIN Append(q, x) = 1 .. 1
  BY <1>2, LenProperties
<1> QED
  BY <1>2, <1>3

LEMMA NoPositions ==
    ASSUME NEW V, NEW q \in Seq(V)
    PROVE  DOMAIN q = {} <=> q = <<>>
<1>1. DOMAIN q = 1 .. Len(q) /\ Len(q) \in Nat /\ (q = <<>> <=> Len(q) = 0)
  BY LenProperties, EmptySeq
<1>2. Len(q) # 0 => 1 \in DOMAIN q
  BY <1>1
<1>3. Len(q) = 0 => DOMAIN q = {}
  BY <1>1
<1> QED
  BY <1>1, <1>2, <1>3

(* What is queued is answered with no reply.                               *)
LEMMA DrainPlace ==
    ASSUME NEW s \in EngineRec, NEW u, NEW a, NEW cmd \in Commands, PlaceOK(s, a, cmd),
           InTasks(u, cmd) = InTasks(s, cmd), u.r.cmd_queue = <<>>,
           u.answers[cmd] = IF cmd \in Contents(s.r.cmd_queue) THEN Append(s.answers[cmd], "none")
                            ELSE s.answers[cmd]
    PROVE  /\ PlaceOK(u, a, cmd)
           /\ \A k \in DOMAIN u.answers[cmd] :
                u.answers[cmd][k] = "none" \/ (k \in DOMAIN s.answers[cmd] /\ u.answers[cmd][k] = s.answers[cmd][k])
<1>1. InQueue(u, cmd) = {}
  BY DEF InQueue
<1>2. InQueue(s, cmd) # {} <=> cmd \in Contents(s.r.cmd_queue)
  BY DEF InQueue, Contents
<1>3. CASE cmd \in Contents(s.r.cmd_queue)
  <2>1. InTasks(s, cmd) = {} /\ Answered(s, cmd) = {} /\ cmd \notin a.calls /\ cmd \in a.sent
    BY <1>2, <1>3 DEF PlaceOK
  <2>2. s.answers[cmd] = <<>>
    <3>1. s.answers[cmd] \in Seq(Frames \cup {"none"})
      BY Typed2
    <3> QED
      BY <2>1, <3>1, NoPositions DEF Answered
  <2>3. DOMAIN u.answers[cmd] = {1} /\ u.answers[cmd][1] = "none"
    <3>1. u.answers[cmd] = Append(s.answers[cmd], "none") /\ "none" \in {"none"}
      BY <1>3
    <3> QED
      BY <2>2, <3>1, AppendOnce
  <2>4. Answered(u, cmd) = {1} /\ Single({1})
    BY <2>3, SingleAdded DEF Answered
  <2>5. Single(InQueue(u, cmd))
    BY <1>1 DEF Single
  <2> QED
    BY <1>1, <2>1, <2>3, <2>4, <2>5 DEF PlaceOK
<1>4. CASE cmd \notin Contents(s.r.cmd_queue)
  <2>1. InQueue(s, cmd) = {} /\ Answered(u, cmd) = Answered(s, cmd)
    BY <1>2, <1>4 DEF Answered
  <2> QED
    BY <1>1, <1>4, <2>1 DEF PlaceOK
<1> QED
  BY <1>3, <1>4

LEMMA FreeGood ==
    ASSUME NEW s, NEW a, NEW p, NEW n \in Nat, Fine(s, a, p, n + 1),
           \A cmd \in Commands : PlaceOK(s, a, cmd)
    PROVE  /\ Fine(Free(s), a, p, n) /\ \A cmd \in Commands : PlaceOK(Free(s), a, cmd)
           /\ Retries(s) => Retries(Free(s))
<1> DEFINE v == [s EXCEPT !.r.refs = @ - 1]
           u == Free(s)
<1>0. /\ s \in EngineRec /\ Typed(s, p) /\ Counted(s, n + 1) /\ Connected(s) /\ AllTold(s)
      /\ LockOK(s, p, FALSE) /\ QueueOK(s) /\ AnswersOK(s, p) /\ SubsOK(s, a)
      /\ ReadersOK(s) /\ ReadyOK(s) /\ DyingOK(s)
  BY DEF Fine, Core, Base, Typed
<1>1. /\ s.r.refs \in Nat /\ s.timers \in Nat /\ Cardinality(Owning(s.tasks)) \in Nat
      /\ s.r.refs = n + 1 + s.timers + Cardinality(Owning(s.tasks)) /\ s.r.refs > 0
      /\ (Cardinality(Owning(s.tasks)) = 0 => Owning(s.tasks) = {})
  <2>1. /\ s.r.refs \in Nat /\ s.timers \in Nat /\ Cardinality(Owning(s.tasks)) \in Nat
        /\ (Cardinality(Owning(s.tasks)) = 0 => Owning(s.tasks) = {})
    BY <1>0, Typed2, OwningType
  <2> QED
    BY <1>0, <2>1 DEF Counted
<1>2. /\ v \in EngineRec /\ v.r.refs = s.r.refs - 1
      /\ v.r.running = s.r.running /\ v.r.attached = s.r.attached
      /\ v.r.pub_sent = s.r.pub_sent /\ v.r.io = s.r.io /\ v.r.ready = s.r.ready
      /\ v.r.cmd_queue = s.r.cmd_queue /\ v.r.buf = s.r.buf
      /\ v.ios = s.ios /\ v.timers = s.timers /\ v.answers = s.answers
      /\ v.tasks = s.tasks
  BY <1>0, <1>1, LessIs
<1>3. u = IF v.r.refs = 0 THEN Destroy(v) ELSE v
  BY DEF Free
<1> HIDE DEF v, u
<1>4. Alike(s, v)
  BY <1>0, <1>2 DEF Alike
<1>5. CASE v.r.refs # 0
  <2>1. Counted(v, n)
    BY <1>0, <1>1, <1>2, <1>5 DEF Counted
  <2>2. SubsOK(v, a)
    BY <1>0, <1>2, <1>4, AlikeKeeps DEF SubsOK
  <2>3. Fine(v, a, p, n)
    BY <1>1, <1>4, <2>1, <2>2, AlikeFine
  <2>4. \A cmd \in Commands : PlaceOK(v, a, cmd)
    BY <1>4, AlikeKeeps
  <2>5. Retries(s) => Retries(v)
    BY <1>2 DEF Retries
  <2> QED
    BY <1>3, <1>5, <2>3, <2>4, <2>5 DEF u
<1>6. CASE v.r.refs = 0
  <2> DEFINE i == s.r.io
  <2>1. n = 0 /\ s.timers = 0 /\ Cardinality(Owning(s.tasks)) = 0 /\ Owning(s.tasks) = {}
    <3>1. n = 0 /\ s.timers = 0 /\ Cardinality(Owning(s.tasks)) = 0
      <4> DEFINE c == Cardinality(Owning(s.tasks))
                 k == s.timers
                 m == s.r.refs
      <4>1. m \in Nat /\ k \in Nat /\ c \in Nat /\ n \in Nat /\ m = n + 1 + k + c /\ m - 1 = 0
        BY <1>1, <1>2, <1>6
      <4> HIDE DEF c, k, m
      <4>2. n = 0 /\ k = 0 /\ c = 0
        BY ONLY <4>1
      <4> QED
        BY <4>2 DEF c, k
    <3> QED
      BY <1>1, <3>1
  <2>2. Connected(v) /\ ReadyOK(v)
    BY <1>0, <1>4, AlikeKeeps
  <2>3. /\ u.r.refs = 0 /\ u.r.running = FALSE /\ u.r.attached = s.r.attached
        /\ u.r.io = NoIo /\ u.r.cmd_queue = <<>> /\ u.r.buf = s.r.buf
        /\ \A cmd \in Commands : u.answers[cmd] =
                    IF cmd \in Contents(s.r.cmd_queue) THEN Append(s.answers[cmd], "none")
                    ELSE s.answers[cmd]
    <3>1. u.r = Drained(v).r /\ u.answers = Drained(v).answers
      BY <1>2, <1>3, <1>6, <2>2, DestroyIs
    <3> DEFINE d == Drained(v)
    <3>2. /\ d.r.refs = v.r.refs /\ d.r.running = FALSE /\ d.r.attached = v.r.attached
          /\ d.r.io = NoIo /\ d.r.cmd_queue = <<>> /\ d.r.buf = v.r.buf
          /\ \A cmd \in Commands : d.answers[cmd] =
               IF cmd \in Contents(v.r.cmd_queue) THEN Append(v.answers[cmd], "none")
               ELSE v.answers[cmd]
      BY <1>2, DrainedIs
    <3> HIDE DEF d
    <3> QED
      BY <1>2, <1>6, <3>1, <3>2 DEF d
  <2>4. /\ u \in EngineRec /\ u.timers = s.timers
        /\ Cardinality(Owning(u.tasks)) = Cardinality(Owning(s.tasks))
        /\ Contents(s.tasks) \subseteq Contents(u.tasks)
        /\ \A t \in Contents(u.tasks) \ Contents(s.tasks) :
             t = Task("closed", i, "none") /\ i \in DOMAIN s.ios
        /\ \A cmd : InTasks(u, cmd) = InTasks(v, cmd)
        /\ ReadyOK(u)
        /\ DOMAIN u.ios = DOMAIN s.ios
        /\ \A j \in DOMAIN s.ios : j # i => u.ios[j] = s.ios[j]
        /\ i # NoIo =>
             /\ u.ios[i].closed /\ u.ios[i].owned = FALSE /\ u.ios[i].up = <<>> /\ u.ios[i].down = <<>>
             /\ u.ios[i].st = s.ios[i].st /\ u.ios[i].proto = s.ios[i].proto
             /\ u.ios[i].subs = s.ios[i].subs
             /\ s.ios[i].closed \/ Task("closed", i, "none") \in Contents(u.tasks)
    <3>1. u = Destroy(v) /\ v \in EngineRec /\ v.r.io = i
      BY <1>2, <1>3, <1>6
    <3> HIDE DEF i
    <3>2. /\ u \in EngineRec /\ u.timers = v.timers
          /\ Cardinality(Owning(u.tasks)) = Cardinality(Owning(v.tasks))
          /\ Contents(v.tasks) \subseteq Contents(u.tasks)
          /\ \A t \in Contents(u.tasks) \ Contents(v.tasks) :
               t = Task("closed", v.r.io, "none") /\ v.r.io \in DOMAIN v.ios
          /\ \A cmd : InTasks(u, cmd) = InTasks(v, cmd)
          /\ ReadyOK(v) => ReadyOK(u)
          /\ DOMAIN u.ios = DOMAIN v.ios
          /\ \A j \in DOMAIN v.ios : j # v.r.io => u.ios[j] = v.ios[j]
      BY <2>2, <3>1, DestroyIs
    <3>3. v.r.io # NoIo =>
            LET x == u.ios[v.r.io]
            IN  /\ x.closed /\ x.owned = FALSE /\ x.up = <<>> /\ x.down = <<>>
                /\ x.st = v.ios[v.r.io].st /\ x.proto = v.ios[v.r.io].proto
                /\ x.subs = v.ios[v.r.io].subs
                /\ v.ios[v.r.io].closed \/ Task("closed", v.r.io, "none") \in Contents(u.tasks)
      BY <2>2, <3>1, DestroyIs
    <3> QED
      BY <1>2, <2>2, <3>1, <3>2, <3>3
  <2>5. Typed(u, p)
    <3>1. ASSUME NEW t \in Contents(u.tasks) PROVE TaskOK(t, u.ios, p)
      <4>1. CASE t \in Contents(s.tasks)
        BY <1>0, <2>4, <4>1 DEF Typed, TaskOK
      <4>2. CASE t = Task("closed", i, "none") /\ i \in DOMAIN s.ios
        BY <2>4, <4>2 DEF TaskOK, Task
      <4> QED
        BY <2>4, <4>1, <4>2
    <3> QED
      BY <2>4, <3>1 DEF Typed
  <2>6. Counted(u, n)
    BY <1>1, <2>1, <2>3, <2>4 DEF Counted
  <2>7. Connected(u)
    <3>1. ASSUME NEW j \in DOMAIN s.ios PROVE IoOK(u, j)
      <4>1. IoOK(s, j) /\ j # NoIo
        BY <1>0, IoType DEF Connected, NoIo
      <4>2. CASE j = i
        BY <2>3, <2>4, <4>1, <4>2 DEF IoOK
      <4>3. CASE j # i
        BY <2>3, <2>4, <4>1, <4>3 DEF IoOK
      <4> QED
        BY <4>2, <4>3
    <3> QED
      BY <2>3, <2>4, <3>1 DEF Connected
  <2>8. AllTold(u)
    <3>1. ASSUME NEW j \in DOMAIN s.ios PROVE Told(u, j)
      <4>1. CASE j = i
        <5>1. i # NoIo
          BY <1>0, <4>1, IoType DEF NoIo
        <5> QED
          BY <1>0, <2>4, <4>1, <5>1 DEF AllTold, Told
      <4>2. CASE j # i
        BY <1>0, <2>4, <4>2 DEF AllTold, Told
      <4> QED
        BY <4>1, <4>2
    <3>2. ASSUME NEW t \in Contents(u.tasks), t.fn = "closed" PROVE u.ios[t.arg].closed
      <4>1. CASE t \in Contents(s.tasks)
        <5>1. t.arg \in DOMAIN s.ios /\ s.ios[t.arg].closed
          BY <1>0, <3>2, <4>1 DEF AllTold, Typed, TaskOK
        <5>2. t.arg # NoIo
          BY <1>0, <5>1, IoType DEF NoIo
        <5> QED
          BY <2>4, <5>1, <5>2
      <4>2. CASE t = Task("closed", i, "none") /\ i \in DOMAIN s.ios
        <5>1. i # NoIo /\ t.arg = i
          BY <1>0, <4>2, IoType DEF NoIo, Task
        <5> QED
          BY <2>4, <5>1
      <4> QED
        BY <2>4, <4>1, <4>2
    <3> QED
      BY <2>4, <3>1, <3>2 DEF AllTold
  <2>9. ~Live(u) /\ ~Dying(u)
    BY <2>3 DEF Live, Dying
  <2>10. FramesOK(u, p)
    <3>1. Contents(<<>>) = {}
      BY DEF Contents
    <3>2. ASSUME NEW j \in DOMAIN s.ios, NEW f \in Contents(u.ios[j].down) PROVE FrameOK(f, p)
      <4>1. CASE j = i
        <5>1. i # NoIo
          BY <1>0, <4>1, IoType DEF NoIo
        <5> QED
          BY <2>4, <3>1, <3>2, <4>1, <5>1
      <4>2. CASE j # i
        BY <1>0, <2>4, <3>2, <4>2 DEF LockOK, FramesOK
      <4> QED
        BY <4>1, <4>2
    <3> QED
      BY <1>0, <2>3, <2>4, <3>2 DEF LockOK, FramesOK
  <2>11. LockOK(u, p, FALSE)
    BY <2>3, <2>9, <2>10 DEF LockOK, StepOK, GreetOK, SentOK
  <2>12. QueueOK(u)
    BY <2>3 DEF QueueOK
  <2>13. /\ \A cmd \in Commands : PlaceOK(u, a, cmd)
         /\ \A cmd \in Commands : \A k \in DOMAIN u.answers[cmd] :
                u.answers[cmd][k] = "none" \/ (k \in DOMAIN s.answers[cmd] /\ u.answers[cmd][k] = s.answers[cmd][k])
    <3> SUFFICES ASSUME NEW cmd \in Commands
                 PROVE  /\ PlaceOK(u, a, cmd)
                        /\ \A k \in DOMAIN u.answers[cmd] :
                             u.answers[cmd][k] = "none" \/ (k \in DOMAIN s.answers[cmd] /\ u.answers[cmd][k] = s.answers[cmd][k])
      OBVIOUS
    <3>1. InTasks(u, cmd) = InTasks(s, cmd)
      BY <1>2, <2>4 DEF InTasks
    <3>2. /\ PlaceOK(s, a, cmd) /\ u.r.cmd_queue = <<>>
          /\ u.answers[cmd] = IF cmd \in Contents(s.r.cmd_queue) THEN Append(s.answers[cmd], "none")
                              ELSE s.answers[cmd]
      BY <2>3
    <3> QED
      BY <1>0, <3>1, <3>2, DrainPlace
  <2>14. AnswersOK(u, p)
    BY <1>0, <2>3, <2>13 DEF AnswersOK
  <2>15. SubsOK(u, a)
    BY <1>0, <2>3 DEF SubsOK
  <2>16. Readers(u) = {}
    <3>1. ASSUME NEW k \in DOMAIN u.tasks, Reads(u.tasks[k], NoIo) PROVE FALSE
      <4>1. u.tasks[k] \in Contents(u.tasks)
        BY DEF Contents
      <4>2. CASE u.tasks[k].fn = "continue"
        <5>1. u.tasks \in Seq(TaskRec)
          BY <2>4, Typed2
        <5>2. Owning(u.tasks) = {}
          BY <2>1, <2>4, <5>1, OwningType
        <5> QED
          BY <4>2, <5>2 DEF Owning, OwningTasks
      <4>3. CASE u.tasks[k].fn = "data" /\ u.tasks[k].arg = NoIo
        <5>1. NoIo \in DOMAIN u.ios
          BY <2>5, <4>1, <4>3 DEF Typed, TaskOK
        <5> QED
          BY <2>4, <5>1, IoType DEF NoIo
      <4> QED
        BY <3>1, <4>2, <4>3 DEF Reads
    <3> QED
      BY <2>3, <3>1 DEF Readers
  <2>17. ReadersOK(u) /\ DyingOK(u) /\ Retries(u)
    BY <2>3, <2>9, <2>16, SingleAdded DEF ReadersOK, DyingOK, Retries
  <2> QED
    BY <2>4, <2>5, <2>6, <2>7, <2>8, <2>11, <2>12, <2>13, <2>14, <2>15, <2>17 DEF Fine, Core, Base, u
<1> QED
  BY <1>5, <1>6
-----------------------------------------------------------------------------
(* Sending what is queued, up to the first command that waits.             *)

Split(q, out, rest) ==
    \/ rest = <<>> /\ out = q /\ \A k \in DOMAIN q : q[k] \in NoWait
    \/ \E k \in DOMAIN q :
          /\ q[k] \notin NoWait /\ \A j \in DOMAIN q : j < k => q[j] \in NoWait
          /\ out = SubSeq(q, 1, k) /\ rest = SubSeq(q, k, Len(q))

LEMMA Cut ==
    ASSUME NEW V, NEW q \in Seq(V), NEW k \in DOMAIN q,
           NEW out, out = SubSeq(q, 1, k), NEW rest, rest = SubSeq(q, k, Len(q))
    PROVE  /\ k \in Nat /\ k >= 1 /\ k <= Len(q) /\ Len(q) \in Nat /\ DOMAIN q = 1 .. Len(q)
           /\ out \in Seq(V) /\ rest \in Seq(V)
           /\ Len(out) = k /\ Len(rest) = Len(q) - k + 1
           /\ DOMAIN out = 1 .. k /\ DOMAIN rest = 1 .. Len(q) - k + 1
           /\ \A j \in 1 .. k : out[j] = q[j]
           /\ \A j \in 1 .. Len(q) - k + 1 : rest[j] = q[k + j - 1]
           /\ \A j \in k .. Len(q) : j - k + 1 \in 1 .. Len(q) - k + 1 /\ rest[j - k + 1] = q[j]
           /\ rest # <<>> /\ Head(rest) = q[k] /\ out # <<>>
<1>1. /\ k \in Nat /\ k >= 1 /\ k <= Len(q) /\ Len(q) \in Nat /\ DOMAIN q = 1 .. Len(q)
      /\ \A j \in 1 .. Len(q) : q[j] \in V
  BY LenProperties, ElementOfSeq
<1>2. /\ out \in Seq(V) /\ Len(out) = k
      /\ \A j \in 1 .. k : out[j] = q[j]
  <2>1. \A j \in 1 .. k : q[j] \in V
    BY <1>1
  <2>2. /\ out \in Seq(V) /\ Len(out) = IF 1 <= k THEN k - 1 + 1 ELSE 0
        /\ \A j \in 1 .. k - 1 + 1 : out[j] = q[1 + j - 1]
    BY <1>1, <2>1, SubSeqProperties
  <2> QED
    BY <1>1, <2>2
<1>3. /\ rest \in Seq(V) /\ Len(rest) = Len(q) - k + 1
      /\ \A j \in 1 .. Len(q) - k + 1 : rest[j] = q[k + j - 1]
  <2>1. \A j \in k .. Len(q) : q[j] \in V
    BY <1>1
  <2>2. /\ rest \in Seq(V) /\ Len(rest) = IF k <= Len(q) THEN Len(q) - k + 1 ELSE 0
        /\ \A j \in 1 .. Len(q) - k + 1 : rest[j] = q[k + j - 1]
    BY <1>1, <2>1, SubSeqProperties
  <2> QED
    BY <1>1, <2>2
<1>4. Head(rest) = q[k]
  <2>1. Len(q) \in k .. Len(q) /\ k \in 1 .. Len(q)
    BY <1>1
  <2> QED
    BY <2>1, HeadTailOfSubSeq
<1>5. DOMAIN out = 1 .. k /\ DOMAIN rest = 1 .. Len(q) - k + 1
  BY <1>2, <1>3, LenProperties
<1>6. out # <<>> /\ rest # <<>>
  BY <1>1, <1>2, <1>3, EmptySeq
<1>7. ASSUME NEW j \in k .. Len(q)
      PROVE  j - k + 1 \in 1 .. Len(q) - k + 1 /\ rest[j - k + 1] = q[j]
  <2> DEFINE i == j - k + 1
  <2>1. i \in 1 .. Len(q) - k + 1 /\ k + i - 1 = j
    BY <1>1
  <2> HIDE DEF i
  <2>2. rest[i] = q[j]
    BY <1>3, <2>1
  <2> QED
    BY <2>1, <2>2 DEF i
<1> QED
  BY <1>1, <1>2, <1>3, <1>4, <1>5, <1>6, <1>7

LEMMA CutType ==
    ASSUME NEW V, NEW q \in Seq(V), NEW k \in DOMAIN q
    PROVE  /\ SubSeq(q, 1, k) \in Seq(V) /\ SubSeq(q, k, Len(q)) \in Seq(V)
           /\ SubSeq(q, k, Len(q)) # <<>>
<1>1. /\ k \in Nat /\ k >= 1 /\ k <= Len(q) /\ Len(q) \in Nat
      /\ \A j \in 1 .. Len(q) : q[j] \in V
  BY LenProperties, ElementOfSeq
<1>2. (\A j \in 1 .. k : q[j] \in V) /\ (\A j \in k .. Len(q) : q[j] \in V)
  BY <1>1
<1>3. SubSeq(q, 1, k) \in Seq(V)
  BY <1>1, <1>2, SubSeqProperties
<1>4. SubSeq(q, k, Len(q)) \in Seq(V) /\ Len(SubSeq(q, k, Len(q))) = Len(q) - k + 1
  BY <1>1, <1>2, SubSeqProperties
<1>5. SubSeq(q, k, Len(q)) # <<>>
  <2>1. Len(q) - k + 1 # 0
    BY <1>1
  <2> QED
    BY <1>4, <2>1, EmptySeq
<1> QED
  BY <1>3, <1>4, <1>5

LEMMA SplitIs ==
    ASSUME NEW q \in Seq(Words), NEW out, NEW rest, Split(q, out, rest)
    PROVE  /\ out \in Seq(Words) /\ rest \in Seq(Words)
           /\ rest = <<>> => \A j \in DOMAIN out : out[j] \in NoWait
           /\ rest # <<>> => /\ Head(rest) \notin NoWait /\ out # <<>> /\ out[Len(out)] = Head(rest)
                             /\ \A j \in DOMAIN out : j # Len(out) => out[j] \in NoWait
           /\ \A w : w \notin NoWait =>
                /\ At(rest, {w}) = {} <=> At(q, {w}) = {}
                /\ Single(At(q, {w})) => Single(At(rest, {w}))
           /\ (\A k \in DOMAIN q : q[k] = "HELLO" => k = 1) =>
                /\ \A k \in DOMAIN rest : rest[k] = "HELLO" => k = 1
                /\ Greets(rest) <=> Greets(q)
                /\ Greets(q) => Len(out) = 1 /\ out[1] = "HELLO"
<1>1. CASE rest = <<>> /\ out = q /\ \A k \in DOMAIN q : q[k] \in NoWait
  <2>1. \A S : At(<<>>, S) = {}
    BY DEF At
  <2>2. \A w : w \notin NoWait => At(q, {w}) = {}
    BY <1>1 DEF At
  <2>3. "HELLO" \notin NoWait
    BY DEF NoWait
  <2>4. ~Greets(q)
    <3>1. q # <<>> => 1 \in DOMAIN q /\ Head(q) = q[1]
      BY LenProperties, EmptySeq, HeadTailProperties
    <3> QED
      BY <1>1, <2>3, <3>1 DEF Greets
  <2>5. <<>> \in Seq(Words) /\ DOMAIN <<>> = {} /\ ~Greets(<<>>) /\ Single({})
    <3>1. DOMAIN <<>> = {}
      OBVIOUS
    <3>2. ~Greets(<<>>) /\ Single({})
      BY DEF Greets, Single
    <3> QED
      BY <3>1, <3>2, EmptySeq
  <2> QED
    BY <1>1, <2>1, <2>2, <2>4, <2>5
<1>2. ASSUME NEW k \in DOMAIN q,
             q[k] \notin NoWait, \A j \in DOMAIN q : j < k => q[j] \in NoWait,
             out = SubSeq(q, 1, k), rest = SubSeq(q, k, Len(q))
      PROVE  /\ out \in Seq(Words) /\ rest \in Seq(Words)
             /\ rest # <<>> /\ Head(rest) \notin NoWait /\ out # <<>> /\ out[Len(out)] = Head(rest)
             /\ \A j \in DOMAIN out : j # Len(out) => out[j] \in NoWait
             /\ \A w : w \notin NoWait =>
                  /\ At(rest, {w}) = {} <=> At(q, {w}) = {}
                  /\ Single(At(q, {w})) => Single(At(rest, {w}))
             /\ (\A m \in DOMAIN q : q[m] = "HELLO" => m = 1) =>
                  /\ \A m \in DOMAIN rest : rest[m] = "HELLO" => m = 1
                  /\ Greets(rest) <=> Greets(q)
                  /\ Greets(q) => Len(out) = 1 /\ out[1] = "HELLO"
  <2>1. /\ k \in Nat /\ k >= 1 /\ k <= Len(q) /\ Len(q) \in Nat /\ DOMAIN q = 1 .. Len(q)
        /\ out \in Seq(Words) /\ rest \in Seq(Words)
        /\ Len(out) = k /\ Len(rest) = Len(q) - k + 1
        /\ DOMAIN out = 1 .. k /\ DOMAIN rest = 1 .. Len(q) - k + 1
        /\ \A j \in 1 .. k : out[j] = q[j]
        /\ \A j \in 1 .. Len(q) - k + 1 : rest[j] = q[k + j - 1]
        /\ rest # <<>> /\ Head(rest) = q[k] /\ out # <<>>
    BY <1>2, Cut
  <2>2. out[Len(out)] = Head(rest) /\ \A j \in DOMAIN out : j # Len(out) => out[j] \in NoWait
    BY <1>2, <2>1
  <2>3. ASSUME NEW w, w \notin NoWait
        PROVE  \A j : j \in At(rest, {w}) <=> j \in Nat /\ k + j - 1 \in At(q, {w}) /\ j >= 1
    BY <1>2, <2>1, <2>3 DEF At
  <2>4. ASSUME NEW w, w \notin NoWait, NEW m \in At(q, {w}) PROVE m \in Nat /\ m >= k
    BY <1>2, <2>1, <2>4 DEF At
  <2>5. ASSUME NEW w, w \notin NoWait PROVE At(rest, {w}) = {} <=> At(q, {w}) = {}
    <3>1. ASSUME NEW m \in At(q, {w}) PROVE At(rest, {w}) # {}
      <4>1. m \in Nat /\ m >= k
        BY <2>4, <2>5
      <4>2. m - k + 1 \in Nat /\ k + (m - k + 1) - 1 = m /\ m - k + 1 >= 1
        BY <2>1, <4>1
      <4>3. m - k + 1 \in At(rest, {w})
        BY <2>3, <2>5, <4>2
      <4> QED
        BY <4>3
    <3>2. ASSUME NEW j \in At(rest, {w}) PROVE At(q, {w}) # {}
      BY <2>3, <2>5
    <3> QED
      BY <3>1, <3>2
  <2>6. ASSUME NEW w, w \notin NoWait, Single(At(q, {w})) PROVE Single(At(rest, {w}))
    <3> SUFFICES ASSUME NEW i \in At(rest, {w}), NEW j \in At(rest, {w}) PROVE i = j
      BY DEF Single
    <3>1. i \in Nat /\ j \in Nat /\ k + i - 1 \in At(q, {w}) /\ k + j - 1 \in At(q, {w})
      BY <2>3, <2>6
    <3>2. k + i - 1 = k + j - 1
      BY <2>6, <3>1 DEF Single
    <3> QED
      BY <2>1, <3>1, <3>2
  <2>7. ASSUME \A m \in DOMAIN q : q[m] = "HELLO" => m = 1
        PROVE  /\ \A m \in DOMAIN rest : rest[m] = "HELLO" => m = 1
               /\ Greets(rest) <=> Greets(q)
               /\ Greets(q) => Len(out) = 1 /\ out[1] = "HELLO"
    <3>1. q # <<>> /\ Head(q) = q[1] /\ 1 \in DOMAIN q
      BY <2>1, HeadTailProperties, EmptySeq
    <3>2. Greets(q) <=> q[1] = "HELLO"
      BY <3>1 DEF Greets
    <3>3. Greets(rest) <=> q[k] = "HELLO"
      BY <2>1 DEF Greets
    <3>4. q[1] = "HELLO" => k = 1
      <4>1. "HELLO" \notin NoWait
        BY DEF NoWait
      <4>2. k # 1 => 1 < k
        BY <2>1
      <4> QED
        BY <1>2, <3>1, <4>1, <4>2
    <3>5. ASSUME NEW m \in DOMAIN rest, rest[m] = "HELLO" PROVE m = 1
      <4>1. q[k + m - 1] = "HELLO" /\ k + m - 1 \in DOMAIN q /\ m \in Nat /\ m >= 1
        BY <2>1, <3>5
      <4> QED
        BY <2>1, <2>7, <4>1
    <3> QED
      BY <2>1, <2>7, <3>2, <3>3, <3>4, <3>5
  <2> QED
    BY <1>2, <2>1, <2>2, <2>5, <2>6, <2>7
<1> QED
  BY <1>1, <1>2 DEF Split

LEMMA SplitOut ==
    ASSUME NEW q \in Seq(Words), NEW out, NEW rest, Split(q, out, rest)
    PROVE  /\ \A j \in DOMAIN out : j \in DOMAIN q /\ q[j] = out[j]
           /\ Silent(rest) => \A j \in DOMAIN q : q[j] \in NoWait => j \in DOMAIN out
<1>1. CASE out = q
  BY <1>1
<1>2. ASSUME NEW k \in DOMAIN q, out = SubSeq(q, 1, k), rest = SubSeq(q, k, Len(q))
      PROVE  /\ \A j \in DOMAIN out : j \in DOMAIN q /\ q[j] = out[j]
             /\ Silent(rest) => \A j \in DOMAIN q : q[j] \in NoWait => j \in DOMAIN out
  <2>1. /\ k \in Nat /\ k >= 1 /\ k <= Len(q) /\ Len(q) \in Nat /\ DOMAIN q = 1 .. Len(q)
        /\ DOMAIN out = 1 .. k /\ DOMAIN rest = 1 .. Len(q) - k + 1
        /\ \A j \in 1 .. k : out[j] = q[j]
        /\ \A j \in k .. Len(q) : j - k + 1 \in 1 .. Len(q) - k + 1 /\ rest[j - k + 1] = q[j]
    BY <1>2, Cut, SMTT(60)
  <2>2. ASSUME Silent(rest), NEW j \in DOMAIN q, q[j] \in NoWait PROVE j \in DOMAIN out
    <3>1. j > k => j \in k .. Len(q)
      BY <2>1
    <3>2. ~ (j > k)
      BY <2>1, <2>2, <3>1 DEF Silent
    <3> QED
      BY <2>1, <3>2
  <2> QED
    BY <2>1, <2>2
<1> QED
  BY <1>1, <1>2 DEF Split

(* The last that the server will hear of the channel.                      *)
LEMMA SplitSubs ==
    ASSUME NEW q \in Seq(Words), NEW out, NEW rest, Split(q, out, rest), NEW b, LastIs(q, b)
    PROVE  /\ LastIs(rest, b)
           /\ \A up \in Seq(Words) :
                Silent(rest) =>
                  /\ (Silent(q) => LastIs(up, b)) => LastIs(up \o out, b)
                  /\ Silent(up \o out) => Silent(q) /\ Silent(up)
<1>0. out \in Seq(Words) /\ rest \in Seq(Words) /\ Len(q) \in Nat /\ DOMAIN q = 1 .. Len(q)
  BY SplitIs, LenProperties
<1>1. LastIs(rest, b)
  <2>1. CASE rest = <<>>
    BY <2>1 DEF LastIs
  <2>2. ASSUME NEW k \in DOMAIN q, out = SubSeq(q, 1, k), rest = SubSeq(q, k, Len(q)) PROVE LastIs(rest, b)
    <3>1. /\ k \in Nat /\ k >= 1 /\ k <= Len(q)
          /\ DOMAIN rest = 1 .. Len(q) - k + 1
          /\ \A j \in 1 .. Len(q) - k + 1 : rest[j] = q[k + j - 1]
          /\ \A j \in k .. Len(q) : j - k + 1 \in 1 .. Len(q) - k + 1 /\ rest[j - k + 1] = q[j]
      BY ONLY <1>0, <2>2, q \in Seq(Words), Cut
    <3> SUFFICES ASSUME NEW m \in DOMAIN rest, rest[m] \in NoWait,
                        \A j \in DOMAIN rest : j > m => rest[j] \notin NoWait
                 PROVE  (rest[m] = "SUBSCRIBE") = b
      BY DEF LastIs
    <3>2. k + m - 1 \in DOMAIN q /\ q[k + m - 1] = rest[m] /\ m \in Nat
      BY <1>0, <3>1
    <3>3. ASSUME NEW j \in DOMAIN q, j > k + m - 1 PROVE q[j] \notin NoWait
      <4>1. j \in k .. Len(q) /\ j - k + 1 > m
        BY <1>0, <3>1, <3>2, <3>3
      <4>2. j - k + 1 \in DOMAIN rest /\ rest[j - k + 1] = q[j]
        BY <3>1, <4>1
      <4> QED
        BY <4>1, <4>2
    <3> QED
      BY <3>2, <3>3 DEF LastIs
  <2> QED
    BY <2>1, <2>2 DEF Split
<1>2. ASSUME NEW up \in Seq(Words), Silent(rest)
      PROVE  /\ (Silent(q) => LastIs(up, b)) => LastIs(up \o out, b)
             /\ Silent(up \o out) => Silent(q) /\ Silent(up)
  <2> DEFINE all == up \o out
  <2>1. /\ Len(up) \in Nat /\ Len(out) \in Nat /\ DOMAIN up = 1 .. Len(up) /\ DOMAIN out = 1 .. Len(out)
        /\ DOMAIN all = 1 .. Len(up) + Len(out)
        /\ \A j \in 1 .. Len(up) : all[j] = up[j]
        /\ \A j \in Len(up) + 1 .. Len(up) + Len(out) : all[j] = out[j - Len(up)]
    BY <1>0, ConcatProperties, LenProperties
  <2> HIDE DEF all
  <2>2. /\ \A j \in DOMAIN out : j \in DOMAIN q /\ q[j] = out[j]
        /\ \A j \in DOMAIN q : q[j] \in NoWait => j \in DOMAIN out
    BY <1>2, SplitOut
  <2>3. ASSUME Silent(all) PROVE Silent(q) /\ Silent(up)
    <3>1. ASSUME NEW j \in DOMAIN up PROVE up[j] \notin NoWait
      <4>1. j \in DOMAIN all /\ all[j] = up[j]
        BY <2>1
      <4> QED
        BY <2>3, <4>1 DEF Silent
    <3>2. ASSUME NEW j \in DOMAIN q, q[j] \in NoWait PROVE FALSE
      <4>1. j \in DOMAIN out /\ q[j] = out[j]
        BY <2>2, <3>2
      <4>2. Len(up) + j \in DOMAIN all /\ all[Len(up) + j] = out[j]
        <5>1. j \in Nat /\ Len(up) + j \in Len(up) + 1 .. Len(up) + Len(out) /\ Len(up) + j - Len(up) = j
          BY <2>1, <4>1
        <5> QED
          BY <2>1, <5>1
      <4> QED
        BY <2>3, <3>2, <4>1, <4>2 DEF Silent
    <3> QED
      BY <3>1, <3>2 DEF Silent
  <2>4. ASSUME Silent(q) => LastIs(up, b) PROVE LastIs(all, b)
    <3> SUFFICES ASSUME NEW m \in DOMAIN all, all[m] \in NoWait,
                        \A j \in DOMAIN all : j > m => all[j] \notin NoWait
                 PROVE  (all[m] = "SUBSCRIBE") = b
      BY DEF LastIs
    <3>1. CASE m <= Len(up)
      <4>1. Silent(q)
        <5>1. ASSUME NEW j \in DOMAIN q, q[j] \in NoWait PROVE FALSE
          <6>1. j \in DOMAIN out /\ q[j] = out[j]
            BY <2>2, <5>1
          <6>2. Len(up) + j \in DOMAIN all /\ all[Len(up) + j] = out[j] /\ Len(up) + j > m
            BY <2>1, <3>1, <6>1
          <6> QED
            BY <5>1, <6>1, <6>2
        <5> QED
          BY <5>1 DEF Silent
      <4>2. m \in DOMAIN up /\ up[m] = all[m] /\ \A j \in DOMAIN up : j \in DOMAIN all /\ up[j] = all[j]
        BY <2>1, <3>1
      <4>3. \A j \in DOMAIN up : j > m => up[j] \notin NoWait
        BY <4>2
      <4> QED
        BY <2>4, <4>1, <4>2, <4>3 DEF LastIs
    <3>2. CASE m > Len(up)
      <4>1. m - Len(up) \in DOMAIN out /\ out[m - Len(up)] = all[m]
        BY <2>1, <3>2
      <4>2. m - Len(up) \in DOMAIN q /\ q[m - Len(up)] = all[m]
        BY <2>2, <4>1
      <4>3. ASSUME NEW j \in DOMAIN q, j > m - Len(up), q[j] \in NoWait PROVE FALSE
        <5>1. j \in DOMAIN out /\ q[j] = out[j]
          BY <2>2, <4>3
        <5>2. Len(up) + j \in DOMAIN all /\ all[Len(up) + j] = out[j] /\ Len(up) + j > m
          BY <2>1, <4>3, <5>1
        <5> QED
          BY <4>3, <5>1, <5>2
      <4> QED
        BY <4>2, <4>3 DEF LastIs
    <3> QED
      BY <2>1, <3>1, <3>2
  <2> QED
    BY <2>3, <2>4 DEF all
<1> QED
  BY <1>1, <1>2
LEMMA WriteIs ==
    ASSUME NEW s \in EngineRec, NEW i \in DOMAIN s.ios, NEW words \in Seq(Words)
    PROVE  LET u == Write(s, i, words)
           IN  /\ u \in EngineRec /\ u.r = s.r /\ u.tasks = s.tasks
               /\ u.timers = s.timers /\ u.answers = s.answers
               /\ DOMAIN u.ios = DOMAIN s.ios
               /\ \A j \in DOMAIN s.ios : j # i => u.ios[j] = s.ios[j]
               /\ u.ios[i].closed = s.ios[i].closed
               /\ u.ios[i].up = IF s.ios[i].closed THEN s.ios[i].up ELSE s.ios[i].up \o words
               /\ u.ios[i].down = s.ios[i].down
               /\ u.ios[i].st = s.ios[i].st /\ u.ios[i].owned = s.ios[i].owned
               /\ u.ios[i].proto = s.ios[i].proto /\ u.ios[i].subs = s.ios[i].subs
<1> DEFINE up == s.ios[i].up \o words
           x == [s.ios[i] EXCEPT !.up = up]
<1>1. CASE s.ios[i].closed
  BY <1>1 DEF Write
<1>2. CASE ~s.ios[i].closed
  <2>1. s.ios[i] \in IoRec /\ s.ios \in Seq(IoRec) /\ DOMAIN s.ios = 1 .. Len(s.ios)
    BY IoType, Typed2, LenProperties
  <2>2. up \in Seq(Words)
    BY IoType, ConcatProperties
  <2>3. Write(s, i, words) = [s EXCEPT !.ios[i] = x]
    BY <1>2, <2>1 DEF Write, EngineRec, IoRec
  <2> HIDE DEF up
  <2>4. /\ x \in IoRec /\ x.closed = s.ios[i].closed /\ x.up = up /\ x.down = s.ios[i].down
        /\ x.st = s.ios[i].st
        /\ x.owned = s.ios[i].owned /\ x.proto = s.ios[i].proto /\ x.subs = s.ios[i].subs
    BY <2>1, <2>2 DEF IoRec
  <2> HIDE DEF x
  <2> DEFINE w == [s EXCEPT !.ios[i] = x]
  <2>5. /\ w \in EngineRec /\ w.r = s.r /\ w.tasks = s.tasks
        /\ w.timers = s.timers /\ w.answers = s.answers
        /\ DOMAIN w.ios = DOMAIN s.ios /\ w.ios[i] = x
        /\ \A j \in DOMAIN s.ios : j # i => w.ios[j] = s.ios[j]
    BY <2>4, SetIo
  <2> HIDE DEF w
  <2> QED
    BY ONLY <1>2, <2>3, <2>4, <2>5 DEF w, up
<1> QED
  BY <1>1, <1>2

Requeued(s, q) == [s EXCEPT !.r.cmd_queue = q, !.r.pub_sent = (q # <<>>)]

LEMMA RequeuedIs ==
    ASSUME NEW s \in EngineRec, NEW q \in Seq(Words)
    PROVE  LET u == Requeued(s, q)
           IN  /\ u \in EngineRec /\ u.r.refs = s.r.refs
               /\ u.r.running = s.r.running /\ u.r.attached = s.r.attached
               /\ u.r.pub_sent = (q # <<>>) /\ u.r.io = s.r.io /\ u.r.ready = s.r.ready
               /\ u.r.cmd_queue = q /\ u.r.buf = s.r.buf
               /\ u.ios = s.ios /\ u.timers = s.timers /\ u.answers = s.answers
               /\ u.tasks = s.tasks
<1> DEFINE x == [s.r EXCEPT !.cmd_queue = q, !.pub_sent = (q # <<>>)]
           u == Requeued(s, q)
<1>1. /\ x \in RRec /\ x.refs = s.r.refs
      /\ x.running = s.r.running /\ x.attached = s.r.attached
      /\ x.pub_sent = (q # <<>>) /\ x.io = s.r.io /\ x.ready = s.r.ready
      /\ x.cmd_queue = q /\ x.buf = s.r.buf
  <2>1. s.r \in RRec /\ (q # <<>>) \in BOOLEAN
    BY DEF EngineRec, RRec
  <2> QED
    BY <2>1 DEF RRec
<1>2. u = [s EXCEPT !.r = x]
  BY DEF EngineRec, Requeued
<1> HIDE DEF x, u
<1>3. /\ u \in EngineRec /\ u.r = x /\ u.ios = s.ios /\ u.tasks = s.tasks
      /\ u.timers = s.timers /\ u.answers = s.answers
  BY <1>1, <1>2, SetR
<1> QED
  BY <1>1, <1>3 DEF u

LEMMA SendSplit ==
    ASSUME NEW s \in EngineRec, s.r.io # NoIo, s.r.ready, ~s.r.pub_sent
    PROVE  \E out, rest \in Seq(Words) :
             /\ Split(s.r.cmd_queue, out, rest)
             /\ SendNextCmd(s) =
                  Write(Requeued(s, rest), s.r.io, out)
<1> DEFINE q == s.r.cmd_queue
           waits == {k \in 1..Len(q) : ShouldWait(q[k])}
           k == IF waits = {} THEN Len(q) + 1 ELSE CHOOSE m \in waits : \A n \in waits : m <= n
           rest == SubSeq(q, k, Len(q))
           out == SubSeq(q, 1, IF waits = {} THEN k - 1 ELSE k)
<1>1. (waits # {}) = (rest # <<>>) => SendNextCmd(s) = Write(Requeued(s, rest), s.r.io, out)
  <2>1. SendNextCmd(s) = Write([s EXCEPT !.r.cmd_queue = rest, !.r.pub_sent = (waits # {})], s.r.io, out)
    BY DEF SendNextCmd
  <2>2. SUFFICES ASSUME (waits # {}) = (rest # <<>>)
                 PROVE  SendNextCmd(s) = Write(Requeued(s, rest), s.r.io, out)
    OBVIOUS
  <2> HIDE DEF rest, out, waits
  <2>3. [s EXCEPT !.r.cmd_queue = rest, !.r.pub_sent = (waits # {})] = Requeued(s, rest)
    BY <2>2 DEF Requeued
  <2> QED
    BY <2>1, <2>3
<1>2. q \in Seq(Words) /\ Len(q) \in Nat /\ DOMAIN q = 1 .. Len(q)
  BY Typed2, LenProperties
<1>3. CASE waits = {}
  <2>1. k = Len(q) + 1 /\ Len(q) + 1 - 1 = Len(q)
    BY <1>2, <1>3
  <2>2. rest = <<>> /\ out = q
    <3>1. SubSeq(q, Len(q) + 1, Len(q)) = <<>>
      <4>1. Len(q) \in Int /\ Len(q) + 1 \in Int /\ Len(q) < Len(q) + 1
        BY <1>2
      <4> QED
        BY <4>1, SubSeqEmpty
    <3>2. SubSeq(q, 1, Len(q)) = q
      BY <1>2, SubSeqFull
    <3> QED
      BY <1>3, <2>1, <3>1, <3>2
  <2>3. \A j \in DOMAIN q : q[j] \in NoWait
    BY <1>2, <1>3 DEF ShouldWait
  <2> HIDE DEF rest, out, q
  <2>4. Split(q, out, rest) /\ out \in Seq(Words) /\ rest \in Seq(Words)
    BY <1>2, <2>2, <2>3, EmptySeq DEF Split
  <2> QED
    BY <1>1, <1>3, <2>2, <2>4 DEF q
<1>4. CASE waits # {}
  <2>1. waits \in SUBSET Nat
    BY <1>2
  <2>2. \E m \in waits : \A n \in waits : m <= n
    <3> HIDE DEF waits
    <3> QED
      BY <1>4, <2>1, Least
  <2>3. k \in waits /\ \A n \in waits : k <= n
    <3> HIDE DEF waits
    <3> QED
      BY <1>4, <2>2
  <2>4. out = SubSeq(q, 1, k)
    BY <1>4
  <2>5. k \in DOMAIN q /\ q[k] \notin NoWait /\ k \in Nat
    <3>1. k \in waits
      BY <2>3
    <3> HIDE DEF k
    <3>2. k \in 1 .. Len(q) /\ ShouldWait(q[k])
      BY <3>1
    <3> QED
      BY <1>2, <3>2 DEF ShouldWait
  <2>6. ASSUME NEW j \in DOMAIN q, j < k PROVE q[j] \in NoWait
    <3>1. j \notin waits
      <4> HIDE DEF waits, k
      <4> QED
        BY <1>2, <2>3, <2>5, <2>6
    <3> QED
      BY <1>2, <3>1 DEF ShouldWait
  <2> HIDE DEF k, out, q
  <2>7. Split(q, out, rest)
    BY <2>4, <2>5, <2>6 DEF Split
  <2>8. out \in Seq(Words) /\ rest \in Seq(Words) /\ rest # <<>>
    <3> HIDE DEF rest
    <3>1. rest = SubSeq(q, k, Len(q))
      BY DEF rest
    <3>2. q \in Seq(Words) /\ k \in DOMAIN q
      BY <1>2, <2>5
    <3> QED
      BY ONLY <2>4, <3>1, <3>2, CutType
  <2> HIDE DEF rest
  <2> QED
    BY <1>1, <1>4, <2>7, <2>8 DEF q
<1> QED
  BY <1>3, <1>4

LEMMA SendIs ==
    ASSUME NEW s \in EngineRec, s.r.io \in DOMAIN s.ios, s.r.io # NoIo, s.r.ready, ~s.r.pub_sent
    PROVE  \E out, rest \in Seq(Words) :
             LET u == SendNextCmd(s)
                 i == s.r.io
             IN  /\ Split(s.r.cmd_queue, out, rest)
                 /\ u \in EngineRec /\ u.r.refs = s.r.refs
                 /\ u.r.running = s.r.running /\ u.r.attached = s.r.attached
                 /\ u.r.pub_sent = (rest # <<>>) /\ u.r.io = i /\ u.r.ready = s.r.ready
                 /\ u.r.cmd_queue = rest /\ u.r.buf = s.r.buf
                 /\ u.timers = s.timers /\ u.answers = s.answers /\ u.tasks = s.tasks
                 /\ DOMAIN u.ios = DOMAIN s.ios
                 /\ \A j \in DOMAIN s.ios : j # i => u.ios[j] = s.ios[j]
                 /\ u.ios[i].closed = s.ios[i].closed
                 /\ u.ios[i].up = IF s.ios[i].closed THEN s.ios[i].up ELSE s.ios[i].up \o out
                 /\ u.ios[i].down = s.ios[i].down
                 /\ u.ios[i].st = s.ios[i].st /\ u.ios[i].owned = s.ios[i].owned
                 /\ u.ios[i].proto = s.ios[i].proto /\ u.ios[i].subs = s.ios[i].subs
<1>1. PICK out \in Seq(Words), rest \in Seq(Words) :
        /\ Split(s.r.cmd_queue, out, rest)
        /\ SendNextCmd(s) =
             Write(Requeued(s, rest), s.r.io, out)
  BY SendSplit
<1> DEFINE v == Requeued(s, rest)
           i == s.r.io
           u == Write(v, i, out)
<1>3. /\ v \in EngineRec /\ v.r.refs = s.r.refs
      /\ v.r.running = s.r.running /\ v.r.attached = s.r.attached
      /\ v.r.pub_sent = (rest # <<>>) /\ v.r.io = s.r.io /\ v.r.ready = s.r.ready
      /\ v.r.cmd_queue = rest /\ v.r.buf = s.r.buf
      /\ v.ios = s.ios /\ v.timers = s.timers /\ v.answers = s.answers
      /\ v.tasks = s.tasks
  BY RequeuedIs
<1> HIDE DEF v
<1>4. i \in DOMAIN v.ios
  BY <1>3
<1> HIDE DEF i
<1>5. /\ u \in EngineRec /\ u.r = v.r /\ u.tasks = v.tasks
      /\ u.timers = v.timers /\ u.answers = v.answers
      /\ DOMAIN u.ios = DOMAIN v.ios
      /\ \A j \in DOMAIN v.ios : j # i => u.ios[j] = v.ios[j]
      /\ u.ios[i].closed = v.ios[i].closed
      /\ u.ios[i].up = IF v.ios[i].closed THEN v.ios[i].up ELSE v.ios[i].up \o out
      /\ u.ios[i].down = v.ios[i].down
      /\ u.ios[i].st = v.ios[i].st /\ u.ios[i].owned = v.ios[i].owned
      /\ u.ios[i].proto = v.ios[i].proto /\ u.ios[i].subs = v.ios[i].subs
  BY <1>3, <1>4, WriteIs
<1>6. SendNextCmd(s) = u
  BY <1>1 DEF v, i
<1> HIDE DEF u
<1>7. /\ u \in EngineRec /\ u.r.refs = s.r.refs
      /\ u.r.running = s.r.running /\ u.r.attached = s.r.attached
      /\ u.r.pub_sent = (rest # <<>>) /\ u.r.io = i /\ u.r.ready = s.r.ready
      /\ u.r.cmd_queue = rest /\ u.r.buf = s.r.buf
      /\ u.timers = s.timers /\ u.answers = s.answers /\ u.tasks = s.tasks
      /\ DOMAIN u.ios = DOMAIN s.ios
      /\ \A j \in DOMAIN s.ios : j # i => u.ios[j] = s.ios[j]
      /\ u.ios[i].closed = s.ios[i].closed
      /\ u.ios[i].up = IF s.ios[i].closed THEN s.ios[i].up ELSE s.ios[i].up \o out
      /\ u.ios[i].down = s.ios[i].down
      /\ u.ios[i].st = s.ios[i].st /\ u.ios[i].owned = s.ios[i].owned
      /\ u.ios[i].proto = s.ios[i].proto /\ u.ios[i].subs = s.ios[i].subs
  BY <1>3, <1>5 DEF i
<1> QED
  BY Zenon, <1>1, <1>6, <1>7 DEF i
LEMMA NoneThen ==
    ASSUME NEW way \in Seq(Frames), NoneComes(way), NEW q \in Seq(Words), NEW out, NEW rest, Split(q, out, rest)
    PROVE  InStep(way \o out, rest, rest # <<>>)
<1>1. out \in Seq(Words) /\ rest \in Seq(Words) /\ out \in Seq(Frames)
  BY SplitIs, WordsInFrames
<1>2. /\ rest = <<>> => \A j \in DOMAIN out : out[j] \in NoWait
      /\ rest # <<>> => /\ Head(rest) \notin NoWait /\ out # <<>> /\ out[Len(out)] = Head(rest)
                        /\ \A j \in DOMAIN out : j # Len(out) => out[j] \in NoWait
  BY SplitIs
<1>3. Len(way) \in Nat /\ Len(out) \in Nat /\ DOMAIN out = 1 .. Len(out)
  BY <1>1, LenProperties
<1>4. ASSUME NEW k \in Nat, Comes(way \o out, k)
      PROVE  rest # <<>> /\ k = Len(way) + Len(out) /\ (way \o out)[k] = Head(rest)
  <2>1. k \in 1 .. Len(way) + Len(out) /\ (k <= Len(way) => Comes(way, k))
    BY <1>1, <1>4, ComesJoin
  <2>2. k > Len(way)
    BY <1>3, <2>1 DEF NoneComes
  <2>3. (way \o out)[k] = out[k - Len(way)] /\ k - Len(way) \in DOMAIN out
    BY <1>1, <1>3, <2>1, <2>2, ConcatProperties
  <2>4. out[k - Len(way)] \notin NoWait
    BY <1>4, <2>3 DEF Comes, Waited
  <2>5. rest # <<>> /\ k - Len(way) = Len(out)
    BY <1>2, <2>3, <2>4
  <2> QED
    BY <1>2, <1>3, <2>3, <2>5
<1>5. ASSUME NEW k \in Nat, Comes(way \o out, k)
      PROVE  rest # <<>> /\ Replies((way \o out)[k], rest) /\ \A j \in Nat : Comes(way \o out, j) => j = k
  BY <1>4, <1>5 DEF Replies
<1> QED
  BY <1>5 DEF InStep

(* What the engine may not have on the wire when it sends.                 *)
Sendable(v, parsing) ==
    /\ v.r.io # NoIo /\ v.r.ready = TRUE /\ v.r.pub_sent = FALSE
    /\ \A k \in DOMAIN v.r.cmd_queue : v.r.cmd_queue[k] = "HELLO" => k = 1
    /\ (parsing \/ Live(v) \/ Continues(v)) /\ ~Dying(v) => NoneComes(Way(v))
    /\ Live(v) =>
         /\ Greets(v.r.cmd_queue) => Way(v) = <<>> /\ v.ios[v.r.io].proto = "none"
         /\ v.ios[v.r.io].proto = "none" => Greets(v.r.cmd_queue)

(* What sending does not depend on.                                        *)
Steady(v, a, p, n) ==
    /\ Typed(v, p) /\ Counted(v, n) /\ Connected(v) /\ FramesOK(v, p)
    /\ AnswersOK(v, p) /\ SubsOK(v, a)

LEMMA GreetedJoin ==
    ASSUME NEW x \in Seq(Words), NEW y \in Seq(Words), Greeted(x), Greeted(y)
    PROVE  Greeted(x \o y)
<1>1. /\ Len(x) \in Nat /\ Len(y) \in Nat /\ DOMAIN x = 1 .. Len(x) /\ DOMAIN y = 1 .. Len(y)
      /\ DOMAIN (x \o y) = 1 .. Len(x) + Len(y)
      /\ \A k \in 1 .. Len(x) : (x \o y)[k] = x[k]
      /\ \A k \in Len(x) + 1 .. Len(x) + Len(y) : (x \o y)[k] = y[k - Len(x)]
  OBVIOUS
<1>2. ASSUME NEW k \in DOMAIN (x \o y) PROVE (x \o y)[k] # "HELLO"
  <2>1. CASE k <= Len(x)
    <3>1. k \in 1 .. Len(x)
      BY <1>1, <1>2, <2>1
    <3> QED
      BY <1>1, <3>1 DEF Greeted
  <2>2. CASE ~(k <= Len(x))
    <3>1. k \in Len(x) + 1 .. Len(x) + Len(y) /\ k - Len(x) \in 1 .. Len(y)
      BY <1>1, <1>2, <2>2
    <3> QED
      BY <1>1, <3>1 DEF Greeted
  <2> QED
    BY <2>1, <2>2
<1> QED
  BY <1>2 DEF Greeted

LEMMA SplitGreeted ==
    ASSUME NEW q \in Seq(Words), NEW out, NEW rest, Split(q, out, rest), ~Greets(rest)
    PROVE  Greeted(out)
<1>1. /\ rest = <<>> => \A j \in DOMAIN out : out[j] \in NoWait
      /\ rest # <<>> => /\ out[Len(out)] = Head(rest)
                        /\ \A j \in DOMAIN out : j # Len(out) => out[j] \in NoWait
  BY SplitIs
<1>2. "HELLO" \notin NoWait
  BY DEF NoWait
<1> QED
  BY <1>1, <1>2 DEF Greeted, Greets

LEMMA SendCore ==
    ASSUME NEW v, NEW a, NEW p, NEW n \in Nat, NEW parsing \in BOOLEAN,
           Steady(v, a, p, n), AllTold(v), Sendable(v, parsing)
    PROVE  Core(SendNextCmd(v), a, p, n, parsing)
<1> DEFINE u == SendNextCmd(v)
           i == v.r.io
           q == v.r.cmd_queue
<1>1. v \in EngineRec /\ i # NoIo /\ v.r.ready = TRUE /\ v.r.pub_sent = FALSE /\ i \in DOMAIN v.ios
  BY DEF Steady, Typed, Connected, Sendable
<1>2. PICK out \in Seq(Words), rest \in Seq(Words) :
        /\ Split(q, out, rest)
        /\ u \in EngineRec /\ u.r.refs = v.r.refs
        /\ u.r.running = v.r.running /\ u.r.attached = v.r.attached
        /\ u.r.pub_sent = (rest # <<>>) /\ u.r.io = i /\ u.r.ready = v.r.ready
        /\ u.r.cmd_queue = rest /\ u.r.buf = v.r.buf
        /\ u.timers = v.timers /\ u.answers = v.answers /\ u.tasks = v.tasks
        /\ DOMAIN u.ios = DOMAIN v.ios
        /\ \A j \in DOMAIN v.ios : j # i => u.ios[j] = v.ios[j]
        /\ u.ios[i].closed = v.ios[i].closed
        /\ u.ios[i].up = IF v.ios[i].closed THEN v.ios[i].up ELSE v.ios[i].up \o out
        /\ u.ios[i].down = v.ios[i].down
        /\ u.ios[i].st = v.ios[i].st /\ u.ios[i].owned = v.ios[i].owned
        /\ u.ios[i].proto = v.ios[i].proto /\ u.ios[i].subs = v.ios[i].subs
  <2> HIDE DEF u
  <2>1. v \in EngineRec /\ v.r.io \in DOMAIN v.ios /\ v.r.io # NoIo /\ v.r.ready /\ ~v.r.pub_sent
    BY <1>1
  <2> QED
    BY ONLY <2>1, SendIs DEF u, q, i
<1> HIDE DEF u
<1>3. q \in Seq(Words) /\ Split(q, out, rest)
  BY <1>1, <1>2, Typed2
<1>4. /\ \A k \in DOMAIN rest : rest[k] = "HELLO" => k = 1
      /\ Greets(rest) <=> Greets(q)
      /\ Greets(q) => Len(out) = 1 /\ out[1] = "HELLO"
      /\ rest # <<>> => Head(rest) \notin NoWait /\ out # <<>> /\ out[Len(out)] = Head(rest)
  <2>1. \A k \in DOMAIN q : q[k] = "HELLO" => k = 1
    BY DEF Sendable
  <2> QED
    BY <1>3, <2>1, SplitIs
<1>5. Live(u) = Live(v) /\ Dying(u) = Dying(v) /\ Continues(u) = Continues(v) /\ Live(v) = ~v.ios[i].closed
  BY <1>1, <1>2, <1>4 DEF Live, Dying, Continues
<1>6. IF v.ios[i].closed THEN Way(u) = Way(v) ELSE Way(u) = Way(v) \o out
  <2>1. CASE v.ios[i].closed
    BY Zenon, <1>2, <2>1 DEF Way, Stream
  <2>2. CASE ~v.ios[i].closed
    <3>1. Way(u) = (v.r.buf \o v.ios[i].down) \o (v.ios[i].up \o out)
      BY Zenon, <1>2, <2>2 DEF Way, Stream
    <3>2. v.r.buf \in Seq(Frames) /\ v.ios[i].down \in Seq(Frames) /\ v.ios[i].up \in Seq(Frames) /\ out \in Seq(Frames)
      BY Zenon, <1>1, <1>2, WayType, WordsInFrames
    <3>3. v.r.buf \o v.ios[i].down \in Seq(Frames)
      BY <3>2, ConcatProperties
    <3>4. Way(u) = ((v.r.buf \o v.ios[i].down) \o v.ios[i].up) \o out
      <4> DEFINE x == v.r.buf \o v.ios[i].down
                 y == v.ios[i].up
      <4>1. (x \o y) \o out = x \o (y \o out)
        <5>1. x \in Seq(Frames) /\ y \in Seq(Frames) /\ out \in Seq(Frames)
          BY <3>2, <3>3
        <5> HIDE DEF x, y
        <5> QED
          BY ONLY <5>1, ConcatAssociative
      <4> QED
        BY Zenon, <3>1, <4>1
    <3> QED
      BY Zenon, <2>2, <3>4 DEF Way, Stream
  <2> QED
    BY <2>1, <2>2
<1>7. Way(v) \in Seq(Frames) /\ out \in Seq(Frames) /\ Way(u) \in Seq(Frames)
  <2>1. Way(v) \in Seq(Frames) /\ out \in Seq(Frames)
    BY Zenon, <1>1, <1>2, WayType, WordsInFrames DEF Way
  <2> QED
    BY <1>6, <2>1, ConcatProperties
<1>8. StepOK(u, parsing)
  <2> SUFFICES ASSUME parsing \/ Live(v) \/ Continues(v), ~Dying(v)
               PROVE  InStep(Way(u), rest, rest # <<>>)
    BY <1>2, <1>5 DEF StepOK
  <2>1. NoneComes(Way(v))
    BY DEF Sendable
  <2>2. CASE v.ios[i].closed
    BY <1>6, <2>1, <2>2, NoneInStep
  <2>3. CASE ~v.ios[i].closed
    <3>1. InStep(Way(v) \o out, rest, rest # <<>>)
      BY ONLY <1>3, <1>7, <2>1, NoneThen
    <3> QED
      BY Zenon, <1>6, <2>3, <3>1
  <2> QED
    BY <2>2, <2>3
<1>9. GreetOK(u)
  <2> SUFFICES ASSUME Live(v)
               PROVE  /\ Greets(q) => /\ Len(Way(u)) = 1
                                      /\ Way(u)[1] = "HELLO"
                                      /\ u.ios[i].proto = "none"
                                      /\ u.ios[i].up = <<"HELLO">>
                      /\ u.ios[i].proto = "none" => Greets(q)
    BY Zenon, <1>2, <1>4, <1>5 DEF GreetOK
  <2>1. /\ Greets(q) => Way(v) = <<>> /\ v.ios[i].proto = "none"
        /\ v.ios[i].proto = "none" => Greets(q)
    BY DEF Sendable
  <2>2. ASSUME Greets(q)
        PROVE  Way(u) = <<"HELLO">> /\ u.ios[i].up = <<"HELLO">>
    <3>1. Len(out) = 1 /\ out[1] = "HELLO" /\ out = <<"HELLO">>
      <4>1. out \in Seq(Words) /\ Len(out) = 1 /\ out[1] = "HELLO"
        BY <1>2, <1>4, <2>2
      <4>2. <<"HELLO">> \in Seq(Words) /\ Len(<<"HELLO">>) = 1 /\ <<"HELLO">>[1] = "HELLO"
        BY DEF Words
      <4> QED
        BY <4>1, <4>2, SeqEqual
    <3>2. Way(v) = <<>>
      BY <2>1, <2>2
    <3>3. v.ios[i].up = <<>>
      <4>1. v.r.buf \in Seq(Frames) /\ v.ios[i].down \in Seq(Frames) /\ v.ios[i].up \in Seq(Frames)
        BY <1>1, WayType
      <4>2. (v.r.buf \o v.ios[i].down) \in Seq(Frames)
        BY <4>1, ConcatProperties
      <4>3. (v.r.buf \o v.ios[i].down) \o v.ios[i].up = <<>>
        BY <3>2 DEF Way, Stream
      <4> QED
        BY <4>1, <4>2, <4>3, ConcatEqualIffEmpty
    <3>4. Way(u) = <<>> \o out /\ u.ios[i].up = <<>> \o out
      BY <1>2, <1>5, <1>6, <3>2, <3>3
    <3> QED
      BY <1>7, <3>1, <3>4, ConcatEmptySeq
  <2>3. Len(<<"HELLO">>) = 1 /\ <<"HELLO">>[1] = "HELLO"
    OBVIOUS
  <2> QED
    BY Zenon, <1>2, <2>1, <2>2, <2>3
<1>10. SentOK(u)
  <2> SUFFICES ASSUME Live(v), rest # <<>>
               PROVE  \E k \in DOMAIN Way(u) : Waited(Way(u)[k])
    BY <1>2, <1>5 DEF SentOK
  <2>1. Len(Way(v)) \in Nat /\ Len(out) \in Nat /\ Len(out) > 0 /\ Way(u) = Way(v) \o out
    <3>1. Way(u) = Way(v) \o out /\ out # <<>>
      BY <1>4, <1>5, <1>6
    <3>2. Len(Way(v)) \in Nat /\ Len(out) \in Nat \ {0}
      BY <1>7, <3>1, LenProperties, EmptySeq
    <3> QED
      BY <3>1, <3>2
  <2>2. /\ Len(Way(v)) + Len(out) \in DOMAIN Way(u)
        /\ Way(u)[Len(Way(v)) + Len(out)] = out[Len(out)]
    BY <1>7, <2>1, ConcatProperties, LenProperties
  <2>3. Waited(Head(rest))
    <3>1. Head(rest) \in Words
      BY <1>2, ContentsTail
    <3>2. "push" \notin Words
      BY Zenon, RedisAssumption DEF Words, NoWait, Reserved
    <3> QED
      BY <1>4, <3>1, <3>2 DEF Waited
  <2> QED
    BY <1>4, <2>2, <2>3
<1>11. Typed(u, p)
  BY <1>2 DEF Steady, Typed, TaskOK
<1>12. Counted(u, n)
  BY <1>1, <1>2 DEF Steady, Counted
<1>13. Connected(u)
  <2>1. Connected(v)
    BY DEF Steady
  <2>2. ASSUME NEW j \in DOMAIN v.ios PROVE IoOK(u, j)
    <3>1. CASE j = i
      <4>1. ASSUME ~u.ios[i].closed, u.ios[i].proto # "none" PROVE Greeted(u.ios[i].up)
        <5>1. Live(v) /\ v.ios[i].proto # "none"
          BY Zenon, <1>2, <1>5, <4>1
        <5>2. ~Greets(rest)
          BY <1>4, <5>1 DEF Sendable
        <5>3. Greeted(out)
          BY <1>3, <5>2, SplitGreeted
        <5>4. v.ios[i].up \in Seq(Words) /\ Greeted(v.ios[i].up)
          BY Zenon, <1>1, <1>2, <2>1, <4>1, IoType DEF Connected, IoOK
        <5>5. Greeted(v.ios[i].up \o out)
          BY <5>3, <5>4, GreetedJoin
        <5> QED
          BY Zenon, <1>2, <4>1, <5>5
      <4>2. IoOK(v, i)
        BY <1>1, <2>1 DEF Connected
      <4>3. /\ u.ios[i].owned = (u.r.io = i)
            /\ u.ios[i].closed => u.ios[i].up = <<>> /\ u.ios[i].down = <<>>
            /\ ~u.ios[i].owned \/ ~u.r.running => u.ios[i].closed
            /\ u.ios[i].st = "gone" => ~u.ios[i].owned
            /\ u.ios[i].st # "connecting"
        BY Zenon, <1>1, <1>2, <2>1, <4>2 DEF Connected, IoOK
      <4> QED
        BY <3>1, <4>1, <4>3 DEF IoOK
    <3>2. CASE j # i
      <4>1. IoOK(v, j) /\ u.ios[j] = v.ios[j] /\ u.r.io = v.r.io /\ u.r.running = v.r.running
        BY <1>2, <2>1, <3>2 DEF Connected
      <4> QED
        BY ONLY <4>1 DEF IoOK
    <3> QED
      BY <3>1, <3>2
  <2> QED
    BY <1>1, <1>2, <2>1, <2>2 DEF Connected
<1>14. FramesOK(u, p)
  BY <1>2 DEF Steady, FramesOK
<1>15. QueueOK(u)
  <2>1. ASSUME NEW k \in DOMAIN rest, rest[k] = "HELLO" PROVE k = 1 /\ rest # <<>>
    BY <1>2, <1>4, <2>1, NoPositions
  <2> QED
    BY <1>1, <1>2, <1>4, <2>1 DEF QueueOK, ShouldWait
<1>16. AnswersOK(u, p)
  BY <1>2 DEF Steady, AnswersOK
<1>17. SubsOK(u, a)
  <2>1. SubsOK(v, a)
    BY DEF Steady
  <2>2. ASSUME u.r.running
        PROVE  /\ Wants(a) => u.r.attached
               /\ LastIs(rest, Wants(a))
               /\ Live(u) /\ Silent(rest) => LastIs(u.ios[i].up, Wants(a))
               /\ Live(u) /\ Silent(rest) /\ Silent(u.ios[i].up) => u.ios[i].subs = Wants(a)
    <3>1. /\ LastIs(q, Wants(a))
          /\ Live(v) /\ Silent(q) => LastIs(v.ios[i].up, Wants(a))
          /\ Live(v) /\ Silent(q) /\ Silent(v.ios[i].up) => v.ios[i].subs = Wants(a)
          /\ Wants(a) => v.r.attached
      BY <1>2, <2>1, <2>2 DEF SubsOK
    <3>2. v.ios[i].up \in Seq(Words)
      BY <1>1, IoType
    <3>3. /\ LastIs(rest, Wants(a))
          /\ Silent(rest) =>
               /\ (Silent(q) => LastIs(v.ios[i].up, Wants(a))) => LastIs(v.ios[i].up \o out, Wants(a))
               /\ Silent(v.ios[i].up \o out) => Silent(q) /\ Silent(v.ios[i].up)
      BY <1>3, <3>1, <3>2, SplitSubs
    <3>4. Live(u) => Live(v) /\ u.ios[i].up = v.ios[i].up \o out
      BY Zenon, <1>2, <1>5
    <3> QED
      BY Zenon, <1>2, <3>1, <3>3, <3>4
  <2> QED
    BY <1>2, <2>1, <2>2 DEF SubsOK
<1>18. AllTold(u)
  <2>1. \A j \in DOMAIN v.ios : u.ios[j].closed = v.ios[j].closed /\ u.ios[j].st = v.ios[j].st
    BY <1>1, <1>2
  <2>2. \A t \in Contents(v.tasks) : t.fn = "closed" => t.arg \in DOMAIN v.ios
    BY DEF Steady, Typed, TaskOK
  <2> QED
    BY <1>2, <2>1, <2>2 DEF AllTold, Told
<1> QED
  BY <1>8, <1>9, <1>10, <1>11, <1>12, <1>13, <1>14, <1>15, <1>16, <1>17, <1>18 DEF Core, Base, LockOK, u
LEMMA SendRest ==
    ASSUME NEW v \in EngineRec, v.r.io \in {NoIo} \cup DOMAIN v.ios,
           \A k \in DOMAIN v.r.cmd_queue : v.r.cmd_queue[k] = "HELLO" => k = 1
    PROVE  LET u == SendNextCmd(v)
           IN  /\ u \in EngineRec /\ u.r.refs = v.r.refs
               /\ u.r.running = v.r.running /\ u.r.attached = v.r.attached
               /\ u.r.io = v.r.io /\ u.r.ready = v.r.ready /\ u.r.buf = v.r.buf
               /\ u.timers = v.timers /\ u.answers = v.answers /\ u.tasks = v.tasks
               /\ DOMAIN u.ios = DOMAIN v.ios
               /\ \A i \in DOMAIN v.ios : u.ios[i].closed = v.ios[i].closed /\ u.ios[i].st = v.ios[i].st
               /\ Live(u) = Live(v) /\ Dying(u) = Dying(v) /\ Readers(u) = Readers(v)
               /\ ReadersOK(v) => ReadersOK(u)
               /\ ReadyOK(v) => ReadyOK(u)
               /\ DyingOK(v) => DyingOK(u)
               /\ Retries(v) => Retries(u)
               /\ \A a, cmd : cmd \in Commands /\ PlaceOK(v, a, cmd) => PlaceOK(u, a, cmd)
<1> DEFINE u == SendNextCmd(v)
           i == v.r.io
           q == v.r.cmd_queue
<1>1. CASE v.r.pub_sent \/ v.r.io = NoIo \/ ~v.r.ready
  <2>1. u = v
    BY <1>1 DEF SendNextCmd
  <2> QED
    BY <2>1
<1>2. CASE ~(v.r.pub_sent \/ v.r.io = NoIo \/ ~v.r.ready)
  <2>1. i \in DOMAIN v.ios /\ v.r.io # NoIo /\ v.r.ready /\ ~v.r.pub_sent
    BY <1>2
  <2>2. PICK out \in Seq(Words), rest \in Seq(Words) :
          /\ Split(q, out, rest)
          /\ u \in EngineRec /\ u.r.refs = v.r.refs
          /\ u.r.running = v.r.running /\ u.r.attached = v.r.attached
          /\ u.r.pub_sent = (rest # <<>>) /\ u.r.io = i /\ u.r.ready = v.r.ready
          /\ u.r.cmd_queue = rest /\ u.r.buf = v.r.buf
          /\ u.timers = v.timers /\ u.answers = v.answers /\ u.tasks = v.tasks
          /\ DOMAIN u.ios = DOMAIN v.ios
          /\ \A j \in DOMAIN v.ios : j # i => u.ios[j] = v.ios[j]
          /\ u.ios[i].closed = v.ios[i].closed
          /\ u.ios[i].up = IF v.ios[i].closed THEN v.ios[i].up ELSE v.ios[i].up \o out
          /\ u.ios[i].down = v.ios[i].down
          /\ u.ios[i].st = v.ios[i].st /\ u.ios[i].owned = v.ios[i].owned
          /\ u.ios[i].proto = v.ios[i].proto /\ u.ios[i].subs = v.ios[i].subs
    <3> HIDE DEF u
    <3> QED
      BY ONLY <2>1, v \in EngineRec, SendIs DEF u, q, i
  <2> HIDE DEF u
  <2>3. q \in Seq(Words)
    BY Typed2
  <2>4. /\ \A w : w \notin NoWait =>
             /\ At(rest, {w}) = {} <=> At(q, {w}) = {}
             /\ Single(At(q, {w})) => Single(At(rest, {w}))
        /\ Greets(rest) <=> Greets(q)
    <3>1. \A k \in DOMAIN q : q[k] = "HELLO" => k = 1
      OBVIOUS
    <3>2. Split(q, out, rest)
      BY <2>2
    <3> HIDE DEF q
    <3> QED
      BY ONLY <2>3, <3>1, <3>2, SplitIs
  <2>5. \A j \in DOMAIN v.ios : u.ios[j].closed = v.ios[j].closed /\ u.ios[j].st = v.ios[j].st
    BY <2>2
  <2>6. Live(u) = Live(v) /\ Dying(u) = Dying(v) /\ Readers(u) = Readers(v) /\ Continues(u) = Continues(v)
    BY <2>2, <2>4 DEF Live, Dying, Readers, Continues
  <2>7. \A j : Readies(u, j) = Readies(v, j)
    BY <2>2 DEF Readies
  <2>8. ReadersOK(v) => ReadersOK(u)
    BY <2>2, <2>6 DEF ReadersOK
  <2>9. ReadyOK(v) => ReadyOK(u)
    BY <2>2, <2>5, <2>7 DEF ReadyOK
  <2>10. DyingOK(v) => DyingOK(u)
    BY <2>2, <2>6 DEF DyingOK
  <2>11. Retries(v) => Retries(u)
    BY <2>2 DEF Retries
  <2>12. ASSUME NEW a, NEW cmd \in Commands, PlaceOK(v, a, cmd) PROVE PlaceOK(u, a, cmd)
    <3>1. InTasks(u, cmd) = InTasks(v, cmd) /\ Answered(u, cmd) = Answered(v, cmd)
      BY <2>2 DEF InTasks, Answered
    <3>2. InQueue(u, cmd) = At(rest, {cmd}) /\ InQueue(v, cmd) = At(q, {cmd})
      BY <2>2 DEF InQueue, At
    <3>3. cmd \notin NoWait
      BY RedisAssumption DEF Reserved
    <3>4. (InQueue(u, cmd) = {} <=> InQueue(v, cmd) = {}) /\ (Single(InQueue(v, cmd)) => Single(InQueue(u, cmd)))
      BY <2>4, <3>2, <3>3
    <3> QED
      BY <2>12, <3>1, <3>4 DEF PlaceOK
  <2> QED
    BY <2>2, <2>5, <2>6, <2>8, <2>9, <2>10, <2>11, <2>12 DEF u
<1> QED
  BY <1>1, <1>2
-----------------------------------------------------------------------------
(* Queueing a command at the tail, and sending it.                         *)

LEMMA QueueIs ==
    ASSUME NEW s \in EngineRec, NEW w \in Words
    PROVE  LET u == Queue(s, w)
           IN  /\ u \in EngineRec /\ u.r.refs = s.r.refs
               /\ u.r.running = s.r.running /\ u.r.attached = s.r.attached
               /\ u.r.pub_sent = s.r.pub_sent /\ u.r.io = s.r.io /\ u.r.ready = s.r.ready
               /\ u.r.cmd_queue = Append(s.r.cmd_queue, w) /\ u.r.buf = s.r.buf
               /\ u.ios = s.ios /\ u.timers = s.timers /\ u.answers = s.answers
               /\ u.tasks = s.tasks
<1> DEFINE x == [s.r EXCEPT !.cmd_queue = Append(s.r.cmd_queue, w)]
           u == [s EXCEPT !.r = x]
<1>1. s.r \in RRec /\ s.r.cmd_queue \in Seq(Words)
  BY DEF EngineRec, RRec
<1>2. Append(s.r.cmd_queue, w) \in Seq(Words)
  BY <1>1, ContentsAppend
<1>3. /\ x \in RRec /\ x.refs = s.r.refs /\ x.running = s.r.running /\ x.attached = s.r.attached
      /\ x.pub_sent = s.r.pub_sent /\ x.io = s.r.io /\ x.ready = s.r.ready
      /\ x.cmd_queue = Append(s.r.cmd_queue, w) /\ x.buf = s.r.buf
  BY <1>1, <1>2 DEF RRec
<1>4. Queue(s, w) = u
  BY DEF Queue
<1> HIDE DEF x
<1>5. /\ u \in EngineRec /\ u.r = x /\ u.ios = s.ios /\ u.tasks = s.tasks
      /\ u.timers = s.timers /\ u.answers = s.answers
  BY <1>3, SetR
<1> QED
  BY <1>3, <1>4, <1>5

LEMMA HeadAppend ==
    ASSUME NEW V, NEW q \in Seq(V), NEW w \in V
    PROVE  /\ Append(q, w) # <<>> /\ Head(Append(q, w)) = IF q = <<>> THEN w ELSE Head(q)
           /\ Len(Append(q, w)) = Len(q) + 1 /\ Len(q) \in Nat
           /\ DOMAIN q = 1 .. Len(q) /\ DOMAIN Append(q, w) = 1 .. Len(q) + 1
           /\ \A k \in 1 .. Len(q) : Append(q, w)[k] = q[k]
           /\ Append(q, w)[Len(q) + 1] = w
<1>1. /\ Append(q, w) \in Seq(V) /\ Len(Append(q, w)) = Len(q) + 1 /\ Len(q) \in Nat
      /\ DOMAIN q = 1 .. Len(q)
      /\ \A k \in 1 .. Len(q) : Append(q, w)[k] = q[k]
      /\ Append(q, w)[Len(q) + 1] = w
  BY AppendProperties, LenProperties
<1>2. DOMAIN Append(q, w) = 1 .. Len(q) + 1 /\ Append(q, w) # <<>>
  BY <1>1, LenProperties, EmptySeq
<1>3. Head(Append(q, w)) = Append(q, w)[1]
  BY <1>1, <1>2, HeadTailProperties
<1>4. CASE q = <<>>
  <2>1. Len(q) = 0
    BY <1>4
  <2> QED
    BY <1>1, <1>2, <1>3, <1>4, <2>1
<1>5. CASE q # <<>>
  <2>1. 1 \in 1 .. Len(q)
    BY <1>1, <1>5, EmptySeq
  <2>2. Head(q) = q[1]
    BY <1>5, HeadTailProperties
  <2> QED
    BY <1>1, <1>2, <1>3, <1>5, <2>1, <2>2
<1> QED
  BY <1>4, <1>5

LEMMA QueueRest ==
    ASSUME NEW s \in EngineRec, NEW w \in Words, w # "HELLO"
    PROVE  LET u == Queue(s, w)
           IN  /\ Greets(u.r.cmd_queue) <=> Greets(s.r.cmd_queue)
               /\ Live(u) = Live(s) /\ Dying(u) = Dying(s) /\ Readers(u) = Readers(s)
               /\ Continues(u) = Continues(s)
               /\ ReadersOK(s) => ReadersOK(u)
               /\ ReadyOK(s) => ReadyOK(u)
               /\ DyingOK(s) => DyingOK(u)
               /\ Retries(s) => Retries(u)
               /\ (\A k \in DOMAIN s.r.cmd_queue : s.r.cmd_queue[k] = "HELLO" => k = 1) =>
                     \A k \in DOMAIN u.r.cmd_queue : u.r.cmd_queue[k] = "HELLO" => k = 1
               /\ \A a, cmd : cmd # w /\ PlaceOK(s, a, cmd) => PlaceOK(u, a, cmd)
               /\ \A a : InTasks(s, w) = {} /\ InQueue(s, w) = {} /\ Answered(s, w) = {}
                         /\ w \in a.sent /\ w \notin a.calls => PlaceOK(u, a, w)
<1> DEFINE u == Queue(s, w)
           q == s.r.cmd_queue
<1>1. /\ u \in EngineRec /\ u.r.refs = s.r.refs
      /\ u.r.running = s.r.running /\ u.r.attached = s.r.attached
      /\ u.r.pub_sent = s.r.pub_sent /\ u.r.io = s.r.io /\ u.r.ready = s.r.ready
      /\ u.r.cmd_queue = Append(q, w) /\ u.r.buf = s.r.buf
      /\ u.ios = s.ios /\ u.timers = s.timers /\ u.answers = s.answers
      /\ u.tasks = s.tasks
  BY QueueIs
<1> HIDE DEF u
<1>2. /\ q \in Seq(Words)
      /\ Append(q, w) # <<>> /\ Head(Append(q, w)) = IF q = <<>> THEN w ELSE Head(q)
      /\ Len(q) \in Nat
      /\ DOMAIN q = 1 .. Len(q) /\ DOMAIN Append(q, w) = 1 .. Len(q) + 1
      /\ \A k \in 1 .. Len(q) : Append(q, w)[k] = q[k]
      /\ Append(q, w)[Len(q) + 1] = w
  <2>1. q \in Seq(Words)
    BY Typed2
  <2> QED
    BY <2>1, HeadAppend
<1>3. Greets(u.r.cmd_queue) <=> Greets(q)
  BY <1>1, <1>2 DEF Greets
<1>4. Live(u) = Live(s) /\ Dying(u) = Dying(s) /\ Readers(u) = Readers(s) /\ Continues(u) = Continues(s)
  BY <1>1, <1>3 DEF Live, Dying, Readers, Continues
<1>5. \A i : Readies(u, i) = Readies(s, i)
  BY <1>1 DEF Readies
<1>6. /\ ReadersOK(s) => ReadersOK(u)
      /\ ReadyOK(s) => ReadyOK(u)
      /\ DyingOK(s) => DyingOK(u)
      /\ Retries(s) => Retries(u)
  BY <1>1, <1>4, <1>5 DEF ReadersOK, ReadyOK, DyingOK, Retries
<1>7. ASSUME \A k \in DOMAIN q : q[k] = "HELLO" => k = 1, NEW k \in DOMAIN u.r.cmd_queue, u.r.cmd_queue[k] = "HELLO"
      PROVE  k = 1
  <2>1. k \in 1 .. Len(q)
    BY <1>1, <1>2, <1>7
  <2> QED
    BY <1>1, <1>2, <1>7, <2>1
<1>8. \A cmd : InTasks(u, cmd) = InTasks(s, cmd) /\ Answered(u, cmd) = Answered(s, cmd)
  BY <1>1 DEF InTasks, Answered
<1>9. \A cmd : InQueue(u, cmd) = At(Append(q, w), {cmd}) /\ InQueue(s, cmd) = At(q, {cmd})
  BY <1>1 DEF InQueue, At
<1>10. ASSUME NEW a, NEW cmd, cmd # w, PlaceOK(s, a, cmd) PROVE PlaceOK(u, a, cmd)
  <2>1. At(Append(q, w), {cmd}) = At(q, {cmd})
    BY <1>2, <1>10, AtAppend
  <2>2. InQueue(u, cmd) = InQueue(s, cmd)
    BY <1>9, <2>1
  <2> QED
    BY <1>8, <1>10, <2>2 DEF PlaceOK
<1>11. ASSUME NEW a, InTasks(s, w) = {}, InQueue(s, w) = {}, Answered(s, w) = {},
              w \in a.sent, w \notin a.calls
       PROVE  PlaceOK(u, a, w)
  <2>1. At(Append(q, w), {w}) = At(q, {w}) \cup {Len(q) + 1}
    BY <1>2, AtAppend
  <2>2. InQueue(u, w) = {Len(q) + 1} /\ InTasks(u, w) = {} /\ Answered(u, w) = {}
    BY <1>8, <1>9, <1>11, <2>1
  <2> QED
    BY <1>11, <2>2 DEF PlaceOK, Single
<1> QED
  BY <1>3, <1>4, <1>6, <1>7, <1>10, <1>11 DEF u

LEMMA QueueCore ==
    ASSUME NEW s, NEW a, NEW b, NEW p, NEW n \in Nat, Core(s, a, p, n, FALSE),
           NEW w \in Words, w # "HELLO", s.r.running, SubsOK(Queue(s, w), b)
    PROVE  Core(SendNextCmd(Queue(s, w)), b, p, n, FALSE)
<1> DEFINE v == Queue(s, w)
           q == s.r.cmd_queue
           i == s.r.io
<1>1. /\ s \in EngineRec /\ Typed(s, p) /\ Counted(s, n) /\ Connected(s) /\ LockOK(s, p, FALSE)
      /\ QueueOK(s) /\ AnswersOK(s, p) /\ AllTold(s) /\ i \in {NoIo} \cup DOMAIN s.ios
  BY DEF Core, Base, Typed, Connected
<1>2. /\ v \in EngineRec /\ v.r.refs = s.r.refs
      /\ v.r.running = s.r.running /\ v.r.attached = s.r.attached
      /\ v.r.pub_sent = s.r.pub_sent /\ v.r.io = s.r.io /\ v.r.ready = s.r.ready
      /\ v.r.cmd_queue = Append(q, w) /\ v.r.buf = s.r.buf
      /\ v.ios = s.ios /\ v.timers = s.timers /\ v.answers = s.answers
      /\ v.tasks = s.tasks
  BY <1>1, QueueIs
<1>3. /\ Greets(v.r.cmd_queue) <=> Greets(q)
      /\ Live(v) = Live(s) /\ Dying(v) = Dying(s) /\ Continues(v) = Continues(s)
      /\ \A k \in DOMAIN v.r.cmd_queue : v.r.cmd_queue[k] = "HELLO" => k = 1
  <2>1. \A k \in DOMAIN q : q[k] = "HELLO" => k = 1
    BY <1>1 DEF QueueOK
  <2> QED
    BY <1>1, <2>1, QueueRest
<1>4. SubsOK(v, b)
  OBVIOUS
<1> HIDE DEF v
<1>5. Way(v) = Way(s)
  BY <1>2 DEF Way, Stream
<1>6. Steady(v, b, p, n) /\ AllTold(v)
  <2>1. Typed(v, p)
    BY <1>1, <1>2 DEF Typed
  <2>2. Counted(v, n)
    BY <1>1, <1>2 DEF Counted
  <2>3. Connected(v)
    BY <1>1, <1>2 DEF Connected, IoOK
  <2>4. FramesOK(v, p) /\ AnswersOK(v, p)
    BY <1>1, <1>2 DEF LockOK, FramesOK, AnswersOK
  <2>5. AllTold(v)
    BY <1>1, <1>2 DEF AllTold, Told
  <2> QED
    BY <1>4, <2>1, <2>2, <2>3, <2>4, <2>5 DEF Steady
<1>7. q \in Seq(Words)
  BY <1>1, Typed2
<1>8. /\ Append(q, w) # <<>> /\ Head(Append(q, w)) = IF q = <<>> THEN w ELSE Head(q)
      /\ DOMAIN q = 1 .. Len(q) /\ DOMAIN Append(q, w) = 1 .. Len(q) + 1 /\ Len(q) \in Nat
      /\ \A k \in 1 .. Len(q) : Append(q, w)[k] = q[k]
      /\ Append(q, w)[Len(q) + 1] = w
  BY <1>7, HeadAppend
<1>9. CASE i # NoIo /\ s.r.ready /\ ~s.r.pub_sent
  <2>1. q = <<>> /\ ~Greets(q)
    BY <1>1, <1>9 DEF QueueOK, Greets
  <2>2. ASSUME Live(v) \/ Continues(v), ~Dying(v)
        PROVE  NoneComes(Way(v))
    <3>1. InStep(Way(s), q, s.r.pub_sent)
      BY <1>1, <1>3, <1>9, <2>2 DEF LockOK, StepOK
    <3> QED
      BY <1>5, <1>9, <3>1 DEF InStep, NoneComes
  <2>3. Live(v) => ~Greets(v.r.cmd_queue) /\ v.ios[v.r.io].proto # "none"
    BY <1>1, <1>2, <1>3, <2>1 DEF LockOK, GreetOK
  <2>4. v.r.pub_sent = FALSE /\ v.r.ready = TRUE /\ v.r.io # NoIo
    BY <1>1, <1>2, <1>9, Typed2
  <2>5. Sendable(v, FALSE)
    BY <1>3, <2>2, <2>3, <2>4 DEF Sendable
  <2> QED
    BY <1>6, <2>5, SendCore DEF v
<1>10. CASE ~(i # NoIo /\ s.r.ready /\ ~s.r.pub_sent)
  <2>1. SendNextCmd(v) = v
    BY <1>2, <1>10 DEF SendNextCmd
  <2>2. StepOK(v, FALSE)
    <3> SUFFICES ASSUME i # NoIo, Live(s) \/ Continues(s), ~Dying(s)
                 PROVE  InStep(Way(s), Append(q, w), s.r.pub_sent)
      BY <1>2, <1>3, <1>5 DEF StepOK
    <3>1. InStep(Way(s), q, s.r.pub_sent)
      BY <1>1 DEF LockOK, StepOK
    <3>2. \A x : Replies(x, q) => Replies(x, Append(q, w))
      BY <1>8 DEF Replies
    <3> QED
      BY <3>1, <3>2 DEF InStep
  <2>3. GreetOK(v) /\ SentOK(v)
    BY <1>1, <1>2, <1>3, <1>5 DEF LockOK, GreetOK, SentOK
  <2>4. QueueOK(v)
    <3>1. ASSUME NEW k \in DOMAIN v.r.cmd_queue, v.r.cmd_queue[k] = "HELLO"
          PROVE  s.r.io # NoIo /\ s.r.ready /\ s.r.pub_sent
      <4>1. k \in 1 .. Len(q) /\ q[k] = "HELLO"
        BY <1>2, <1>8, <3>1
      <4> QED
        BY <1>1, <1>8, <4>1 DEF QueueOK
    <3>2. ASSUME s.r.io # NoIo, s.r.ready
          PROVE  IF s.r.pub_sent THEN Append(q, w) # <<>> /\ ShouldWait(Head(Append(q, w)))
                 ELSE Append(q, w) = <<>>
      BY <1>1, <1>8, <1>10, <3>2 DEF QueueOK
    <3> QED
      BY <1>2, <1>3, <3>1, <3>2 DEF QueueOK
  <2> QED
    BY <1>6, <2>1, <2>2, <2>3, <2>4 DEF Core, Base, Steady, LockOK, v
<1> QED
  BY <1>9, <1>10
LEMMA LastAppend ==
    ASSUME NEW q \in Seq(Words), NEW w \in Words
    PROVE  /\ w \notin NoWait => /\ \A b : LastIs(q, b) => LastIs(Append(q, w), b)
                                 /\ Silent(Append(q, w)) <=> Silent(q)
           /\ w \in NoWait => ~Silent(Append(q, w)) /\ LastIs(Append(q, w), (w = "SUBSCRIBE"))
<1> DEFINE x == Append(q, w)
<1>1. /\ Len(q) \in Nat /\ DOMAIN q = 1 .. Len(q) /\ DOMAIN x = 1 .. Len(q) + 1
      /\ \A k \in 1 .. Len(q) : x[k] = q[k]
      /\ x[Len(q) + 1] = w
  BY HeadAppend
<1> HIDE DEF x
<1>2. ASSUME w \notin NoWait, NEW b, LastIs(q, b) PROVE LastIs(x, b)
  <2> SUFFICES ASSUME NEW k \in DOMAIN x, x[k] \in NoWait, \A j \in DOMAIN x : j > k => x[j] \notin NoWait
               PROVE  (x[k] = "SUBSCRIBE") = b
    BY DEF LastIs
  <2>1. k \in 1 .. Len(q)
    BY <1>1, <1>2
  <2>2. \A j \in DOMAIN q : j > k => q[j] \notin NoWait
    <3> SUFFICES ASSUME NEW j \in DOMAIN q, j > k PROVE q[j] \notin NoWait
      OBVIOUS
    <3>1. j \in DOMAIN x /\ x[j] = q[j]
      BY <1>1
    <3> QED
      BY <3>1
  <2>3. q[k] = x[k] /\ k \in DOMAIN q
    BY <1>1, <2>1
  <2> QED
    BY <1>2, <2>2, <2>3 DEF LastIs
<1>3. ASSUME w \notin NoWait PROVE Silent(x) <=> Silent(q)
  <2>1. ASSUME Silent(x) PROVE Silent(q)
    BY <1>1, <2>1 DEF Silent
  <2>2. ASSUME Silent(q) PROVE Silent(x)
    BY <1>1, <1>3, <2>2 DEF Silent
  <2> QED
    BY <2>1, <2>2
<1>4. ASSUME w \in NoWait PROVE ~Silent(x) /\ LastIs(x, (w = "SUBSCRIBE"))
  <2>1. ~Silent(x)
    BY <1>1, <1>4 DEF Silent
  <2> SUFFICES ASSUME NEW k \in DOMAIN x, x[k] \in NoWait, \A j \in DOMAIN x : j > k => x[j] \notin NoWait
               PROVE  (x[k] = "SUBSCRIBE") = (w = "SUBSCRIBE")
    BY <2>1 DEF LastIs
  <2>2. k = Len(q) + 1
    BY <1>1, <1>4
  <2> QED
    BY <1>1, <2>2
<1> QED
  BY <1>2, <1>3, <1>4 DEF x

LEMMA QueueSubs ==
    ASSUME NEW s \in EngineRec, NEW w \in Words, NEW a
    PROVE  /\ w \notin NoWait /\ SubsOK(s, a) => SubsOK(Queue(s, w), a)
           /\ w \in NoWait /\ (s.r.attached => a.system) /\ (Wants(a) => s.r.attached)
              /\ Wants(a) = (w = "SUBSCRIBE") => SubsOK(Queue(s, w), a)
<1> DEFINE u == Queue(s, w)
           q == s.r.cmd_queue
<1>1. /\ u \in EngineRec /\ u.r.running = s.r.running /\ u.r.attached = s.r.attached
      /\ u.r.io = s.r.io /\ u.r.ready = s.r.ready
      /\ u.r.cmd_queue = Append(q, w) /\ u.ios = s.ios
  BY QueueIs
<1>2. q \in Seq(Words)
  BY Typed2
<1>3. /\ w \notin NoWait => /\ \A b : LastIs(q, b) => LastIs(Append(q, w), b)
                            /\ Silent(Append(q, w)) <=> Silent(q)
      /\ w \in NoWait => ~Silent(Append(q, w)) /\ LastIs(Append(q, w), (w = "SUBSCRIBE"))
  BY <1>2, LastAppend
<1>4. Live(u) = Live(s)
  BY <1>1 DEF Live
<1> HIDE DEF u
<1>5. ASSUME w \notin NoWait, SubsOK(s, a) PROVE SubsOK(u, a)
  BY <1>1, <1>3, <1>4, <1>5 DEF SubsOK
<1>6. ASSUME w \in NoWait, s.r.attached => a.system, Wants(a) => s.r.attached,
             Wants(a) = (w = "SUBSCRIBE")
      PROVE  SubsOK(u, a)
  BY <1>1, <1>3, <1>4, <1>6 DEF SubsOK
<1> QED
  BY <1>5, <1>6 DEF u

-----------------------------------------------------------------------------
(* A frame for the parser.                                                 *)
SetBuf(s, b) == [s EXCEPT !.r.buf = b]

LEMMA SetBufIs ==
    ASSUME NEW s \in EngineRec, NEW b \in Seq(Frames)
    PROVE  LET u == SetBuf(s, b)
           IN  /\ u \in EngineRec /\ u.r.refs = s.r.refs
               /\ u.r.running = s.r.running /\ u.r.attached = s.r.attached
               /\ u.r.pub_sent = s.r.pub_sent /\ u.r.io = s.r.io /\ u.r.ready = s.r.ready
               /\ u.r.cmd_queue = s.r.cmd_queue /\ u.r.buf = b
               /\ u.ios = s.ios /\ u.timers = s.timers /\ u.answers = s.answers
               /\ u.tasks = s.tasks
<1> DEFINE x == [s.r EXCEPT !.buf = b]
           u == [s EXCEPT !.r = x]
<1>1. s.r \in RRec
  BY DEF EngineRec, RRec
<1>2. /\ x \in RRec /\ x.refs = s.r.refs /\ x.running = s.r.running /\ x.attached = s.r.attached
      /\ x.pub_sent = s.r.pub_sent /\ x.io = s.r.io /\ x.ready = s.r.ready
      /\ x.cmd_queue = s.r.cmd_queue /\ x.buf = b
  BY <1>1 DEF RRec
<1>3. SetBuf(s, b) = u
  BY DEF SetBuf
<1> HIDE DEF x
<1>4. /\ u \in EngineRec /\ u.r = x /\ u.ios = s.ios /\ u.tasks = s.tasks
      /\ u.timers = s.timers /\ u.answers = s.answers
  BY <1>2, SetR
<1> QED
  BY <1>2, <1>3, <1>4

LEMMA SetBufWith ==
    ASSUME NEW s \in EngineRec, NEW b \in Seq(Frames), NEW t \in TaskRec
    PROVE  SetBuf(With(s, t), b) = With(SetBuf(s, b), t)
BY DEF SetBuf, With, EngineRec

LEMMA SetBufWrite ==
    ASSUME NEW s \in EngineRec, NEW b \in Seq(Frames), NEW i, NEW words
    PROVE  SetBuf(Write(s, i, words), b) = Write(SetBuf(s, b), i, words)
BY DEF SetBuf, Write, EngineRec

LEMMA SetBufTwice ==
    ASSUME NEW s \in EngineRec, NEW b \in Seq(Frames), NEW c \in Seq(Frames)
    PROVE  SetBuf(SetBuf(s, b), c) = SetBuf(s, c) /\ SetBuf(s, s.r.buf) = s
BY DEF SetBuf, EngineRec

LEMMA SetBufSend ==
    ASSUME NEW s \in EngineRec, NEW b \in Seq(Frames)
    PROVE  SetBuf(SendNextCmd(s), b) = SendNextCmd(SetBuf(s, b))
<1> DEFINE v == SetBuf(s, b)
           q == s.r.cmd_queue
           waits == {k \in 1..Len(q) : ShouldWait(q[k])}
           k == IF waits = {} THEN Len(q) + 1 ELSE CHOOSE m \in waits : \A n \in waits : m <= n
           rest == SubSeq(q, k, Len(q))
           out == SubSeq(q, 1, IF waits = {} THEN k - 1 ELSE k)
           i == s.r.io
           set == waits # {}
           Sent(x) == [x EXCEPT !.r.cmd_queue = rest, !.r.pub_sent = set]
<1>1. v.r.cmd_queue = q /\ v.r.pub_sent = s.r.pub_sent /\ v.r.io = i /\ v.r.ready = s.r.ready
  BY SetBufIs
<1>2. CASE s.r.pub_sent \/ i = NoIo \/ ~s.r.ready
  BY <1>1, <1>2 DEF SendNextCmd
<1>3. CASE ~(s.r.pub_sent \/ i = NoIo \/ ~s.r.ready)
  <2>1. SendNextCmd(s) = Write(Sent(s), i, out)
    BY <1>3 DEF SendNextCmd
  <2>2. SendNextCmd(v) = Write(Sent(v), i, out)
    <3> HIDE DEF v
    <3> QED
      BY <1>1, <1>3 DEF SendNextCmd
  <2>3. q \in Seq(Words)
    BY Typed2
  <2>4. rest \in Seq(Words) /\ set \in BOOLEAN
    <3>1. PICK o, y \in Seq(Words) : Split(q, o, y) /\ SendNextCmd(s) = Write(Requeued(s, y), i, o)
      BY ONLY s \in EngineRec, <1>3, SendSplit DEF q, i
    <3>2. Sent(s).r.cmd_queue = y
      <4>1. Write(Sent(s), i, out).r = Sent(s).r /\ Write(Requeued(s, y), i, o).r = Requeued(s, y).r
        <5>1. \A z, w : Write(z, i, w).r = z.r
          BY DEF Write
        <5> QED
          BY <5>1
      <4>2. Requeued(s, y).r.cmd_queue = y
        BY RequeuedIs
      <4> QED
        BY Zenon, <2>1, <3>1, <4>1, <4>2
    <3>3. Sent(s).r.cmd_queue = rest
      <4> HIDE DEF rest, set
      <4> QED
        BY DEF EngineRec
    <3> QED
      BY Zenon, <3>2, <3>3
  <2> HIDE DEF rest, set
  <2>5. SetBuf(Sent(s), b) = Sent(SetBuf(s, b)) /\ Sent(s) \in EngineRec
    BY <2>4 DEF SetBuf, EngineRec
  <2> QED
    BY <2>1, <2>2, <2>5, SetBufWrite DEF v
<1> QED
  BY <1>2, <1>3
LEMMA TailIs ==
    ASSUME NEW V, NEW q \in Seq(V), q # <<>>
    PROVE  /\ Tail(q) \in Seq(V) /\ Len(Tail(q)) = Len(q) - 1 /\ Len(q) \in Nat /\ Len(q) >= 1
           /\ DOMAIN q = 1 .. Len(q) /\ DOMAIN Tail(q) = 1 .. Len(q) - 1
           /\ \A k \in 1 .. Len(q) - 1 : Tail(q)[k] = q[k + 1]
           /\ Head(q) = q[1] /\ q[1] \in V
<1>1. /\ Tail(q) \in Seq(V) /\ Len(Tail(q)) = Len(q) - 1
      /\ \A k \in 1 .. Len(Tail(q)) : Tail(q)[k] = q[k + 1]
      /\ Head(q) = q[1]
  BY HeadTailProperties
<1>2. Len(q) \in Nat \ {0} /\ DOMAIN q = 1 .. Len(q) /\ DOMAIN Tail(q) = 1 .. Len(Tail(q))
  BY <1>1, LenProperties, EmptySeq
<1>3. q[1] \in V
  BY <1>2, ElementOfSeq
<1> QED
  BY <1>1, <1>2, <1>3

LEMMA TailJoin ==
    ASSUME NEW x \in Seq(Frames), NEW y \in Seq(Frames), x # <<>>
    PROVE  /\ x \o y # <<>> /\ Tail(x \o y) = Tail(x) \o y /\ (x \o y)[1] = Head(x)
           /\ Tail(x) \in Seq(Frames) /\ Len(x \o y) = Len(x) + Len(y)
<1>1. /\ Tail(x) \in Seq(Frames) /\ Len(Tail(x)) = Len(x) - 1 /\ Len(x) \in Nat /\ Len(x) >= 1
      /\ \A k \in 1 .. Len(x) - 1 : Tail(x)[k] = x[k + 1]
      /\ Head(x) = x[1]
  BY TailIs
<1>2. /\ x \o y \in Seq(Frames) /\ Len(x \o y) = Len(x) + Len(y) /\ Len(y) \in Nat
      /\ \A k \in 1 .. Len(x) + Len(y) : (x \o y)[k] = IF k <= Len(x) THEN x[k] ELSE y[k - Len(x)]
  BY ConcatProperties, LenProperties
<1>3. x \o y # <<>>
  BY ConcatEqualIffEmpty
<1>4. /\ Tail(x \o y) \in Seq(Frames) /\ Len(Tail(x \o y)) = Len(x) + Len(y) - 1
      /\ \A k \in 1 .. Len(x) + Len(y) - 1 : Tail(x \o y)[k] = (x \o y)[k + 1]
  BY <1>2, <1>3, TailIs
<1>5. /\ Tail(x) \o y \in Seq(Frames) /\ Len(Tail(x) \o y) = Len(x) - 1 + Len(y)
      /\ \A k \in 1 .. Len(x) - 1 + Len(y) :
           (Tail(x) \o y)[k] = IF k <= Len(x) - 1 THEN Tail(x)[k] ELSE y[k - (Len(x) - 1)]
  BY <1>1, ConcatProperties
<1>6. ASSUME NEW k \in 1 .. Len(x) + Len(y) - 1
      PROVE  Tail(x \o y)[k] = (Tail(x) \o y)[k]
  <2>1. k + 1 \in 1 .. Len(x) + Len(y) /\ k \in 1 .. Len(x) - 1 + Len(y)
    BY <1>1, <1>2
  <2>2. CASE k <= Len(x) - 1
    BY <1>1, <1>2, <1>4, <1>5, <2>1, <2>2
  <2>3. CASE ~(k <= Len(x) - 1)
    <3>1. ~(k + 1 <= Len(x)) /\ k + 1 - Len(x) = k - (Len(x) - 1)
      BY <1>1, <2>3
    <3> QED
      BY <1>2, <1>4, <1>5, <2>1, <2>3, <3>1
  <2> QED
    BY <2>2, <2>3
<1>7. Tail(x \o y) = Tail(x) \o y
  <2>1. Len(Tail(x \o y)) = Len(Tail(x) \o y) /\ Len(x) + Len(y) - 1 = Len(Tail(x \o y))
    BY <1>1, <1>2, <1>4, <1>5
  <2> QED
    BY <1>4, <1>5, <1>6, <2>1, SeqEqual
<1> QED
  BY <1>1, <1>2, <1>3, <1>7

LEMMA InStepTail ==
    ASSUME NEW way \in Seq(Frames), way # <<>>, way[1] # "garbage", NEW q, NEW sent, InStep(way, q, sent)
    PROVE  /\ ~Waited(way[1]) => InStep(Tail(way), q, sent)
           /\ Waited(way[1]) => NoneComes(Tail(way)) /\ sent /\ Replies(way[1], q)
<1>1. /\ Len(way) \in Nat /\ Len(way) >= 1 /\ DOMAIN way = 1 .. Len(way)
      /\ DOMAIN Tail(way) = 1 .. Len(way) - 1
      /\ \A k \in 1 .. Len(way) - 1 : Tail(way)[k] = way[k + 1]
  BY TailIs
<1>2. ASSUME NEW k \in Nat, Comes(Tail(way), k)
      PROVE  Comes(way, k + 1) /\ k >= 1 /\ way[k + 1] = Tail(way)[k]
  <2>1. k \in 1 .. Len(way) - 1 /\ Waited(Tail(way)[k]) /\ \A j \in 1 .. k : Tail(way)[j] # "garbage"
    BY <1>1, <1>2 DEF Comes
  <2>2. way[k + 1] = Tail(way)[k] /\ k + 1 \in DOMAIN way
    BY <1>1, <2>1
  <2>3. ASSUME NEW j \in 1 .. k + 1 PROVE way[j] # "garbage"
    <3>1. CASE j = 1
      BY <3>1
    <3>2. CASE j # 1
      <4>1. j - 1 \in 1 .. k /\ j - 1 \in 1 .. Len(way) - 1 /\ (j - 1) + 1 = j
        BY <1>1, <2>1, <3>2
      <4> QED
        BY <1>1, <2>1, <4>1
    <3> QED
      BY <3>1, <3>2
  <2> QED
    BY <2>1, <2>2, <2>3 DEF Comes
<1>3. ASSUME ~Waited(way[1]) PROVE InStep(Tail(way), q, sent)
  <2> SUFFICES ASSUME NEW k \in Nat, Comes(Tail(way), k)
               PROVE  sent /\ Replies(Tail(way)[k], q) /\ \A j \in Nat : Comes(Tail(way), j) => j = k
    BY DEF InStep
  <2>1. Comes(way, k + 1) /\ way[k + 1] = Tail(way)[k] /\ k + 1 \in Nat
    <3>1. Comes(way, k + 1) /\ way[k + 1] = Tail(way)[k]
      BY ONLY <1>2, k \in Nat, Comes(Tail(way), k), Zenon
    <3> QED
      BY <3>1
  <2>2. ASSUME NEW j \in Nat, Comes(Tail(way), j) PROVE j = k
    <3>1. Comes(way, j + 1) /\ j + 1 \in Nat
      BY <1>2, <2>2
    <3>2. j + 1 = k + 1
      BY <2>1, <3>1 DEF InStep
    <3> QED
      BY <3>2
  <2> QED
    BY <2>1, <2>2 DEF InStep
<1>4. ASSUME Waited(way[1]) PROVE NoneComes(Tail(way)) /\ sent /\ Replies(way[1], q)
  <2>1. Comes(way, 1)
    BY <1>1, <1>4 DEF Comes
  <2>2. ASSUME NEW k \in Nat, Comes(Tail(way), k) PROVE FALSE
    <3>1. Comes(way, k + 1) /\ k >= 1 /\ k + 1 \in Nat
      BY <1>2, <2>2
    <3>2. k + 1 = 1
      BY <2>1, <3>1 DEF InStep
    <3> QED
      BY <3>1, <3>2
  <2> QED
    BY <2>1, <2>2 DEF InStep, NoneComes
<1> QED
  BY <1>3, <1>4
LEMMA QueueTail ==
    ASSUME NEW q \in Seq(Words), q # <<>>, Head(q) \notin NoWait,
           \A k \in DOMAIN q : q[k] = "HELLO" => k = 1
    PROVE  /\ Tail(q) \in Seq(Words)
           /\ \A k \in DOMAIN Tail(q) : Tail(q)[k] # "HELLO"
           /\ ~Greets(Tail(q))
           /\ \A b : LastIs(q, b) => LastIs(Tail(q), b)
           /\ Silent(Tail(q)) <=> Silent(q)
<1> DEFINE z == Tail(q)
<1>1. /\ z \in Seq(Words) /\ Len(q) \in Nat /\ Len(q) >= 1
      /\ DOMAIN q = 1 .. Len(q) /\ DOMAIN z = 1 .. Len(q) - 1
      /\ \A k \in 1 .. Len(q) - 1 : z[k] = q[k + 1]
      /\ Head(q) = q[1]
  BY TailIs
<1> HIDE DEF z
<1>2. ASSUME NEW k \in DOMAIN z PROVE z[k] # "HELLO"
  <2>1. k + 1 \in DOMAIN q /\ z[k] = q[k + 1] /\ k + 1 # 1
    BY <1>1
  <2> QED
    BY <2>1
<1>3. ~Greets(z)
  <2>1. ASSUME z # <<>> PROVE Head(z) # "HELLO"
    <3>1. Head(z) = z[1] /\ 1 \in DOMAIN z
      BY <1>1, <2>1, TailIs
    <3> QED
      BY <1>2, <3>1
  <2> QED
    BY <2>1 DEF Greets
<1>4. ASSUME NEW b, LastIs(q, b) PROVE LastIs(z, b)
  <2> SUFFICES ASSUME NEW k \in DOMAIN z, z[k] \in NoWait, \A j \in DOMAIN z : j > k => z[j] \notin NoWait
               PROVE  (z[k] = "SUBSCRIBE") = b
    BY DEF LastIs
  <2>1. k + 1 \in DOMAIN q /\ z[k] = q[k + 1]
    BY <1>1
  <2>2. \A j \in DOMAIN q : j > k + 1 => q[j] \notin NoWait
    <3> SUFFICES ASSUME NEW j \in DOMAIN q, j > k + 1 PROVE q[j] \notin NoWait
      OBVIOUS
    <3>1. j - 1 \in 1 .. Len(q) - 1 /\ j - 1 > k /\ (j - 1) + 1 = j
      BY <1>1
    <3>2. z[j - 1] = q[j] /\ j - 1 \in DOMAIN z
      BY <1>1, <3>1
    <3> QED
      BY <3>1, <3>2
  <2> QED
    BY <1>4, <2>1, <2>2 DEF LastIs
<1>5. ASSUME Silent(q) PROVE Silent(z)
  <2> SUFFICES ASSUME NEW k \in DOMAIN z PROVE z[k] \notin NoWait
    BY DEF Silent
  <2>1. k + 1 \in DOMAIN q /\ z[k] = q[k + 1]
    BY <1>1
  <2> QED
    BY <1>5, <2>1 DEF Silent
<1>6. ASSUME Silent(z) PROVE Silent(q)
  <2> SUFFICES ASSUME NEW k \in DOMAIN q PROVE q[k] \notin NoWait
    BY DEF Silent
  <2>1. CASE k = 1
    BY <1>1, <2>1
  <2>2. CASE k # 1
    <3>1. k - 1 \in 1 .. Len(q) - 1 /\ (k - 1) + 1 = k
      BY <1>1, <2>2
    <3>2. z[k - 1] = q[k] /\ k - 1 \in DOMAIN z
      BY <1>1, <3>1
    <3> QED
      BY <1>6, <3>2 DEF Silent
  <2> QED
    BY <2>1, <2>2
<1> QED
  BY <1>1, <1>2, <1>3, <1>4, <1>5, <1>6 DEF z

(* The head of the queue has its reply.                                    *)
Replied(s) == [s EXCEPT !.r.cmd_queue = Tail(s.r.cmd_queue), !.r.pub_sent = FALSE]

LEMMA RepliedIs ==
    ASSUME NEW s \in EngineRec, s.r.cmd_queue # <<>>
    PROVE  LET u == Replied(s)
           IN  /\ u \in EngineRec /\ u.r.refs = s.r.refs
               /\ u.r.running = s.r.running /\ u.r.attached = s.r.attached
               /\ u.r.pub_sent = FALSE /\ u.r.io = s.r.io /\ u.r.ready = s.r.ready
               /\ u.r.cmd_queue = Tail(s.r.cmd_queue) /\ u.r.buf = s.r.buf
               /\ u.ios = s.ios /\ u.timers = s.timers /\ u.answers = s.answers
               /\ u.tasks = s.tasks
<1> DEFINE x == [s.r EXCEPT !.cmd_queue = Tail(s.r.cmd_queue), !.pub_sent = FALSE]
           u == [s EXCEPT !.r = x]
<1>1. s.r \in RRec /\ Tail(s.r.cmd_queue) \in Seq(Words)
  <2>1. s.r \in RRec /\ s.r.cmd_queue \in Seq(Words)
    BY DEF EngineRec, RRec
  <2> QED
    BY <2>1, TailIs
<1>2. /\ x \in RRec /\ x.refs = s.r.refs /\ x.running = s.r.running /\ x.attached = s.r.attached
      /\ x.pub_sent = FALSE /\ x.io = s.r.io /\ x.ready = s.r.ready
      /\ x.cmd_queue = Tail(s.r.cmd_queue) /\ x.buf = s.r.buf
  BY <1>1 DEF RRec
<1>3. Replied(s) = u
  BY DEF Replied
<1> HIDE DEF x
<1>4. /\ u \in EngineRec /\ u.r = x /\ u.ios = s.ios /\ u.tasks = s.tasks
      /\ u.timers = s.timers /\ u.answers = s.answers
  BY <1>2, SetR
<1> QED
  BY <1>2, <1>3, <1>4

LEMMA SetBufReplied ==
    ASSUME NEW s \in EngineRec, NEW b \in Seq(Frames), s.r.cmd_queue # <<>>
    PROVE  SetBuf(Replied(s), b) = Replied(SetBuf(s, b))
<1> DEFINE z == Tail(s.r.cmd_queue)
<1>1. SetBuf(s, b).r.cmd_queue = s.r.cmd_queue
  BY SetBufIs
<1>2. Replied(SetBuf(s, b)) = [SetBuf(s, b) EXCEPT !.r.cmd_queue = z, !.r.pub_sent = FALSE]
  BY <1>1 DEF Replied
<1>3. Replied(s) = [s EXCEPT !.r.cmd_queue = z, !.r.pub_sent = FALSE]
  BY DEF Replied
<1>4. z \in Seq(Words)
  BY Typed2, TailIs
<1> HIDE DEF z
<1>5. [[s EXCEPT !.r.cmd_queue = z, !.r.pub_sent = FALSE] EXCEPT !.r.buf = b]
        = [[s EXCEPT !.r.buf = b] EXCEPT !.r.cmd_queue = z, !.r.pub_sent = FALSE]
  BY <1>4 DEF EngineRec
<1> QED
  BY <1>2, <1>3, <1>5 DEF SetBuf

(* A reply moves the head of the queue into a task.                        *)
LEMMA OnPubIs ==
    ASSUME NEW d \in EngineRec, NEW b \in Seq(Frames), NEW f \in Frames, d.r.cmd_queue # <<>>,
           d.r.io \in {NoIo} \cup DOMAIN d.ios,
           \A k \in DOMAIN d.r.cmd_queue : d.r.cmd_queue[k] = "HELLO" => k = 1
    PROVE  LET t == Task("perform_callback", Head(d.r.cmd_queue), f)
           IN  /\ t \in TaskRec
               /\ OnPubMessage(d, f) \in EngineRec
               /\ OnPubMessage(d, f).r.buf = d.r.buf /\ OnPubMessage(d, f).r.io = d.r.io
               /\ SetBuf(OnPubMessage(d, f), b) = With(SendNextCmd(SetBuf(Replied(d), b)), t)
<1> DEFINE t == Task("perform_callback", Head(d.r.cmd_queue), f)
           v == Replied(d)
           x == SendNextCmd(v)
<1>1. Head(d.r.cmd_queue) \in Words /\ d.r.cmd_queue \in Seq(Words)
  BY Typed2, ContentsTail
<1>2. t \in TaskRec
  BY <1>1 DEF Task, TaskRec, Fns
<1>3. /\ v \in EngineRec /\ v.r.cmd_queue = Tail(d.r.cmd_queue) /\ v.r.io = d.r.io /\ v.ios = d.ios
      /\ v.r.buf = d.r.buf
  BY RepliedIs
<1>4. x \in EngineRec /\ x.r.buf = d.r.buf /\ x.r.io = d.r.io
  <2>1. \A k \in DOMAIN v.r.cmd_queue : v.r.cmd_queue[k] = "HELLO" => k = 1
    <3> SUFFICES ASSUME NEW k \in DOMAIN Tail(d.r.cmd_queue), Tail(d.r.cmd_queue)[k] = "HELLO" PROVE FALSE
      BY <1>3
    <3>1. /\ Len(d.r.cmd_queue) \in Nat /\ DOMAIN d.r.cmd_queue = 1 .. Len(d.r.cmd_queue)
          /\ DOMAIN Tail(d.r.cmd_queue) = 1 .. Len(d.r.cmd_queue) - 1
          /\ \A j \in 1 .. Len(d.r.cmd_queue) - 1 : Tail(d.r.cmd_queue)[j] = d.r.cmd_queue[j + 1]
      BY <1>1, TailIs
    <3>2. k + 1 \in DOMAIN d.r.cmd_queue /\ d.r.cmd_queue[k + 1] = "HELLO" /\ k + 1 # 1
      BY <3>1
    <3> QED
      BY <3>2
  <2>2. v.r.io \in {NoIo} \cup DOMAIN v.ios
    BY <1>3
  <2> HIDE DEF v
  <2> QED
    BY <1>3, <2>1, <2>2, SendRest
<1>5. OnPubMessage(d, f) = Defer(Dup(x), "perform_callback", Head(d.r.cmd_queue), f)
  BY DEF OnPubMessage, Replied
<1> HIDE DEF v, x
<1>6. OnPubMessage(d, f) = With(x, t)
  BY <1>4, <1>5, DeferIs DEF OwningTasks
<1> HIDE DEF t
<1>7. /\ With(x, t) \in EngineRec /\ With(x, t).r.buf = d.r.buf /\ With(x, t).r.io = d.r.io
      /\ SetBuf(With(x, t), b) = With(SetBuf(x, b), t)
  BY Zenon, <1>2, <1>4, WithIs, SetBufWith
<1>8. SetBuf(x, b) = SendNextCmd(SetBuf(v, b))
  BY <1>3, SetBufSend DEF x
<1> QED
  BY <1>2, <1>6, <1>7, <1>8 DEF t, v
(* What holds between two frames, of the state whose buffer holds what the *)
(* parser has not come to yet.                                             *)
Batch(s, a, p, n) ==
    /\ Core(s, a, p, n, TRUE) /\ s.r.io # NoIo /\ s.r.running = TRUE
    /\ Readers(s) = {} /\ ReadyOK(s) /\ DyingOK(s)
    /\ \A cmd \in Commands : PlaceOK(s, a, cmd)

LEMMA BatchStart ==
    ASSUME NEW s, NEW a, NEW p, NEW n \in Nat, Batch(s, a, p, n), s.r.buf # <<>>,
           Head(s.r.buf) # "garbage"
    PROVE  LET b == s.r.buf
               f == Head(b)
               i == s.r.io
           IN  /\ s \in EngineRec /\ s.r.ready = TRUE /\ i \in DOMAIN s.ios /\ s.r.refs > 0
               /\ b \in Seq(Frames) /\ Tail(b) \in Seq(Frames) /\ f \in Frames
               /\ Contents(b) = {f} \cup Contents(Tail(b))
               /\ ~Dying(s) /\ FrameOK(f, p)
               /\ Way(s) \in Seq(Frames) /\ Way(s) # <<>> /\ Way(s)[1] = f
               /\ Tail(Way(s)) = (Tail(b) \o s.ios[i].down) \o s.ios[i].up
               /\ InStep(Way(s), s.r.cmd_queue, s.r.pub_sent)
               /\ Live(s) /\ Greets(s.r.cmd_queue) =>
                    Tail(b) = <<>> /\ f \in IF s.ios[i].proto = "refused" THEN {"error", "garbage"} ELSE {"HELLO"}
               /\ Live(s) => s.ios[i].proto # "none"
<1> DEFINE b == s.r.buf
           f == Head(b)
           i == s.r.io
           down == s.ios[i].down
           up == s.ios[i].up
<1>1. /\ s \in EngineRec /\ Typed(s, p) /\ Counted(s, n) /\ Connected(s) /\ LockOK(s, p, TRUE)
      /\ i # NoIo /\ DyingOK(s) /\ i \in DOMAIN s.ios
  BY DEF Batch, Core, Base, Typed, Connected
<1>2. s.r.ready = TRUE
  BY <1>1, Typed2 DEF Connected
<1>3. s.r.refs > 0
  BY <1>1, Typed2 DEF Counted
<1>4. b \in Seq(Frames) /\ down \in Seq(Frames) /\ up \in Seq(Frames) /\ down \o up \in Seq(Frames)
      /\ Way(s) = b \o (down \o up) /\ Way(s) \in Seq(Frames)
  BY <1>1, WayType DEF Way
<1>5. b # <<>>
  OBVIOUS
<1> HIDE DEF b, down, up
<1>6. /\ Tail(b) \in Seq(Frames) /\ f \in Frames /\ Contents(b) = {f} \cup Contents(Tail(b))
      /\ Len(b) \in Nat /\ Len(b) >= 1 /\ Len(Tail(b)) = Len(b) - 1
  BY <1>4, <1>5, ContentsTail, TailIs
<1>7. ~Dying(s)
  BY <1>1, <1>5 DEF DyingOK, b
<1>8. FrameOK(f, p)
  BY <1>1, <1>6 DEF LockOK, FramesOK, b
<1>9. /\ Way(s) # <<>> /\ Way(s)[1] = f /\ Tail(Way(s)) = Tail(b) \o (down \o up)
      /\ Len(Way(s)) = Len(b) + Len(down \o up)
  <2> DEFINE z == down \o up
  <2>1. b \in Seq(Frames) /\ z \in Seq(Frames) /\ b # <<>> /\ Way(s) = b \o z
    BY <1>4, <1>5
  <2> HIDE DEF z
  <2>2. /\ b \o z # <<>> /\ Tail(b \o z) = Tail(b) \o z /\ (b \o z)[1] = Head(b)
        /\ Len(b \o z) = Len(b) + Len(z)
    BY ONLY <2>1, TailJoin
  <2> QED
    BY <2>1, <2>2 DEF z
<1>10. Tail(b) \o (down \o up) = (Tail(b) \o down) \o up
  <2> DEFINE z == Tail(b)
  <2>1. z \in Seq(Frames) /\ down \in Seq(Frames) /\ up \in Seq(Frames)
    BY <1>4, <1>6
  <2> HIDE DEF z
  <2>2. (z \o down) \o up = z \o (down \o up)
    BY ONLY <2>1, ConcatAssociative
  <2> QED
    BY <2>2 DEF z
<1>11. InStep(Way(s), s.r.cmd_queue, s.r.pub_sent)
  BY <1>1, <1>7 DEF LockOK, StepOK
<1>12. ASSUME Live(s), Greets(s.r.cmd_queue)
       PROVE  /\ Tail(b) = <<>> /\ f \in IF s.ios[i].proto = "refused" THEN {"error", "garbage"} ELSE {"HELLO"}
              /\ s.ios[i].proto # "none"
  <2>1. /\ Len(Way(s)) = 1
        /\ Way(s)[1] \in IF s.ios[i].proto = "refused" THEN {"error", "garbage"} ELSE {"HELLO"}
        /\ s.ios[i].proto = "none" => up = <<"HELLO">>
    BY <1>1, <1>12 DEF LockOK, GreetOK, up
  <2>2. Len(down \o up) \in Nat /\ Len(up) \in Nat /\ Len(down) \in Nat /\ Len(down \o up) = Len(down) + Len(up)
    BY <1>4, ConcatProperties, LenProperties
  <2>3. Len(b) = 1 /\ Len(up) = 0
    <3>1. Len(b) + (Len(down) + Len(up)) = 1
      BY <1>9, <2>1, <2>2
    <3> QED
      BY ONLY <3>1, <2>2, <1>6
  <2>4. Tail(b) = <<>>
    <3>1. Tail(b) # <<>> => Len(Tail(b)) \in Nat \ {0}
      BY ONLY <1>6, EmptySeq
    <3> QED
      BY <1>6, <2>3, <3>1
  <2>5. up # <<"HELLO">>
    <3>1. Len(<<"HELLO">>) = 1
      OBVIOUS
    <3> QED
      BY <2>3, <3>1
  <2> QED
    BY <1>9, <2>1, <2>4, <2>5
<1>13. Live(s) /\ s.ios[i].proto = "none" => Greets(s.r.cmd_queue)
  BY <1>1 DEF LockOK, GreetOK
<1> QED
  BY Zenon, <1>1, <1>2, <1>3, <1>4, <1>6, <1>7, <1>8, <1>9, <1>10, <1>11, <1>12, <1>13 DEF b, down, up

LEMMA PushStep ==
    ASSUME NEW s, NEW a, NEW p, NEW n \in Nat, Batch(s, a, p, n), s.r.buf # <<>>,
           Head(s.r.buf) = "push"
    PROVE  Batch(SetBuf(s, Tail(s.r.buf)), a, p, n)
<1> DEFINE b == s.r.buf
           f == Head(b)
           i == s.r.io
           q == s.r.cmd_queue
           u == SetBuf(s, Tail(b))
<1>1. /\ s \in EngineRec /\ s.r.ready = TRUE /\ i \in DOMAIN s.ios /\ s.r.refs > 0
      /\ b \in Seq(Frames) /\ Tail(b) \in Seq(Frames) /\ f \in Frames
      /\ Contents(b) = {f} \cup Contents(Tail(b))
      /\ ~Dying(s) /\ FrameOK(f, p)
      /\ Way(s) \in Seq(Frames) /\ Way(s) # <<>> /\ Way(s)[1] = f
      /\ Tail(Way(s)) = (Tail(b) \o s.ios[i].down) \o s.ios[i].up
      /\ InStep(Way(s), q, s.r.pub_sent)
      /\ Live(s) /\ Greets(q) => f \in IF s.ios[i].proto = "refused" THEN {"error", "garbage"} ELSE {"HELLO"}
      /\ Live(s) => s.ios[i].proto # "none"
  BY BatchStart
<1>2. /\ Typed(s, p) /\ Counted(s, n) /\ Connected(s) /\ LockOK(s, p, TRUE)
      /\ QueueOK(s) /\ AnswersOK(s, p) /\ SubsOK(s, a) /\ AllTold(s)
      /\ i # NoIo /\ s.r.running = TRUE /\ Readers(s) = {} /\ ReadyOK(s) /\ DyingOK(s)
      /\ \A cmd \in Commands : PlaceOK(s, a, cmd)
  BY DEF Batch, Core, Base
<1>3. /\ u \in EngineRec /\ u.r.refs = s.r.refs
      /\ u.r.running = s.r.running /\ u.r.attached = s.r.attached
      /\ u.r.pub_sent = s.r.pub_sent /\ u.r.io = s.r.io /\ u.r.ready = s.r.ready
      /\ u.r.cmd_queue = q /\ u.r.buf = Tail(b)
      /\ u.ios = s.ios /\ u.timers = s.timers /\ u.answers = s.answers
      /\ u.tasks = s.tasks
  BY Zenon, <1>1, SetBufIs
<1>4. f = "push"
  OBVIOUS
<1> HIDE DEF u, f, b
<1>5. Way(u) = Tail(Way(s))
  BY Zenon, <1>1, <1>3 DEF Way, Stream
<1>6. Live(u) = Live(s) /\ Dying(u) = Dying(s) /\ Continues(u) = Continues(s) /\ Readers(u) = Readers(s)
  BY <1>3 DEF Live, Dying, Continues, Readers
<1>7. StepOK(u, TRUE)
  <2>1. Way(s)[1] # "garbage" /\ ~Waited(Way(s)[1])
    BY Zenon, <1>1, <1>4 DEF Waited
  <2>2. InStep(Tail(Way(s)), q, s.r.pub_sent)
    BY Zenon, <1>1, <2>1, InStepTail
  <2> QED
    BY <1>3, <1>5, <2>2 DEF StepOK
<1>8. ~(Live(s) /\ Greets(q))
  BY Zenon, <1>1, <1>4
<1>9. GreetOK(u)
  BY Zenon, <1>1, <1>3, <1>6, <1>8 DEF GreetOK
<1>10. SentOK(u)
  <2> SUFFICES ASSUME Live(s), s.r.pub_sent, "garbage" \notin Contents(Tail(Way(s)))
               PROVE  \E k \in DOMAIN Tail(Way(s)) : Waited(Tail(Way(s))[k])
    BY <1>3, <1>5, <1>6 DEF SentOK
  <2> DEFINE way == Way(s)
  <2>1. way \in Seq(Frames) /\ way # <<>> /\ way[1] = "push"
    BY Zenon, <1>1, <1>4
  <2> HIDE DEF way
  <2>2. /\ Len(way) \in Nat /\ Len(way) >= 1 /\ DOMAIN way = 1 .. Len(way)
        /\ DOMAIN Tail(way) = 1 .. Len(way) - 1 /\ Head(way) = way[1]
        /\ \A k \in 1 .. Len(way) - 1 : Tail(way)[k] = way[k + 1]
    BY <2>1, TailIs
  <2>3. "garbage" \notin Contents(way)
    <3>1. Contents(way) = {Head(way)} \cup Contents(Tail(way))
      BY <2>1, ContentsTail
    <3> QED
      BY <2>1, <2>2, <3>1 DEF way
  <2>4. PICK k \in DOMAIN way : Waited(way[k])
    BY Zenon, <1>1, <1>2, <2>3 DEF LockOK, SentOK, way
  <2>5. k - 1 \in DOMAIN Tail(way) /\ Tail(way)[k - 1] = way[k]
    <3>1. k # 1
      BY <2>1, <2>4 DEF Waited
    <3>2. k - 1 \in 1 .. Len(way) - 1 /\ (k - 1) + 1 = k
      BY <2>2, <3>1
    <3> QED
      BY <2>2, <3>2
  <2> QED
    BY <2>4, <2>5 DEF way
<1>11. FramesOK(u, p)
  BY Zenon, <1>1, <1>2, <1>3 DEF LockOK, FramesOK, b
<1>12. Typed(u, p) /\ Counted(u, n)
  BY <1>2, <1>3 DEF Typed, Counted
<1>13. Connected(u)
  <2>1. \A j \in DOMAIN s.ios : IoOK(s, j)
    BY <1>2 DEF Connected
  <2>2. \A j \in DOMAIN s.ios : IoOK(u, j)
    BY <1>3, <2>1 DEF IoOK
  <2> QED
    BY Zenon, <1>1, <1>2, <1>3, <2>2 DEF Connected
<1>14. QueueOK(u) /\ AnswersOK(u, p) /\ AllTold(u)
  BY <1>2, <1>3 DEF QueueOK, AnswersOK, AllTold, Told
<1>15. SubsOK(u, a)
  BY <1>2, <1>3, <1>6 DEF SubsOK
<1>16. ReadyOK(u) /\ DyingOK(u)
  <2>1. \A j : Readies(u, j) = Readies(s, j)
    BY <1>3 DEF Readies
  <2> QED
    BY Zenon, <1>1, <1>2, <1>3, <1>6, <2>1 DEF ReadyOK, DyingOK
<1>17. \A cmd \in Commands : PlaceOK(u, a, cmd)
  <2>1. \A cmd : InTasks(u, cmd) = InTasks(s, cmd)
    BY <1>3 DEF InTasks
  <2> QED
    BY <1>2, <1>3, <2>1, PlacesSame
<1> QED
  BY Zenon, <1>2, <1>3, <1>6, <1>7, <1>9, <1>10, <1>11, <1>12, <1>13, <1>14, <1>15, <1>16, <1>17
     DEF Batch, Core, Base, LockOK, u, b
LEMMA ReplyStep ==
    ASSUME NEW s, NEW a, NEW p, NEW n \in Nat, Batch(s, a, p, n), s.r.buf # <<>>,
           Head(s.r.buf) # "push", Head(s.r.buf) # "garbage"
    PROVE  /\ s.r.cmd_queue # <<>>
           /\ \A k \in DOMAIN s.r.cmd_queue : s.r.cmd_queue[k] = "HELLO" => k = 1
           /\ Batch(With(SendNextCmd(SetBuf(Replied(s), Tail(s.r.buf))),
                         Task("perform_callback", Head(s.r.cmd_queue), Head(s.r.buf))), a, p, n)
<1> DEFINE b == s.r.buf
           f == Head(b)
           i == s.r.io
           q == s.r.cmd_queue
           v == SetBuf(Replied(s), Tail(b))
           x == SendNextCmd(v)
           t == Task("perform_callback", Head(q), f)
           u == With(x, t)
<1>1. /\ s \in EngineRec /\ s.r.ready = TRUE /\ i \in DOMAIN s.ios /\ s.r.refs > 0
      /\ b \in Seq(Frames) /\ Tail(b) \in Seq(Frames) /\ f \in Frames
      /\ Contents(b) = {f} \cup Contents(Tail(b))
      /\ ~Dying(s) /\ FrameOK(f, p)
      /\ Way(s) \in Seq(Frames) /\ Way(s) # <<>> /\ Way(s)[1] = f
      /\ Tail(Way(s)) = (Tail(b) \o s.ios[i].down) \o s.ios[i].up
      /\ InStep(Way(s), q, s.r.pub_sent)
      /\ Live(s) /\ Greets(q) =>
           Tail(b) = <<>> /\ f \in IF s.ios[i].proto = "refused" THEN {"error", "garbage"} ELSE {"HELLO"}
      /\ Live(s) => s.ios[i].proto # "none"
  BY Zenon, BatchStart
<1>2. /\ Typed(s, p) /\ Counted(s, n) /\ Connected(s) /\ LockOK(s, p, TRUE)
      /\ QueueOK(s) /\ AnswersOK(s, p) /\ SubsOK(s, a) /\ AllTold(s)
      /\ i # NoIo /\ s.r.running = TRUE /\ Readers(s) = {} /\ ReadyOK(s) /\ DyingOK(s)
      /\ \A cmd \in Commands : PlaceOK(s, a, cmd)
  BY Zenon DEF Batch, Core, Base
<1>3. f # "push" /\ f # "garbage"
  OBVIOUS
<1>4. NoneComes(Tail(Way(s))) /\ Replies(f, q)
  <2>1. f \notin NoWait
    BY Zenon, <1>1 DEF FrameOK
  <2>2. Way(s)[1] # "garbage" /\ Waited(Way(s)[1])
    BY Zenon, <1>1, <1>3, <2>1 DEF Waited
  <2> QED
    BY Zenon, <1>1, <2>2, InStepTail
<1>5. q # <<>> /\ q \in Seq(Words) /\ \A k \in DOMAIN q : q[k] = "HELLO" => k = 1
  BY Zenon, <1>1, <1>2, <1>4, Typed2 DEF Replies, QueueOK
<1>6. Head(q) \in Words /\ Head(q) \notin NoWait /\ (f = Head(q) \/ (f = "error" /\ Head(q) = "HELLO"))
  <2>1. Head(q) \in Words
    BY <1>5, TailIs
  <2>2. f \notin NoWait /\ "HELLO" \notin NoWait
    BY Zenon, <1>1 DEF FrameOK, NoWait
  <2> QED
    BY <1>4, <2>1, <2>2 DEF Replies
<1>7. /\ Tail(q) \in Seq(Words)
      /\ \A k \in DOMAIN Tail(q) : Tail(q)[k] # "HELLO"
      /\ ~Greets(Tail(q))
      /\ \A y : LastIs(q, y) => LastIs(Tail(q), y)
      /\ Silent(Tail(q)) <=> Silent(q)
  BY <1>5, <1>6, QueueTail
<1>8. /\ v \in EngineRec /\ v.r.refs = s.r.refs
      /\ v.r.running = s.r.running /\ v.r.attached = s.r.attached
      /\ v.r.pub_sent = FALSE /\ v.r.io = s.r.io /\ v.r.ready = s.r.ready
      /\ v.r.cmd_queue = Tail(q) /\ v.r.buf = Tail(b)
      /\ v.ios = s.ios /\ v.timers = s.timers /\ v.answers = s.answers
      /\ v.tasks = s.tasks
  <2> DEFINE z == Replied(s)
  <2>1. /\ z \in EngineRec /\ z.r.refs = s.r.refs
        /\ z.r.running = s.r.running /\ z.r.attached = s.r.attached
        /\ z.r.pub_sent = FALSE /\ z.r.io = s.r.io /\ z.r.ready = s.r.ready
        /\ z.r.cmd_queue = Tail(q)
        /\ z.ios = s.ios /\ z.timers = s.timers /\ z.answers = s.answers
        /\ z.tasks = s.tasks
    BY Zenon, <1>1, <1>5, RepliedIs
  <2> HIDE DEF z
  <2>2. LET w == SetBuf(z, Tail(b))
        IN  /\ w \in EngineRec /\ w.r.refs = z.r.refs
            /\ w.r.running = z.r.running /\ w.r.attached = z.r.attached
            /\ w.r.pub_sent = z.r.pub_sent /\ w.r.io = z.r.io /\ w.r.ready = z.r.ready
            /\ w.r.cmd_queue = z.r.cmd_queue /\ w.r.buf = Tail(b)
            /\ w.ios = z.ios /\ w.timers = z.timers /\ w.answers = z.answers
            /\ w.tasks = z.tasks
    BY Zenon, <1>1, <2>1, SetBufIs
  <2> QED
    BY <2>1, <2>2 DEF z
<1> HIDE DEF v, b, f, q
<1>9. Way(v) = Tail(Way(s)) /\ Live(v) = Live(s)
  BY Zenon, <1>1, <1>8 DEF Way, Stream, Live, b
<1>10. Sendable(v, TRUE)
  <2>1. v.r.io # NoIo /\ v.r.ready = TRUE /\ v.r.pub_sent = FALSE
    BY Zenon, <1>1, <1>2, <1>8
  <2>2. Live(v) => ~Greets(v.r.cmd_queue) /\ v.ios[v.r.io].proto # "none"
    BY Zenon, <1>1, <1>7, <1>8, <1>9
  <2> QED
    BY <1>4, <1>7, <1>8, <1>9, <2>1, <2>2 DEF Sendable
<1>11. Steady(v, a, p, n) /\ AllTold(v)
  <2>1. Typed(v, p) /\ Counted(v, n)
    BY Zenon, <1>1, <1>2, <1>8 DEF Typed, Counted
  <2>2. \A j \in DOMAIN s.ios : IoOK(v, j)
    BY <1>2, <1>8 DEF Connected, IoOK
  <2>3. Connected(v)
    BY Zenon, <1>1, <1>2, <1>8, <2>2 DEF Connected
  <2>4. FramesOK(v, p) /\ AnswersOK(v, p)
    <3>1. FramesOK(v, p)
      BY Zenon, <1>1, <1>2, <1>8 DEF LockOK, FramesOK, b
    <3>2. AnswersOK(v, p)
      BY <1>2, <1>8 DEF AnswersOK
    <3> QED
      BY <3>1, <3>2
  <2>5. AllTold(v)
    BY <1>2, <1>8 DEF AllTold, Told
  <2>6. SubsOK(v, a)
    BY <1>2, <1>7, <1>8, <1>9 DEF SubsOK, q
  <2> QED
    BY <2>1, <2>3, <2>4, <2>5, <2>6 DEF Steady
<1>12. Core(x, a, p, n, TRUE)
  BY Zenon, <1>10, <1>11, SendCore
<1>13. /\ x \in EngineRec /\ x.r.refs = v.r.refs
       /\ x.r.running = v.r.running /\ x.r.io = v.r.io /\ x.r.ready = v.r.ready /\ x.r.buf = v.r.buf
       /\ x.tasks = v.tasks
       /\ DOMAIN x.ios = DOMAIN v.ios
       /\ Dying(x) = Dying(v) /\ Readers(x) = Readers(v)
       /\ ReadyOK(v) => ReadyOK(x)
       /\ \A cmd : cmd \in Commands /\ PlaceOK(v, a, cmd) => PlaceOK(x, a, cmd)
       /\ x.answers = v.answers
  <2>1. v \in EngineRec /\ v.r.io \in {NoIo} \cup DOMAIN v.ios
        /\ \A k \in DOMAIN v.r.cmd_queue : v.r.cmd_queue[k] = "HELLO" => k = 1
    BY Zenon, <1>1, <1>7, <1>8
  <2> QED
    BY <2>1, SendRest
<1> HIDE DEF x
<1>14. t \in TaskRec /\ t.fn = "perform_callback" /\ t.arg = Head(q) /\ t.reply = f
  BY Zenon, <1>1, <1>6 DEF Task, TaskRec, Fns
<1>15. TaskOK(t, x.ios, p)
  <2>1. Head(q) \in Commands \cup {"HELLO", "PING"}
    BY <1>6 DEF Words
  <2>2. f = "error" => p.refused
    BY Zenon, <1>1 DEF FrameOK
  <2> QED
    BY <1>6, <1>14, <2>1, <2>2 DEF TaskOK
<1> HIDE DEF t
<1>16. Core(u, a, p, n, TRUE)
  <2>1. Owned(t) => x.r.refs > 0
    BY Zenon, <1>1, <1>8, <1>13
  <2> QED
    BY Zenon, <1>12, <1>14, <1>15, <2>1, WithCore
<1>17. /\ u \in EngineRec /\ u.r.running = x.r.running /\ u.r.io = x.r.io
       /\ u.r.cmd_queue = x.r.cmd_queue /\ u.r.buf = x.r.buf /\ u.r.ready = x.r.ready
       /\ u.ios = x.ios /\ u.answers = x.answers
       /\ Contents(u.tasks) = Contents(x.tasks) \cup {t}
       /\ u.tasks = Append(x.tasks, t) /\ x.tasks \in Seq(TaskRec)
  BY <1>13, <1>14, WithIs, Typed2
<1>18. Readers(u) = {}
  <2>1. ~Reads(t, x.r.io)
    BY <1>14 DEF Reads
  <2>2. Readers(v) = Readers(s)
    BY <1>8 DEF Readers
  <2> QED
    BY <1>2, <1>13, <1>14, <2>1, <2>2, WithReaders
<1> HIDE DEF u
<1>19. ReadyOK(u)
  <2>1. \A j : Readies(v, j) = Readies(s, j)
    BY <1>8 DEF Readies
  <2>2. ReadyOK(x)
    BY <1>2, <1>8, <1>13, <2>1 DEF ReadyOK
  <2>3. \A j : Readies(u, j) = Readies(x, j)
    <3>1. \A j : t \notin Promoting(j)
      BY <1>14 DEF Promoting
    <3>2. \A j : At(Append(x.tasks, t), Promoting(j)) = At(x.tasks, Promoting(j))
      BY <1>14, <1>17, <3>1, AtAppend
    <3>3. \A j : Readies(u, j) = At(u.tasks, Promoting(j)) /\ Readies(x, j) = At(x.tasks, Promoting(j))
      BY <1>13, <1>17, TasksAt
    <3> QED
      BY <1>17, <3>2, <3>3
  <2> QED
    BY <1>17, <2>2, <2>3 DEF ReadyOK
<1>20. DyingOK(u)
  <2> SUFFICES ASSUME Dying(u)
               PROVE  u.r.buf = <<>> /\ Refusal \in Contents(u.tasks)
    BY <1>18 DEF DyingOK
  <2>1. Dying(x)
    BY <1>17 DEF Dying, Live
  <2>2. Live(s) /\ s.ios[i].proto = "refused" /\ Greets(q)
    BY Zenon, <1>1, <1>8, <1>9, <1>13, <2>1 DEF Dying, q
  <2>3. Tail(b) = <<>> /\ f = "error"
    BY Zenon, <1>1, <1>3, <2>2
  <2>4. t = Refusal
    BY <2>2, <2>3 DEF t, Refusal, Greets
  <2> QED
    BY <1>8, <1>13, <1>17, <2>3, <2>4
<1>21. ASSUME NEW cmd \in Commands PROVE PlaceOK(u, a, cmd)
  <2>1. PlaceOK(s, a, cmd)
    BY <1>2
  <2>2. /\ InTasks(v, cmd) = InTasks(s, cmd) /\ Answered(v, cmd) = Answered(s, cmd)
        /\ InQueue(v, cmd) = At(Tail(q), {cmd}) /\ InQueue(s, cmd) = At(q, {cmd})
    BY <1>8 DEF InTasks, Answered, InQueue, At, q
  <2>3. /\ At(Tail(q), {cmd}) # {} => At(q, {cmd}) # {}
        /\ Head(q) \notin {cmd} /\ At(q, {cmd}) # {} => At(Tail(q), {cmd}) # {}
        /\ Single(At(q, {cmd})) => Single(At(Tail(q), {cmd}))
        /\ Single(At(q, {cmd})) /\ Head(q) \in {cmd} => At(Tail(q), {cmd}) = {}
        /\ Head(q) \in {cmd} => At(q, {cmd}) # {}
    BY <1>5, AtTail
  <2>4. CASE cmd # Head(q)
    <3>1. PlaceOK(v, a, cmd)
      BY <2>1, <2>2, <2>3, <2>4 DEF PlaceOK
    <3>2. PlaceOK(x, a, cmd)
      BY <1>13, <3>1
    <3>3. ~Carries(t, cmd)
      BY <1>14, <2>4 DEF Carries
    <3> QED
      BY <1>13, <1>14, <3>2, <3>3, WithPlace DEF u
  <2>5. CASE cmd = Head(q)
    <3>1. InQueue(s, cmd) # {} /\ InQueue(v, cmd) = {}
      BY <2>1, <2>2, <2>3, <2>5 DEF PlaceOK
    <3>2. cmd \in a.sent /\ cmd \notin a.calls /\ InTasks(s, cmd) = {} /\ Answered(s, cmd) = {}
      BY <2>1, <3>1 DEF PlaceOK
    <3>3. InQueue(x, cmd) = {}
      <4> DEFINE c == [sent |-> {}, calls |-> {}]
      <4>1. PlaceOK(v, c, cmd)
        BY <2>2, <3>1, <3>2 DEF PlaceOK, Single
      <4>2. PlaceOK(x, c, cmd)
        <5>1. v \in EngineRec /\ v.r.io \in {NoIo} \cup DOMAIN v.ios
              /\ \A k \in DOMAIN v.r.cmd_queue : v.r.cmd_queue[k] = "HELLO" => k = 1
          BY Zenon, <1>1, <1>7, <1>8
        <5> HIDE DEF c
        <5> QED
          BY <4>1, <5>1, SendRest DEF x
      <4>3. cmd \notin c.sent
        OBVIOUS
      <4> HIDE DEF c
      <4> QED
        BY <4>2, <4>3 DEF PlaceOK
    <3>4. InTasks(x, cmd) = {} /\ Answered(x, cmd) = {}
      BY <1>13, <2>2, <3>2 DEF InTasks, Answered
    <3>5. InTasks(u, cmd) = InTasks(x, cmd) \cup {Len(x.tasks) + 1}
      <4>1. Carries(t, cmd)
        BY <1>14, <2>5 DEF Carries
      <4> QED
        BY <1>13, <1>14, <4>1, WithCarried DEF u
    <3>6. InQueue(u, cmd) = {} /\ Answered(u, cmd) = {}
      BY <1>17, <3>3, <3>4 DEF InQueue, Answered
    <3> QED
      BY <3>2, <3>4, <3>5, <3>6 DEF PlaceOK, Single
  <2> QED
    BY <2>4, <2>5
<1>22. u.r.io # NoIo /\ u.r.running = TRUE
  BY <1>2, <1>8, <1>13, <1>17
<1> QED
  BY Zenon, <1>5, <1>16, <1>18, <1>19, <1>20, <1>21, <1>22 DEF Batch, u, x, v, t, b, f, q
LEMMA FrameStep ==
    ASSUME NEW d \in EngineRec, NEW b \in Seq(Frames), b # <<>>, Head(b) # "garbage",
           NEW a, NEW p, NEW n \in Nat, Batch(SetBuf(d, b), a, p, n)
    PROVE  LET e == OnFrame(d, Head(b))
           IN  /\ e \in EngineRec /\ e.r.buf = d.r.buf /\ e.r.io = d.r.io
               /\ Batch(SetBuf(e, Tail(b)), a, p, n)
<1> DEFINE s == SetBuf(d, b)
           f == Head(b)
           c == Tail(b)
           q == d.r.cmd_queue
<1>1. /\ s \in EngineRec /\ s.r.buf = b /\ s.r.cmd_queue = q /\ s.r.io = d.r.io /\ s.ios = d.ios
  BY SetBufIs
<1>2. f \in Frames /\ c \in Seq(Frames)
  BY TailIs
<1>3. SetBuf(s, c) = SetBuf(d, c)
  <2> HIDE DEF c
  <2> QED
    BY <1>2, SetBufTwice
<1>4. CASE f = "push"
  <2>1. OnFrame(d, f) = d
    BY <1>4 DEF OnFrame
  <2>2. Batch(SetBuf(s, Tail(s.r.buf)), a, p, n)
    <3>1. Batch(s, a, p, n) /\ s.r.buf # <<>> /\ Head(s.r.buf) = "push"
      BY <1>1, <1>4
    <3> HIDE DEF s
    <3> QED
      BY ONLY <3>1, n \in Nat, PushStep
  <2> QED
    BY <1>1, <1>3, <2>1, <2>2
<1>5. CASE f # "push"
  <2>1. OnFrame(d, f) = OnPubMessage(d, f)
    BY <1>5 DEF OnFrame
  <2>2. /\ q # <<>>
        /\ \A k \in DOMAIN q : q[k] = "HELLO" => k = 1
        /\ Batch(With(SendNextCmd(SetBuf(Replied(s), c)), Task("perform_callback", Head(q), f)), a, p, n)
    <3>1. Batch(s, a, p, n) /\ s.r.buf # <<>> /\ Head(s.r.buf) # "push" /\ Head(s.r.buf) # "garbage"
      BY <1>1, <1>5
    <3> HIDE DEF s
    <3>2. /\ s.r.cmd_queue # <<>>
          /\ \A k \in DOMAIN s.r.cmd_queue : s.r.cmd_queue[k] = "HELLO" => k = 1
          /\ Batch(With(SendNextCmd(SetBuf(Replied(s), Tail(s.r.buf))),
                         Task("perform_callback", Head(s.r.cmd_queue), Head(s.r.buf))), a, p, n)
      BY ONLY <3>1, n \in Nat, ReplyStep
    <3> QED
      BY <1>1, <3>2
  <2>3. d.r.io \in {NoIo} \cup DOMAIN d.ios
    <3>1. Connected(s)
      BY DEF Batch, Core, Base
    <3> QED
      BY <1>1, <3>1 DEF Connected
  <2>4. SetBuf(Replied(s), c) = SetBuf(Replied(d), c)
    <3>1. Replied(s) = SetBuf(Replied(d), b)
      BY <2>2, SetBufReplied
    <3>2. Replied(d) \in EngineRec
      BY <2>2, RepliedIs
    <3> HIDE DEF c, s
    <3> QED
      BY <1>2, <3>1, <3>2, SetBufTwice
  <2> HIDE DEF c, f, s
  <2>5. LET t == Task("perform_callback", Head(d.r.cmd_queue), f)
        IN  /\ OnPubMessage(d, f) \in EngineRec
            /\ OnPubMessage(d, f).r.buf = d.r.buf /\ OnPubMessage(d, f).r.io = d.r.io
            /\ SetBuf(OnPubMessage(d, f), c) = With(SendNextCmd(SetBuf(Replied(d), c)), t)
    BY ONLY <1>2, <2>2, <2>3, d \in EngineRec, OnPubIs DEF q
  <2> QED
    BY <2>1, <2>2, <2>4, <2>5 DEF c, f
<1> QED
  BY <1>4, <1>5

(* The parser's loop.                                                      *)
Parses(s, m, h) == h = [k \in 0 .. m |-> IF k = 0 THEN s ELSE OnFrame(h[k - 1], s.r.buf[k])]
Done(s, m) == CHOOSE h : Parses(s, m, h)

LEMMA ParsesExists ==
    ASSUME NEW s, NEW m \in Nat
    PROVE  Parses(s, m, Done(s, m))
<1> DEFINE T == {j \in Nat : \E h : Parses(s, j, h)}
<1>1. 0 \in T
  <2> DEFINE h == [k \in 0 .. 0 |-> s]
  <2>1. Parses(s, 0, h)
    BY DEF Parses
  <2> QED
    BY <2>1
<1>2. ASSUME NEW j \in T PROVE j + 1 \in T
  <2>1. PICK h : h = [k \in 0 .. j |-> IF k = 0 THEN s ELSE OnFrame(h[k - 1], s.r.buf[k])]
    BY <1>2 DEF Parses
  <2>2. j \in Nat
    OBVIOUS
  <2> DEFINE g == [k \in 0 .. j + 1 |-> IF k = j + 1 THEN OnFrame(h[j], s.r.buf[j + 1]) ELSE h[k]]
             e == [k \in 0 .. j + 1 |-> IF k = 0 THEN s ELSE OnFrame(g[k - 1], s.r.buf[k])]
  <2>3. ASSUME NEW k \in 0 .. j + 1
        PROVE  g[k] = IF k = 0 THEN s ELSE OnFrame(g[k - 1], s.r.buf[k])
    <3>1. CASE k = 0
      BY <2>1, <2>2, <3>1
    <3>2. CASE k = j + 1
      <4>1. k # 0 /\ k - 1 = j /\ j # j + 1 /\ j \in 0 .. j + 1
        BY <2>2, <3>2
      <4>2. g[j] = h[j] /\ g[k] = OnFrame(h[j], s.r.buf[j + 1])
        BY <2>2, <3>2, <4>1
      <4> QED
        BY <3>2, <4>1, <4>2
    <3>3. CASE k # 0 /\ k # j + 1
      <4>1. k \in 0 .. j /\ k - 1 \in 0 .. j + 1 /\ k - 1 # j + 1
        BY <2>2, <3>3
      <4>2. g[k] = h[k] /\ g[k - 1] = h[k - 1]
        BY <3>3, <4>1
      <4>3. h[k] = OnFrame(h[k - 1], s.r.buf[k])
        BY <2>1, <3>3, <4>1
      <4> QED
        BY <3>3, <4>2, <4>3
    <3> QED
      BY <3>1, <3>2, <3>3
  <2>4. g = e
    BY <2>3
  <2>5. Parses(s, j + 1, g)
    BY <2>4 DEF Parses
  <2> HIDE DEF g, e
  <2> QED
    BY <2>2, <2>5
<1>3. T = Nat
  <2> HIDE DEF T
  <2>1. T \in SUBSET Nat
    BY DEF T
  <2> QED
    BY <1>1, <1>2, <2>1, Induction
<1>4. \E h : Parses(s, m, h)
  BY <1>3
<1> QED
  BY <1>4 DEF Done

LEMMA RestIs ==
    ASSUME NEW V, NEW q \in Seq(V), NEW k \in Nat, k < Len(q)
    PROVE  LET z == SubSeq(q, k + 1, Len(q))
           IN  z \in Seq(V) /\ z # <<>> /\ Head(z) = q[k + 1] /\ Tail(z) = SubSeq(q, k + 2, Len(q))
<1> DEFINE z == SubSeq(q, k + 1, Len(q))
           y == SubSeq(q, k + 2, Len(q))
           n == Len(q)
<1>1. n \in Nat /\ DOMAIN q = 1 .. n
  BY LenProperties
<1>2. /\ z \in Seq(V) /\ Len(z) = n - k /\ \A j \in 1 .. n - k : z[j] = q[k + j]
  <2> HIDE DEF n
  <2>1. k + 1 \in DOMAIN q
    BY <1>1 DEF n
  <2>2. /\ z \in Seq(V) /\ Len(z) = Len(q) - (k + 1) + 1
        /\ \A j \in 1 .. Len(q) - (k + 1) + 1 : z[j] = q[(k + 1) + j - 1]
    BY <2>1, Cut
  <2>3. Len(q) - (k + 1) + 1 = n - k /\ \A j \in 1 .. n - k : (k + 1) + j - 1 = k + j
    BY <1>1 DEF n
  <2> HIDE DEF z
  <2> QED
    BY <2>2, <2>3
<1>3. y \in Seq(V) /\ Len(y) = n - k - 1 /\ \A j \in 1 .. n - k - 1 : y[j] = q[k + 1 + j]
  <2>1. CASE k + 1 = n
    <3>1. y = <<>>
      <4>1. k + 2 \in Int /\ n \in Int /\ n < k + 2
        BY <1>1, <2>1
      <4> QED
        BY <4>1, SubSeqEmpty
    <3>2. <<>> \in Seq(V) /\ Len(<<>>) = 0
      BY EmptySeq
    <3>3. n - k - 1 = 0
      <4> HIDE DEF n
      <4> QED
        BY <1>1, <2>1
    <3> HIDE DEF y, n
    <3> QED
      BY <3>1, <3>2, <3>3
  <2>2. CASE k + 1 # n
    <3> HIDE DEF n
    <3>1. k + 2 \in DOMAIN q
      <4>1. k < n
        BY DEF n
      <4>2. k + 2 \in 1 .. n
        BY <1>1, <2>2, <4>1
      <4> QED
        BY <1>1, <4>2
    <3>2. /\ y \in Seq(V) /\ Len(y) = Len(q) - (k + 2) + 1
          /\ \A j \in 1 .. Len(q) - (k + 2) + 1 : y[j] = q[(k + 2) + j - 1]
      BY <3>1, Cut
    <3>3. Len(q) - (k + 2) + 1 = n - k - 1 /\ \A j \in 1 .. n - k - 1 : (k + 2) + j - 1 = k + 1 + j
      BY <1>1 DEF n
    <3> HIDE DEF y
    <3> QED
      BY <3>2, <3>3
  <2> QED
    BY <2>1, <2>2
<1>k. k < n
  OBVIOUS
<1> HIDE DEF z, y, n
<1>4. z # <<>> /\ n - k >= 1
  <2>1. n - k >= 1 /\ Len(z) # 0
    BY <1>1, <1>2, <1>k
  <2>2. Len(<<>>) = 0
    OBVIOUS
  <2> QED
    BY <2>1, <2>2
<1>5. Tail(z) \in Seq(V) /\ Len(Tail(z)) = n - k - 1 /\ (\A j \in 1 .. n - k - 1 : Tail(z)[j] = z[j + 1]) /\ Head(z) = z[1]
  <2>1. /\ Tail(z) \in Seq(V) /\ Len(Tail(z)) = Len(z) - 1 /\ (\A j \in 1 .. Len(z) - 1 : Tail(z)[j] = z[j + 1])
        /\ Head(z) = z[1]
    BY <1>2, <1>4, TailIs
  <2> QED
    BY <1>2, <2>1
<1>6. ASSUME NEW j \in 1 .. n - k - 1 PROVE Tail(z)[j] = y[j]
  <2>1. j + 1 \in 1 .. n - k /\ k + (j + 1) = k + 1 + j
    BY <1>1
  <2>2. z[j + 1] = q[k + (j + 1)]
    BY <1>2, <2>1
  <2> QED
    BY <1>3, <1>5, <2>1, <2>2
<1>7. Tail(z) = y
  <2> DEFINE x == Tail(z)
  <2>1. x \in Seq(V) /\ y \in Seq(V) /\ Len(x) = Len(y) /\ \A j \in 1 .. Len(x) : x[j] = y[j]
    BY <1>3, <1>5, <1>6
  <2> HIDE DEF x
  <2>2. x = y
    BY ONLY <2>1, SeqEqual
  <2> QED
    BY <2>2 DEF x
<1>8. Head(z) = q[k + 1]
  BY <1>1, <1>2, <1>4, <1>5
<1> QED
  BY <1>2, <1>4, <1>7, <1>8 DEF z, y, n
(* How far a batch goes.                                                   *)
Bound(s) == IF Len(s.r.buf) > MaxBatch THEN MaxBatch ELSE Len(s.r.buf)
Left(s, k) == SubSeq(s.r.buf, k + 1, Len(s.r.buf))

LEMMA ParseIs ==
    ASSUME NEW s \in EngineRec, NEW i
    PROVE  \E g \in 0 .. Bound(s) :
             /\ \A k \in 1 .. g : s.r.buf[k] # "garbage"
             /\ \/ /\ g < Bound(s) /\ s.r.buf[g + 1] = "garbage"
                   /\ ParseBuffered(s, i) = CloseNow(Done(s, Bound(s))[g], i)
                \/ LET kept == SetBuf(Done(s, Bound(s))[g], Left(s, g))
                   IN  ParseBuffered(s, i) =
                         IF Left(s, g) = <<>> THEN kept ELSE Defer(Dup(kept), "continue", NoIo, "none")
<1> DEFINE buf == s.r.buf
           n == Bound(s)
           bad == {k \in 1..n : buf[k] = "garbage"}
           good == IF bad = {} THEN n ELSE (CHOOSE k \in bad : \A m \in bad : k <= m) - 1
           kept == SetBuf(Done(s, n)[good], Left(s, n))
<1>1. ParseBuffered(s, i) =
        IF bad # {} THEN CloseNow(Done(s, n)[good], i)
        ELSE IF Left(s, n) = <<>> THEN kept ELSE Defer(Dup(kept), "continue", NoIo, "none")
  BY DEF ParseBuffered, Done, Parses, Bound, Left, SetBuf
<1>2. n \in Nat /\ n <= Len(buf)
  BY RedisAssumption, Typed2, LenProperties DEF Bound
<1>3. CASE bad = {}
  <2>1. good = n /\ \A k \in 1 .. n : buf[k] # "garbage"
    BY <1>3
  <2>2. ParseBuffered(s, i) =
          IF Left(s, n) = <<>> THEN SetBuf(Done(s, n)[n], Left(s, n))
          ELSE Defer(Dup(SetBuf(Done(s, n)[n], Left(s, n))), "continue", NoIo, "none")
    BY <1>1, <1>3, <2>1
  <2>3. n \in 0 .. Bound(s) /\ \A k \in 1 .. n : s.r.buf[k] # "garbage"
    BY <1>2, <2>1
  <2> DEFINE g == Bound(s)
  <2>4. /\ g \in 0 .. Bound(s) /\ \A k \in 1 .. g : s.r.buf[k] # "garbage"
        /\ ParseBuffered(s, i) =
             IF Left(s, g) = <<>> THEN SetBuf(Done(s, Bound(s))[g], Left(s, g))
             ELSE Defer(Dup(SetBuf(Done(s, Bound(s))[g], Left(s, g))), "continue", NoIo, "none")
    BY <2>2, <2>3
  <2> HIDE DEF g
  <2> QED
    BY <2>4
<1>4. CASE bad # {}
  <2> DEFINE k == CHOOSE j \in bad : \A m \in bad : j <= m
  <2>1. bad \in SUBSET Nat
    BY <1>2
  <2>2. \E j \in bad : \A m \in bad : j <= m
    <3> HIDE DEF bad
    <3> QED
      BY <1>4, <2>1, Least
  <2>3. k \in bad /\ \A m \in bad : k <= m
    <3> HIDE DEF bad
    <3> QED
      BY <2>2
  <2>4. good = k - 1
    BY <1>4
  <2> HIDE DEF k, good
  <2>5. k \in 1 .. n /\ buf[k] = "garbage"
    BY <2>3
  <2>6. k - 1 \in 0 .. n /\ k - 1 < n /\ (k - 1) + 1 = k
    BY <1>2, <2>5
  <2>7. ASSUME NEW j \in 1 .. k - 1 PROVE buf[j] # "garbage"
    <3>1. j \in 1 .. n /\ ~(k <= j)
      BY <1>2, <2>5
    <3> QED
      BY <2>3, <3>1
  <2>8. ParseBuffered(s, i) = CloseNow(Done(s, n)[k - 1], i)
    BY <1>1, <1>4, <2>4
  <2> HIDE DEF n, buf, bad
  <2>9. /\ \A j \in 1 .. k - 1 : s.r.buf[j] # "garbage"
        /\ k - 1 < Bound(s) /\ s.r.buf[(k - 1) + 1] = "garbage"
        /\ ParseBuffered(s, i) = CloseNow(Done(s, Bound(s))[k - 1], i)
        /\ k - 1 \in 0 .. Bound(s)
    BY <2>5, <2>6, <2>7, <2>8 DEF n, buf
  <2> DEFINE g == k - 1
  <2>10. /\ g \in 0 .. Bound(s) /\ \A j \in 1 .. g : s.r.buf[j] # "garbage"
         /\ g < Bound(s) /\ s.r.buf[g + 1] = "garbage"
         /\ ParseBuffered(s, i) = CloseNow(Done(s, Bound(s))[g], i)
    BY <2>9
  <2> HIDE DEF g
  <2> QED
    BY <2>10
<1> QED
  BY <1>3, <1>4
LEMMA BatchTo ==
    ASSUME NEW s, NEW a, NEW p, NEW n \in Nat, Batch(s, a, p, n), NEW g \in 0 .. Bound(s),
           \A k \in 1 .. g : s.r.buf[k] # "garbage"
    PROVE  LET d == Done(s, Bound(s))[g]
           IN  /\ d \in EngineRec /\ d.r.buf = s.r.buf /\ d.r.io = s.r.io
               /\ Batch(SetBuf(d, Left(s, g)), a, p, n)
<1> DEFINE b == s.r.buf
           m == Bound(s)
           h == Done(s, m)
           P(k) == /\ h[k] \in EngineRec /\ h[k].r.buf = b /\ h[k].r.io = s.r.io
                   /\ Batch(SetBuf(h[k], Left(s, k)), a, p, n)
           T == {k \in Nat : k <= g => P(k)}
<1>1. s \in EngineRec /\ b \in Seq(Frames) /\ Len(b) \in Nat
  BY Typed2, LenProperties DEF Batch, Core, Base, Typed
<1>2. m \in Nat /\ m <= Len(b)
  BY <1>1, RedisAssumption DEF Bound
<1>3. h = [k \in 0 .. m |-> IF k = 0 THEN s ELSE OnFrame(h[k - 1], b[k])]
  BY <1>2, ParsesExists DEF Parses
<1>4. g \in Nat /\ g <= m
  BY <1>2
<1>5. \A k \in 1 .. g : b[k] # "garbage"
  OBVIOUS
<1> HIDE DEF h, m, b
<1>6. P(0)
  <2>1. h[0] = s
    BY <1>2, <1>3
  <2>2. Left(s, 0) = b
    BY <1>1, SubSeqFull DEF Left, b
  <2>3. SetBuf(s, s.r.buf) = s
    BY <1>1, SetBufTwice DEF b
  <2>4. Batch(SetBuf(h[0], Left(s, 0)), a, p, n)
    BY <2>1, <2>2, <2>3 DEF b
  <2> QED
    BY <1>1, <2>1, <2>4 DEF b
<1>7. ASSUME NEW k \in Nat, k + 1 <= g, P(k) PROVE P(k + 1)
  <2>1. k < Len(b) /\ k + 1 \in 0 .. m /\ k + 1 # 0 /\ (k + 1) - 1 = k /\ k + 1 \in 1 .. g
    BY <1>1, <1>2, <1>4, <1>7
  <2>2. h[k + 1] = OnFrame(h[k], b[k + 1])
    BY <1>3, <2>1
  <2>3. /\ Left(s, k) \in Seq(Frames) /\ Left(s, k) # <<>> /\ Head(Left(s, k)) = b[k + 1]
        /\ Tail(Left(s, k)) = SubSeq(b, k + 2, Len(b))
    BY <1>1, <2>1, RestIs DEF Left, b
  <2>4. Tail(Left(s, k)) = Left(s, k + 1)
    BY <2>3 DEF Left, b
  <2>5. b[k + 1] # "garbage"
    BY <1>5, <2>1
  <2> DEFINE d == h[k]
             l == Left(s, k)
  <2>6. /\ d \in EngineRec /\ l \in Seq(Frames) /\ l # <<>> /\ Head(l) # "garbage"
        /\ Batch(SetBuf(d, l), a, p, n)
    BY <1>7, <2>3, <2>5
  <2> HIDE DEF d, l
  <2>7. LET e == OnFrame(d, Head(l))
        IN  /\ e \in EngineRec /\ e.r.buf = d.r.buf /\ e.r.io = d.r.io
            /\ Batch(SetBuf(e, Tail(l)), a, p, n)
    BY ONLY <2>6, n \in Nat, FrameStep
  <2> QED
    BY <1>7, <2>2, <2>3, <2>4, <2>7 DEF d, l
<1> HIDE DEF P
<1>8. 0 \in T
  BY <1>6
<1>9. ASSUME NEW k \in T PROVE k + 1 \in T
  <2>1. k \in Nat /\ (k <= g => P(k))
    BY <1>9
  <2>2. k + 1 <= g => k <= g
    BY <1>4, <2>1
  <2> QED
    BY <1>7, <2>1, <2>2
<1>10. T = Nat
  <2> HIDE DEF T
  <2>1. T \in SUBSET Nat
    BY DEF T
  <2> QED
    BY <1>8, <1>9, <2>1, Induction
<1>11. P(g)
  BY <1>4, <1>10
<1> QED
  BY <1>11 DEF P, h, m, b

LEMMA SetBufClose ==
    ASSUME NEW s \in EngineRec, NEW b \in Seq(Frames), NEW i \in DOMAIN s.ios
    PROVE  SetBuf(CloseNow(s, i), b) = CloseNow(SetBuf(s, b), i)
BY Zenon DEF SetBuf, CloseNow, Defer, EngineRec

(* Once the connection is closed it does not matter what was read.         *)
LEMMA Deaf ==
    ASSUME NEW s, NEW a, NEW p, NEW n \in Nat, Core(s, a, p, n, TRUE), s.r.io # NoIo, s.r.ready,
           s.ios[s.r.io].closed, Readers(s) = {}, ReadyOK(s), NEW b \in Seq(Frames),
           \A f \in Contents(b) : FrameOK(f, p)
    PROVE  Fine(SetBuf(s, b), a, p, n)
<1> DEFINE u == SetBuf(s, b)
<1>1. /\ s \in EngineRec /\ Typed(s, p) /\ Counted(s, n) /\ Connected(s) /\ LockOK(s, p, TRUE)
      /\ QueueOK(s) /\ AnswersOK(s, p) /\ SubsOK(s, a) /\ AllTold(s)
  BY DEF Core, Base, Typed
<1>2. /\ u \in EngineRec /\ u.r.refs = s.r.refs
      /\ u.r.running = s.r.running /\ u.r.attached = s.r.attached
      /\ u.r.pub_sent = s.r.pub_sent /\ u.r.io = s.r.io /\ u.r.ready = s.r.ready
      /\ u.r.cmd_queue = s.r.cmd_queue /\ u.r.buf = b
      /\ u.ios = s.ios /\ u.timers = s.timers /\ u.answers = s.answers
      /\ u.tasks = s.tasks
  BY <1>1, SetBufIs
<1> HIDE DEF u
<1>3. ~Live(u) /\ ~Live(s) /\ ~Dying(u)
  BY <1>2 DEF Live, Dying
<1>4. Readers(u) = {} /\ ~Continues(u)
  <2>1. Readers(u) = {}
    BY <1>2 DEF Readers
  <2>2. ~Continues(u)
    BY <2>1 DEF Readers, Continues, Contents, Reads
  <2> QED
    BY <2>1, <2>2
<1>5. StepOK(u, FALSE) /\ GreetOK(u) /\ SentOK(u)
  BY <1>3, <1>4 DEF StepOK, GreetOK, SentOK
<1>6. FramesOK(u, p)
  BY <1>1, <1>2 DEF LockOK, FramesOK
<1>7. Typed(u, p) /\ Counted(u, n)
  BY <1>1, <1>2 DEF Typed, Counted
<1>8. Connected(u)
  <2>1. \A j \in DOMAIN s.ios : IoOK(s, j)
    BY <1>1 DEF Connected
  <2>2. \A j \in DOMAIN s.ios : IoOK(u, j)
    BY <1>2, <2>1 DEF IoOK
  <2> QED
    BY <1>1, <1>2, <2>2 DEF Connected
<1>9. QueueOK(u) /\ AnswersOK(u, p) /\ AllTold(u)
  BY <1>1, <1>2 DEF QueueOK, AnswersOK, AllTold, Told
<1>10. SubsOK(u, a)
  BY <1>1, <1>2, <1>3 DEF SubsOK
<1>11. ReadersOK(u) /\ DyingOK(u)
  BY <1>3, <1>4 DEF ReadersOK, DyingOK, Single
<1>12. ReadyOK(u)
  <2>1. \A j : Readies(u, j) = Readies(s, j)
    BY <1>2 DEF Readies
  <2> QED
    BY <1>2, <2>1 DEF ReadyOK
<1> QED
  BY <1>5, <1>6, <1>7, <1>8, <1>9, <1>10, <1>11, <1>12 DEF Fine, Core, Base, LockOK, u

LEMMA Unparsed ==
    ASSUME NEW s, NEW a, NEW p, NEW n, Core(s, a, p, n, TRUE)
    PROVE  Core(s, a, p, n, FALSE)
BY DEF Core, Base, LockOK, StepOK

LEMMA SetBufPlace ==
    ASSUME NEW s \in EngineRec, NEW b \in Seq(Frames), NEW a, NEW cmd, PlaceOK(s, a, cmd)
    PROVE  PlaceOK(SetBuf(s, b), a, cmd)
<1> DEFINE u == SetBuf(s, b)
<1>1. u.r.cmd_queue = s.r.cmd_queue /\ u.answers = s.answers /\ u.tasks = s.tasks
  BY SetBufIs
<1> HIDE DEF u
<1>2. InTasks(u, cmd) = InTasks(s, cmd)
  BY <1>1 DEF InTasks
<1>3. PlaceOK(u, a, cmd)
  BY <1>1, <1>2, PlacesSame
<1> QED
  BY <1>3 DEF u

LEMMA ParseGood ==
    ASSUME NEW s, NEW a, NEW p, NEW n \in Nat, Batch(s, a, p, n)
    PROVE  LET u == ParseBuffered(s, s.r.io)
           IN  /\ Fine(u, a, p, n) /\ Retries(u)
               /\ \A cmd \in Commands : PlaceOK(u, a, cmd)
<1> DEFINE i == s.r.io
           u == ParseBuffered(s, i)
<1>1. s \in EngineRec /\ i # NoIo /\ Connected(s) /\ FramesOK(s, p) /\ s.r.buf \in Seq(Frames)
  BY Typed2 DEF Batch, Core, Base, LockOK, Typed
<1>2. PICK g \in 0 .. Bound(s) :
             /\ \A k \in 1 .. g : s.r.buf[k] # "garbage"
             /\ \/ /\ g < Bound(s) /\ s.r.buf[g + 1] = "garbage"
                   /\ u = CloseNow(Done(s, Bound(s))[g], i)
                \/ LET kept == SetBuf(Done(s, Bound(s))[g], Left(s, g))
                   IN  u = IF Left(s, g) = <<>> THEN kept ELSE Defer(Dup(kept), "continue", NoIo, "none")
  BY <1>1, ParseIs
<1> DEFINE d == Done(s, Bound(s))[g]
           y == SetBuf(d, Left(s, g))
<1>3. d \in EngineRec /\ d.r.buf = s.r.buf /\ d.r.io = i /\ Batch(y, a, p, n)
  BY <1>2, BatchTo
<1>4. Bound(s) \in Nat /\ Bound(s) <= Len(s.r.buf) /\ Len(s.r.buf) \in Nat
  BY <1>1, RedisAssumption, LenProperties DEF Bound
<1>5. Left(s, g) \in Seq(Frames)
  <2>1. CASE g < Len(s.r.buf)
    BY <1>1, <1>4, <2>1, RestIs DEF Left
  <2>2. CASE g = Len(s.r.buf)
    <3>1. g + 1 \in Int /\ Len(s.r.buf) \in Int /\ Len(s.r.buf) < g + 1
      BY <1>4, <2>2
    <3>2. Left(s, g) = <<>>
      BY <3>1, SubSeqEmpty DEF Left
    <3> QED
      BY <3>2, EmptySeq
  <2> QED
    BY <1>4, <2>1, <2>2
<1>6. y \in EngineRec /\ y.r.io = i /\ y.r.buf = Left(s, g)
  BY <1>3, <1>5, SetBufIs
<1> HIDE DEF u, d
<1>7. /\ Core(y, a, p, n, TRUE) /\ Core(y, a, p, n, FALSE) /\ Readers(y) = {} /\ ReadyOK(y) /\ DyingOK(y)
      /\ Connected(y) /\ i \in DOMAIN y.ios
      /\ \A cmd \in Commands : PlaceOK(y, a, cmd)
  <2> HIDE DEF y
  <2> QED
    BY <1>1, <1>3, <1>6, Unparsed DEF Batch, Core, Base, Connected
<1>8. CASE g < Bound(s) /\ s.r.buf[g + 1] = "garbage" /\ u = CloseNow(d, i)
  <2> DEFINE x == CloseNow(y, i)
  <2>1. SetBuf(y, s.r.buf) = d
    <3>1. SetBuf(y, s.r.buf) = SetBuf(d, s.r.buf)
      BY <1>1, <1>3, <1>5, SetBufTwice
    <3>2. SetBuf(d, d.r.buf) = d
      BY <1>1, <1>3, SetBufTwice
    <3> QED
      BY <1>3, <3>1, <3>2
  <2> HIDE DEF y
  <2>2. u = SetBuf(x, s.r.buf)
    BY <1>1, <1>6, <1>7, <1>8, <2>1, SetBufClose
  <2>3. Core(x, a, p, n, TRUE)
    BY <1>7, CloseNowCore DEF DyingOK
  <2>4. ReadyOK(x) /\ \A cmd \in Commands : PlaceOK(x, a, cmd)
    BY <1>6, <1>7, CloseNowRest
  <2>5. x.r = y.r /\ Readers(x) = {} /\ x.ios[i].closed
    <3>1. CASE y.ios[i].closed
      BY <1>7, <3>1 DEF CloseNow
    <3>2. CASE ~y.ios[i].closed
      BY <1>6, <1>7, <3>2, CloseNowIs
    <3> QED
      BY <3>1, <3>2
  <2>6. x.r.ready
    <3>1. Left(s, g) # <<>>
      BY <1>1, <1>4, <1>8, RestIs DEF Left
    <3> QED
      BY <1>1, <1>6, <1>7, <2>5, <3>1 DEF Connected
  <2>7. \A f \in Contents(s.r.buf) : FrameOK(f, p)
    BY <1>1 DEF FramesOK
  <2> HIDE DEF x
  <2>8. Fine(SetBuf(x, s.r.buf), a, p, n)
    BY <1>1, <1>6, <2>3, <2>4, <2>5, <2>6, <2>7, Deaf
  <2>9. x \in EngineRec
    BY <2>3 DEF Core, Base, Typed
  <2>10. \A cmd \in Commands : PlaceOK(SetBuf(x, s.r.buf), a, cmd)
    BY <1>1, <2>4, <2>9, SetBufPlace
  <2>11. SetBuf(x, s.r.buf).r.io = i
    BY <1>1, <1>6, <2>5, <2>9, SetBufIs
  <2> QED
    BY <1>1, <2>2, <2>8, <2>10, <2>11 DEF Retries, u
<1>9. CASE u = IF Left(s, g) = <<>> THEN y ELSE Defer(Dup(y), "continue", NoIo, "none")
  <2> HIDE DEF y
  <2>1. CASE Left(s, g) = <<>>
    <3>1. u = y
      BY <1>9, <2>1
    <3>2. ReadersOK(y)
      BY <1>6, <1>7, <2>1 DEF ReadersOK, Single
    <3> QED
      BY <1>1, <1>6, <1>7, <3>1, <3>2 DEF Fine, Retries, u
  <2>2. CASE Left(s, g) # <<>>
    <3> DEFINE t == Task("continue", NoIo, "none")
    <3>1. u = With(y, t)
      BY <1>6, <1>9, <2>2, DeferIs DEF OwningTasks
    <3>2. t \in TaskRec /\ t.fn = "continue" /\ t.arg = NoIo
      BY DEF Task, TaskRec, Fns, NoIo
    <3> HIDE DEF t
    <3>3. TaskOK(t, y.ios, p)
      BY <3>2 DEF TaskOK
    <3>4. Core(u, a, p, n, TRUE)
      <4>1. y.r.refs > 0
        BY <1>1, <1>6, <1>7, Typed2 DEF Core, Base, Counted
      <4> QED
        BY <1>7, <3>1, <3>2, <3>3, <4>1, WithCore
    <3>5. Core(u, a, p, n, FALSE)
      BY <3>4, Unparsed
    <3>6. /\ u.r.io = y.r.io /\ u.r.ready = y.r.ready /\ u.r.cmd_queue = y.r.cmd_queue /\ u.r.buf = y.r.buf
          /\ u.ios = y.ios /\ u.tasks = Append(y.tasks, t) /\ u \in EngineRec
          /\ Contents(u.tasks) = Contents(y.tasks) \cup {t} /\ y.tasks \in Seq(TaskRec)
      BY <1>6, <3>1, <3>2, WithIs, Typed2
    <3>7. Readers(u) = {} \cup {Len(y.tasks) + 1}
      BY <1>6, <1>7, <3>1, <3>2, WithReaders DEF Reads
    <3>8. ReadersOK(u)
      BY <3>2, <3>6, <3>7 DEF ReadersOK, Continues, Single
    <3>9. DyingOK(u)
      BY <1>6, <1>7, <2>2, <3>6 DEF DyingOK, Dying, Live
    <3>10. ReadyOK(u)
      <4>1. \A j : t \notin Promoting(j)
        BY <3>2 DEF Promoting
      <4>2. \A j : At(Append(y.tasks, t), Promoting(j)) = At(y.tasks, Promoting(j))
        BY <3>2, <3>6, <4>1, AtAppend
      <4>3. \A j : Readies(u, j) = At(u.tasks, Promoting(j)) /\ Readies(y, j) = At(y.tasks, Promoting(j))
        BY <1>6, <3>6, TasksAt
      <4>4. \A j : Readies(u, j) = Readies(y, j)
        BY <3>6, <4>2, <4>3
      <4> QED
        BY <1>7, <3>6, <4>4 DEF ReadyOK
    <3>11. \A cmd \in Commands : PlaceOK(u, a, cmd)
      <4>1. \A cmd : ~Carries(t, cmd)
        BY <3>2 DEF Carries
      <4> QED
        BY <1>6, <1>7, <3>1, <3>2, <4>1, WithPlace
    <3> QED
      BY <1>1, <1>6, <3>5, <3>6, <3>8, <3>9, <3>10, <3>11 DEF Fine, Retries, u
  <2> QED
    BY <2>1, <2>2
<1> QED
  BY <1>2, <1>8, <1>9 DEF d
-----------------------------------------------------------------------------
(* Reading.                                                                *)

LEMMA ContentsJoin ==
    ASSUME NEW V, NEW x \in Seq(V), NEW y \in Seq(V)
    PROVE  Contents(x \o y) = Contents(x) \cup Contents(y)
<1>1. /\ x \o y \in Seq(V) /\ Len(x \o y) = Len(x) + Len(y) /\ Len(x) \in Nat /\ Len(y) \in Nat
      /\ DOMAIN x = 1 .. Len(x) /\ DOMAIN y = 1 .. Len(y) /\ DOMAIN (x \o y) = 1 .. Len(x) + Len(y)
      /\ \A k \in 1 .. Len(x) + Len(y) : (x \o y)[k] = IF k <= Len(x) THEN x[k] ELSE y[k - Len(x)]
  BY ConcatProperties, LenProperties
<1>2. ASSUME NEW f \in Contents(x \o y) PROVE f \in Contents(x) \cup Contents(y)
  <2>1. PICK k \in 1 .. Len(x) + Len(y) : f = (x \o y)[k]
    BY <1>1, <1>2 DEF Contents
  <2>2. CASE k <= Len(x)
    <3>1. k \in DOMAIN x /\ f = x[k]
      BY <1>1, <2>1, <2>2
    <3> QED
      BY <3>1 DEF Contents
  <2>3. CASE ~(k <= Len(x))
    <3>1. k - Len(x) \in DOMAIN y /\ f = y[k - Len(x)]
      BY <1>1, <2>1, <2>3
    <3> QED
      BY <3>1 DEF Contents
  <2> QED
    BY <2>2, <2>3
<1>3. ASSUME NEW f \in Contents(x) PROVE f \in Contents(x \o y)
  <2>1. PICK k \in DOMAIN x : f = x[k]
    BY <1>3 DEF Contents
  <2>2. k \in DOMAIN (x \o y) /\ (x \o y)[k] = x[k]
    BY <1>1, <2>1
  <2> QED
    BY <2>1, <2>2 DEF Contents
<1>4. ASSUME NEW f \in Contents(y) PROVE f \in Contents(x \o y)
  <2>1. PICK k \in DOMAIN y : f = y[k]
    BY <1>4 DEF Contents
  <2>2. Len(x) + k \in DOMAIN (x \o y) /\ ~(Len(x) + k <= Len(x)) /\ Len(x) + k - Len(x) = k
    BY <1>1, <2>1
  <2>3. (x \o y)[Len(x) + k] = y[k]
    BY <1>1, <2>2
  <2> QED
    BY <2>1, <2>2, <2>3 DEF Contents
<1> QED
  BY <1>2, <1>3, <1>4

(* What is waiting is read into the buffer.                                *)
Read(s, i) == [s EXCEPT !.r.buf = @ \o s.ios[i].down, !.ios[i].down = <<>>]

LEMMA ReadIs ==
    ASSUME NEW s \in EngineRec, NEW i \in DOMAIN s.ios
    PROVE  LET u == Read(s, i)
           IN  /\ u \in EngineRec /\ u.r.refs = s.r.refs
               /\ u.r.running = s.r.running /\ u.r.attached = s.r.attached
               /\ u.r.pub_sent = s.r.pub_sent /\ u.r.io = s.r.io /\ u.r.ready = s.r.ready
               /\ u.r.cmd_queue = s.r.cmd_queue /\ u.r.buf = s.r.buf \o s.ios[i].down
               /\ u.timers = s.timers /\ u.answers = s.answers /\ u.tasks = s.tasks
               /\ DOMAIN u.ios = DOMAIN s.ios
               /\ \A j \in DOMAIN s.ios : j # i => u.ios[j] = s.ios[j]
               /\ u.ios[i].closed = s.ios[i].closed /\ u.ios[i].up = s.ios[i].up
               /\ u.ios[i].down = <<>>
               /\ u.ios[i].st = s.ios[i].st /\ u.ios[i].owned = s.ios[i].owned
               /\ u.ios[i].proto = s.ios[i].proto /\ u.ios[i].subs = s.ios[i].subs
<1> DEFINE b == s.r.buf \o s.ios[i].down
           v == SetBuf(s, b)
           x == [s.ios[i] EXCEPT !.down = <<>>]
           u == [v EXCEPT !.ios[i] = x]
<1>1. /\ s.ios[i] \in IoRec /\ s.r.buf \in Seq(Frames) /\ s.ios[i].down \in Seq(Frames)
  BY Typed2, IoType
<1>2. b \in Seq(Frames)
  BY <1>1, ConcatProperties
<1>3. /\ x \in IoRec /\ x.closed = s.ios[i].closed /\ x.up = s.ios[i].up /\ x.down = <<>>
      /\ x.st = s.ios[i].st /\ x.owned = s.ios[i].owned
      /\ x.proto = s.ios[i].proto /\ x.subs = s.ios[i].subs
  BY <1>1, EmptySeq DEF IoRec
<1>4. Read(s, i) = u
  <2> HIDE DEF b
  <2>1. Read(s, i) = [s EXCEPT !.r.buf = b, !.ios[i].down = <<>>]
    BY DEF Read, b
  <2> QED
    BY <2>1 DEF SetBuf, EngineRec
<1> HIDE DEF b
<1>5. /\ v \in EngineRec /\ v.r.refs = s.r.refs
      /\ v.r.running = s.r.running /\ v.r.attached = s.r.attached
      /\ v.r.pub_sent = s.r.pub_sent /\ v.r.io = s.r.io /\ v.r.ready = s.r.ready
      /\ v.r.cmd_queue = s.r.cmd_queue /\ v.r.buf = b
      /\ v.ios = s.ios /\ v.timers = s.timers /\ v.answers = s.answers
      /\ v.tasks = s.tasks
  BY <1>2, SetBufIs
<1> HIDE DEF v, x
<1>6. /\ u \in EngineRec /\ u.r = v.r /\ u.tasks = v.tasks
      /\ u.timers = v.timers /\ u.answers = v.answers
      /\ DOMAIN u.ios = DOMAIN v.ios /\ u.ios[i] = x
      /\ \A j \in DOMAIN v.ios : j # i => u.ios[j] = v.ios[j]
  BY <1>3, <1>5, SetIo
<1> QED
  BY <1>3, <1>4, <1>5, <1>6 DEF b

LEMMA ReadBatch ==
    ASSUME NEW s, NEW a, NEW p, NEW n \in Nat, Fine(s, a, p, n), NEW i \in DOMAIN s.ios,
           ~s.ios[i].closed, Readers(s) = {}, ~Dying(s),
           \A cmd \in Commands : PlaceOK(s, a, cmd)
    PROVE  Batch(Read(s, i), a, p, n) /\ s.r.io = i
<1> DEFINE u == Read(s, i)
           buf == s.r.buf
           down == s.ios[i].down
           up == s.ios[i].up
<1>1. /\ s \in EngineRec /\ Typed(s, p) /\ Counted(s, n) /\ Connected(s) /\ LockOK(s, p, FALSE)
      /\ QueueOK(s) /\ AnswersOK(s, p) /\ SubsOK(s, a) /\ AllTold(s) /\ ReadyOK(s)
  BY DEF Fine, Core, Base, Typed
<1>2. s.r.io = i /\ i # NoIo /\ s.r.running = TRUE
  BY <1>1, IoType, Typed2 DEF Connected, IoOK, NoIo
<1>3. /\ u \in EngineRec /\ u.r.refs = s.r.refs
      /\ u.r.running = s.r.running /\ u.r.attached = s.r.attached
      /\ u.r.pub_sent = s.r.pub_sent /\ u.r.io = s.r.io /\ u.r.ready = s.r.ready
      /\ u.r.cmd_queue = s.r.cmd_queue /\ u.r.buf = buf \o down
      /\ u.timers = s.timers /\ u.answers = s.answers /\ u.tasks = s.tasks
      /\ DOMAIN u.ios = DOMAIN s.ios
      /\ \A j \in DOMAIN s.ios : j # i => u.ios[j] = s.ios[j]
      /\ u.ios[i].closed = s.ios[i].closed /\ u.ios[i].up = up
      /\ u.ios[i].down = <<>>
      /\ u.ios[i].st = s.ios[i].st /\ u.ios[i].owned = s.ios[i].owned
      /\ u.ios[i].proto = s.ios[i].proto /\ u.ios[i].subs = s.ios[i].subs
  BY <1>1, ReadIs
<1>4. buf \in Seq(Frames) /\ down \in Seq(Frames) /\ up \in Seq(Frames) /\ buf \o down \in Seq(Frames)
  <2>1. buf \in Seq(Frames) /\ down \in Seq(Frames) /\ up \in Seq(Frames)
    BY Zenon, <1>1, WayType
  <2> QED
    BY <2>1, ConcatProperties
<1> HIDE DEF u
<1>5. Way(u) = Way(s)
  <2>1. Way(u) = ((buf \o down) \o <<>>) \o up
    BY <1>2, <1>3 DEF Way, Stream
  <2>2. (buf \o down) \o <<>> = buf \o down
    BY <1>4, ConcatEmptySeq
  <2> QED
    BY Zenon, <1>2, <2>1, <2>2 DEF Way, Stream
<1>6. Live(u) = Live(s) /\ Dying(u) = Dying(s) /\ Readers(u) = Readers(s) /\ Continues(u) = Continues(s)
  BY <1>2, <1>3 DEF Live, Dying, Readers, Continues
<1>7. ~s.r.ready => buf = <<>> /\ down = <<>> /\ up = <<>> /\ buf \o down = <<>>
  <2> SUFFICES ASSUME ~s.r.ready PROVE buf = <<>> /\ down = <<>> /\ up = <<>>
    BY <1>4, ConcatEqualIffEmpty
  <2>1. s.ios[i].st = "connecting"
    BY <1>1, <1>2, IoType DEF Connected, IoOK
  <2> QED
    BY <1>1, <1>2, <2>1 DEF Connected, IoOK
<1>8. StepOK(u, TRUE)
  <2>1. CASE s.r.ready
    <3>1. Live(s)
      BY <1>2, <2>1 DEF Live
    <3> QED
      BY <1>1, <1>2, <1>3, <1>5, <3>1 DEF LockOK, StepOK
  <2>2. CASE ~s.r.ready
    <3>1. Way(s) = <<>>
      <4>1. Way(s) = (buf \o down) \o up
        BY <1>2 DEF Way, Stream
      <4> HIDE DEF buf, down, up
      <4> QED
        BY <1>4, <1>7, <2>2, <4>1, ConcatEqualIffEmpty
    <3> QED
      BY <1>5, <3>1, EmptyWay, NoneInStep DEF StepOK
  <2> QED
    BY <2>1, <2>2
<1>9. GreetOK(u) /\ SentOK(u)
  BY <1>1, <1>2, <1>3, <1>5, <1>6 DEF LockOK, GreetOK, SentOK
<1>10. FramesOK(u, p)
  <2>1. Contents(buf \o down) = Contents(buf) \cup Contents(down)
    BY <1>4, ContentsJoin
  <2>2. \A f \in Contents(buf \o down) : FrameOK(f, p)
    BY <1>1, <2>1 DEF LockOK, FramesOK
  <2>3. Contents(<<>>) = {}
    BY DEF Contents
  <2>4. ASSUME NEW j \in DOMAIN s.ios PROVE \A f \in Contents(u.ios[j].down) : FrameOK(f, p)
    <3>1. CASE j = i
      BY <1>3, <2>3, <3>1
    <3>2. CASE j # i
      BY <1>1, <1>3, <3>2 DEF LockOK, FramesOK
    <3> QED
      BY <3>1, <3>2
  <2> QED
    BY <1>3, <2>2, <2>4 DEF FramesOK
<1>11. Typed(u, p) /\ Counted(u, n)
  BY <1>1, <1>3 DEF Typed, TaskOK, Counted
<1>12. Connected(u)
  <2>1. \A j \in DOMAIN s.ios : IoOK(s, j)
    BY <1>1 DEF Connected
  <2>2. ASSUME NEW j \in DOMAIN s.ios PROVE IoOK(u, j)
    <3>0. IoOK(s, j)
      BY <2>1
    <3>1. CASE j = i
      BY <1>2, <1>3, <3>0, <3>1 DEF IoOK
    <3>2. CASE j # i
      BY <1>3, <3>0, <3>2 DEF IoOK
    <3> QED
      BY <3>1, <3>2
  <2> QED
    BY <1>1, <1>2, <1>3, <1>7, <2>2 DEF Connected
<1>13. QueueOK(u) /\ AnswersOK(u, p)
  BY <1>1, <1>3 DEF QueueOK, AnswersOK
<1>14. \A j \in DOMAIN s.ios : u.ios[j].closed = s.ios[j].closed /\ u.ios[j].st = s.ios[j].st
  BY <1>3
<1>15. AllTold(u)
  <2>1. \A t \in Contents(s.tasks) : t.fn = "closed" => t.arg \in DOMAIN s.ios
    BY <1>1 DEF Typed, TaskOK
  <2> QED
    BY <1>1, <1>3, <1>14, <2>1 DEF AllTold, Told
<1>16. SubsOK(u, a)
  BY <1>1, <1>2, <1>3, <1>6 DEF SubsOK
<1>17. ReadyOK(u)
  <2>1. \A j : Readies(u, j) = Readies(s, j)
    BY <1>3 DEF Readies
  <2> QED
    BY <1>1, <1>3, <1>14, <2>1 DEF ReadyOK
<1>18. ASSUME NEW cmd \in Commands PROVE PlaceOK(u, a, cmd)
  <2>1. InTasks(u, cmd) = InTasks(s, cmd)
    BY <1>3 DEF InTasks
  <2> QED
    BY <1>3, <2>1, PlacesSame
<1>19. DyingOK(u) /\ Readers(u) = {}
  BY <1>6 DEF DyingOK
<1> QED
  BY <1>2, <1>3, <1>8, <1>9, <1>10, <1>11, <1>12, <1>13, <1>15, <1>16, <1>17, <1>18, <1>19
     DEF Batch, Core, Base, LockOK, u
(* A task that is performed, taken off the queue.                          *)
LEMMA PoppedGood ==
    ASSUME NEW s, NEW a, NEW p, NEW n \in Nat, Good(s, a, p, n), s.tasks # <<>>,
           Head(s.tasks).fn \in {"ready", "data", "timeout"}
    PROVE  Good(Popped(s), a, p, n)
<1> DEFINE u == Popped(s)
           t == Head(s.tasks)
<1>1. s \in EngineRec /\ Fine(s, a, p, n) /\ Retries(s) /\ \A cmd \in Commands : PlaceOK(s, a, cmd)
  BY DEF Good, Fine, Core, Base, Typed
<1>2. One(Owned(t)) = 0 /\ \A cmd : ~Carries(t, cmd)
  BY DEF One, Owned, OwningTasks, Carries
<1>3. Fine(u, a, p, n)
  <2>1. n = n + One(Owned(t))
    BY <1>2
  <2>2. t.fn \notin {"closed", "continue", "perform_callback"}
    OBVIOUS
  <2> QED
    BY <1>1, <2>1, <2>2, PoppedFine
<1>4. Retries(u) /\ \A cmd \in Commands : PlaceOK(u, a, cmd)
  BY <1>1, <1>2, PoppedRest
<1> QED
  BY <1>3, <1>4 DEF Good

LEMMA DataGood ==
    ASSUME NEW s, NEW a, NEW p, NEW n \in Nat, Good(s, a, p, n), s.tasks # <<>>,
           Head(s.tasks).fn = "data"
    PROVE  Good(OnData(Popped(s), Head(s.tasks).arg), a, p, n)
<1> DEFINE v == Popped(s)
           t == Head(s.tasks)
           i == t.arg
<1>1. Good(v, a, p, n)
  BY PoppedGood
<1>2. s \in EngineRec /\ Fine(s, a, p, n)
  BY DEF Good, Fine, Core, Base, Typed
<1>3. /\ t \in TaskRec /\ TaskOK(t, v.ios, p) /\ v.r = s.r
      /\ Reads(t, s.r.io) => Readers(v) = {} /\ ~Dying(v)
  <2>1. One(Owned(t)) = 0
    BY DEF One, Owned, OwningTasks
  <2>2. n = n + One(Owned(t))
    BY <2>1
  <2> QED
    BY <1>2, <2>2, PoppedFine, PoppedIs
<1>4. i \in DOMAIN v.ios
  BY <1>3 DEF TaskOK
<1>5. t.fn = "data"
  OBVIOUS
<1> HIDE DEF v, t
<1>6. CASE v.ios[i].closed \/ ~v.ios[i].owned
  BY <1>1, <1>6 DEF OnData, v, t
<1>7. CASE ~(v.ios[i].closed \/ ~v.ios[i].owned)
  <2>1. OnData(v, i) = ParseBuffered(Read(v, i), i)
    BY <1>7 DEF OnData, Read
  <2>2. v.r.io = i
    BY <1>1, <1>4, <1>7 DEF Good, Fine, Core, Base, Connected, IoOK
  <2>3. Readers(v) = {} /\ ~Dying(v)
    BY <1>3, <1>5, <2>2 DEF Reads
  <2>4. Batch(Read(v, i), a, p, n)
    BY <1>1, <1>4, <1>7, <2>3, ReadBatch DEF Good
  <2>5. v \in EngineRec
    BY <1>1 DEF Good, Fine, Core, Base, Typed
  <2>6. Read(v, i).r.io = i
    BY <1>4, <2>2, <2>5, ReadIs
  <2> DEFINE x == Read(v, i)
  <2> HIDE DEF x
  <2>7. /\ Fine(ParseBuffered(x, x.r.io), a, p, n) /\ Retries(ParseBuffered(x, x.r.io))
        /\ \A cmd \in Commands : PlaceOK(ParseBuffered(x, x.r.io), a, cmd)
    BY <2>4, ParseGood DEF x
  <2> QED
    BY <2>1, <2>6, <2>7 DEF Good, x, v, t
<1> QED
  BY <1>6, <1>7

LEMMA ContinueGood ==
    ASSUME NEW s, NEW a, NEW p, NEW n \in Nat, Good(s, a, p, n), s.tasks # <<>>,
           Head(s.tasks).fn = "continue"
    PROVE  Good(OnDataContinue(Popped(s)), a, p, n)
<1> DEFINE v == Popped(s)
           t == Head(s.tasks)
<1>1. /\ s \in EngineRec /\ Fine(s, a, p, n) /\ Retries(s) /\ StepOK(s, FALSE)
      /\ \A cmd \in Commands : PlaceOK(s, a, cmd)
  BY DEF Good, Fine, Core, Base, Typed, LockOK
<1>2. /\ One(Owned(t)) = 1 /\ t.fn # "connect" /\ t.fn # "closed" /\ t.fn # "perform_callback"
      /\ Reads(t, s.r.io) /\ \A cmd : ~Carries(t, cmd)
  BY DEF One, Owned, OwningTasks, Reads, Carries
<1>3. /\ v.r = s.r /\ v.ios = s.ios /\ t \in Contents(s.tasks) /\ v \in EngineRec
  BY <1>1, PoppedIs
<1>4. /\ Core(v, a, p, n + 1, FALSE) /\ ReadyOK(v) /\ Readers(v) = {} /\ ~Dying(v)
  <2>1. n + 1 \in Nat /\ n + 1 = n + One(Owned(t))
    BY <1>2
  <2> QED
    BY <1>1, <1>2, <2>1, PoppedFine
<1>5. Retries(v) /\ \A cmd \in Commands : PlaceOK(v, a, cmd)
  BY <1>1, <1>2, PoppedRest
<1>6. DyingOK(v)
  BY <1>4 DEF DyingOK
<1>7. t.fn = "continue"
  OBVIOUS
<1> HIDE DEF v, t
<1>8. CASE ~v.r.running \/ v.r.io = NoIo
  <2>1. OnDataContinue(v) = Free(v)
    BY <1>8 DEF OnDataContinue
  <2>2. ~Live(v)
    <3>1. Connected(v)
      BY <1>4 DEF Core, Base
    <3> QED
      BY <1>8, <3>1 DEF Connected, IoOK, Live
  <2>3. ReadersOK(v)
    BY <1>4, <2>2 DEF ReadersOK, Single
  <2>4. Fine(v, a, p, n + 1)
    BY <1>4, <1>6, <2>3 DEF Fine
  <2> QED
    BY <1>5, <2>1, <2>4, FreeGood DEF Good, v
<1>9. CASE ~(~v.r.running \/ v.r.io = NoIo)
  <2>1. OnDataContinue(v) = Free(ParseBuffered(v, v.r.io))
    BY <1>9 DEF OnDataContinue
  <2>2. StepOK(v, TRUE)
    <3>1. Way(v) = Way(s) /\ Dying(v) = Dying(s)
      BY <1>3 DEF Way, Stream, Dying, Live
    <3>2. Continues(s)
      BY <1>3, <1>7 DEF Continues
    <3> QED
      BY <1>1, <1>3, <3>1, <3>2 DEF StepOK
  <2>3. Core(v, a, p, n + 1, TRUE)
    BY <1>4, <2>2 DEF Core, Base, LockOK
  <2>4. v.r.running = TRUE /\ v.r.io # NoIo
    BY <1>3, <1>9, Typed2
  <2>5. Batch(v, a, p, n + 1)
    BY <1>4, <1>5, <1>6, <2>3, <2>4 DEF Batch
  <2> DEFINE x == ParseBuffered(v, v.r.io)
  <2>6. Fine(x, a, p, n + 1) /\ Retries(x) /\ \A cmd \in Commands : PlaceOK(x, a, cmd)
    BY <2>5, ParseGood
  <2> HIDE DEF x
  <2>7. Fine(Free(x), a, p, n) /\ Retries(Free(x)) /\ \A cmd \in Commands : PlaceOK(Free(x), a, cmd)
    BY <2>6, FreeGood
  <2> QED
    BY <2>1, <2>7 DEF Good, v, x
<1> QED
  BY <1>8, <1>9
-----------------------------------------------------------------------------
(* Timeouts, and what is queued from elsewhere.                            *)

LEMMA QueueGood ==
    ASSUME NEW s, NEW a, NEW b, NEW p, NEW n \in Nat, Fine(s, a, p, n), Retries(s),
           NEW w \in Words, w # "HELLO", s.r.running, SubsOK(Queue(s, w), b),
           \A cmd \in Commands : PlaceOK(Queue(s, w), b, cmd)
    PROVE  Good(SendNextCmd(Queue(s, w)), b, p, n)
<1> DEFINE v == Queue(s, w)
           u == SendNextCmd(v)
<1>1. /\ s \in EngineRec /\ Core(s, a, p, n, FALSE) /\ ReadersOK(s) /\ ReadyOK(s) /\ DyingOK(s)
      /\ Connected(s) /\ \A k \in DOMAIN s.r.cmd_queue : s.r.cmd_queue[k] = "HELLO" => k = 1
  BY DEF Fine, Core, Base, Typed, QueueOK
<1>2. Core(u, b, p, n, FALSE)
  BY <1>1, QueueCore
<1>3. v \in EngineRec /\ v.r.io = s.r.io /\ v.ios = s.ios
  BY <1>1, QueueIs
<1>4. /\ ReadersOK(v) /\ ReadyOK(v) /\ DyingOK(v) /\ Retries(v)
      /\ \A k \in DOMAIN v.r.cmd_queue : v.r.cmd_queue[k] = "HELLO" => k = 1
  BY <1>1, QueueRest
<1>5. \A cmd \in Commands : PlaceOK(v, b, cmd)
  OBVIOUS
<1> HIDE DEF v
<1>6. ReadersOK(u) /\ ReadyOK(u) /\ DyingOK(u) /\ Retries(u) /\ \A cmd \in Commands : PlaceOK(u, b, cmd)
  <2>1. v.r.io \in {NoIo} \cup DOMAIN v.ios
    BY <1>1, <1>3 DEF Connected
  <2> QED
    BY <1>3, <1>4, <1>5, <2>1, SendRest
<1> QED
  BY <1>2, <1>6 DEF Good, Fine, v

LEMMA GoodParts ==
    ASSUME NEW s, NEW a, NEW p, NEW n, Good(s, a, p, n)
    PROVE  /\ s \in EngineRec /\ Typed(s, p) /\ Counted(s, n) /\ Connected(s) /\ LockOK(s, p, FALSE)
           /\ QueueOK(s) /\ AnswersOK(s, p) /\ SubsOK(s, a) /\ AllTold(s)
           /\ Core(s, a, p, n, FALSE) /\ Fine(s, a, p, n)
           /\ ReadersOK(s) /\ ReadyOK(s) /\ DyingOK(s) /\ Retries(s)
           /\ \A cmd \in Commands : PlaceOK(s, a, cmd)
BY DEF Good, Fine, Core, Base, Typed

LEMMA CloseNowGood ==
    ASSUME NEW s, NEW a, NEW p, NEW n \in Nat, Good(s, a, p, n), NEW i \in DOMAIN s.ios
    PROVE  Good(CloseNow(s, i), a, p, n)
<1>1. s \in EngineRec /\ Connected(s) /\ Fine(s, a, p, n)
  BY GoodParts
<1>2. Fine(CloseNow(s, i), a, p, n)
  BY <1>1, CloseNowFine
<1> QED
  BY <1>1, <1>2, CloseNowRest DEF Good

LEMMA TimeoutGood ==
    ASSUME NEW s, NEW a, NEW p, NEW n \in Nat, Good(s, a, p, n), s.tasks # <<>>,
           Head(s.tasks).fn = "timeout"
    PROVE  Good(OnTimeout(Popped(s), Head(s.tasks).arg), a, p, n)
<1> DEFINE v == Popped(s)
           t == Head(s.tasks)
           i == t.arg
<1>1. Good(v, a, p, n)
  BY PoppedGood
<1>2. s \in EngineRec /\ Fine(s, a, p, n)
  BY GoodParts
<1>3. i \in DOMAIN v.ios
  <2>1. n = n + One(Owned(t))
    BY DEF One, Owned, OwningTasks
  <2>2. TaskOK(t, v.ios, p)
    BY <1>2, <2>1, PoppedFine
  <2> QED
    BY <2>2 DEF TaskOK
<1> HIDE DEF v, t
<1>4. /\ v \in EngineRec /\ Connected(v) /\ SubsOK(v, a) /\ Fine(v, a, p, n) /\ Retries(v)
      /\ \A cmd \in Commands : PlaceOK(v, a, cmd)
  BY <1>1, GoodParts
<1>5. CASE v.ios[i].closed \/ ~v.ios[i].owned
  BY <1>1, <1>5 DEF OnTimeout, v, t
<1>6. CASE ~(v.ios[i].closed \/ ~v.ios[i].owned) /\ v.r.cmd_queue # <<>>
  BY <1>1, <1>3, <1>6, CloseNowGood DEF OnTimeout, v, t
<1>7. CASE ~(v.ios[i].closed \/ ~v.ios[i].owned) /\ v.r.cmd_queue = <<>>
  <2>1. OnTimeout(v, i) = SendNextCmd(Queue(v, "PING"))
    BY <1>7 DEF OnTimeout
  <2>2. v.r.running
    BY <1>3, <1>4, <1>7 DEF Connected, IoOK
  <2>3. "PING" \in Words /\ "PING" # "HELLO" /\ "PING" \notin NoWait /\ "PING" \notin Commands
    BY Zenon, RedisAssumption DEF Words, NoWait, Reserved
  <2>4. SubsOK(Queue(v, "PING"), a)
    BY <1>4, <2>3, QueueSubs
  <2>5. \A cmd \in Commands : PlaceOK(Queue(v, "PING"), a, cmd)
    BY <1>4, <2>3, QueueRest
  <2>6. Good(SendNextCmd(Queue(v, "PING")), a, p, n)
    BY <1>4, <2>2, <2>3, <2>4, <2>5, QueueGood
  <2> QED
    BY <2>1, <2>6 DEF v, t
<1> QED
  BY <1>5, <1>6, <1>7
-----------------------------------------------------------------------------
(* Calling a callback.                                                     *)

Answer(s, cmd, reply) == [s EXCEPT !.answers[cmd] = Append(@, reply)]

LEMMA AnswerIs ==
    ASSUME NEW s \in EngineRec, NEW cmd \in Commands, NEW reply \in Frames \cup {"none"}
    PROVE  LET u == Answer(s, cmd, reply)
           IN  /\ u \in EngineRec /\ u.r = s.r /\ u.ios = s.ios /\ u.tasks = s.tasks /\ u.timers = s.timers
               /\ u.answers[cmd] = Append(s.answers[cmd], reply)
               /\ \A c \in Commands : c # cmd => u.answers[c] = s.answers[c]
<1> DEFINE x == Append(s.answers[cmd], reply)
           y == [s.answers EXCEPT ![cmd] = x]
           u == [s EXCEPT !.answers = y]
<1>1. s.answers \in [Commands -> Seq(Frames \cup {"none"})]
  BY Typed2
<1>2. x \in Seq(Frames \cup {"none"})
  BY <1>1, ContentsAppend
<1>3. Answer(s, cmd, reply) = u
  BY DEF Answer
<1> HIDE DEF x
<1>4. /\ y \in [Commands -> Seq(Frames \cup {"none"})] /\ y[cmd] = x
      /\ \A c \in Commands : c # cmd => y[c] = s.answers[c]
  BY <1>1, <1>2
<1> HIDE DEF y
<1>5. u \in EngineRec /\ u.r = s.r /\ u.ios = s.ios /\ u.tasks = s.tasks /\ u.timers = s.timers /\ u.answers = y
  BY <1>4 DEF EngineRec
<1> QED
  BY <1>3, <1>4, <1>5 DEF x

LEMMA AnswerGood ==
    ASSUME NEW s, NEW a, NEW b, NEW p, NEW n \in Nat, Fine(s, a, p, n), Retries(s), SubsOK(s, b),
           NEW cmd \in Commands, NEW reply \in Frames \cup {"none"},
           reply = cmd \/ (reply = "none" /\ ~s.r.running),
           InTasks(s, cmd) = {}, InQueue(s, cmd) = {}, Answered(s, cmd) = {},
           cmd \in b.sent, cmd \notin b.calls,
           \A c \in Commands : c # cmd => PlaceOK(s, b, c)
    PROVE  Good(Answer(s, cmd, reply), b, p, n)
<1> DEFINE u == Answer(s, cmd, reply)
<1>1. /\ s \in EngineRec /\ Typed(s, p) /\ Counted(s, n) /\ Connected(s) /\ LockOK(s, p, FALSE)
      /\ QueueOK(s) /\ AnswersOK(s, p) /\ AllTold(s)
      /\ ReadersOK(s) /\ ReadyOK(s) /\ DyingOK(s)
  BY DEF Fine, Core, Base, Typed
<1>2. /\ u \in EngineRec /\ u.r = s.r /\ u.ios = s.ios /\ u.tasks = s.tasks /\ u.timers = s.timers
      /\ u.answers[cmd] = Append(s.answers[cmd], reply)
      /\ \A c \in Commands : c # cmd => u.answers[c] = s.answers[c]
  BY <1>1, AnswerIs
<1> HIDE DEF u
<1>3. s.answers[cmd] = <<>>
  <2>1. s.answers[cmd] \in Seq(Frames \cup {"none"})
    BY <1>1, Typed2
  <2> QED
    BY <2>1, NoPositions DEF Answered
<1>4. DOMAIN u.answers[cmd] = {1} /\ u.answers[cmd][1] = reply
  BY <1>2, <1>3, AppendOnce
<1>5. Live(u) = Live(s) /\ Dying(u) = Dying(s) /\ Readers(u) = Readers(s) /\ Continues(u) = Continues(s)
      /\ Way(u) = Way(s)
  BY <1>2 DEF Live, Dying, Readers, Continues, Way, Stream
<1>6. Typed(u, p) /\ Counted(u, n) /\ QueueOK(u) /\ AllTold(u)
  BY <1>1, <1>2 DEF Typed, Counted, QueueOK, AllTold, Told
<1>7. Connected(u)
  BY <1>1, <1>2 DEF Connected, IoOK
<1>8. LockOK(u, p, FALSE)
  BY <1>1, <1>2, <1>5 DEF LockOK, StepOK, GreetOK, SentOK, FramesOK
<1>9. AnswersOK(u, p)
  <2>1. ASSUME NEW c \in Commands, NEW k \in DOMAIN u.answers[c]
        PROVE  u.answers[c][k] = c \/ (u.answers[c][k] = "none" /\ ~u.r.running)
    <3>1. CASE c = cmd
      BY <1>2, <1>4, <2>1, <3>1
    <3>2. CASE c # cmd
      BY <1>1, <1>2, <2>1, <3>2 DEF AnswersOK
    <3> QED
      BY <3>1, <3>2
  <2> QED
    BY <1>1, <1>2, <2>1 DEF AnswersOK
<1>10. SubsOK(u, b)
  BY <1>2, <1>5 DEF SubsOK
<1>11. ReadersOK(u) /\ DyingOK(u) /\ Retries(u)
  BY <1>1, <1>2, <1>5 DEF ReadersOK, DyingOK, Retries
<1>12. ReadyOK(u)
  <2>1. \A j : Readies(u, j) = Readies(s, j)
    BY <1>2 DEF Readies
  <2> QED
    BY <1>1, <1>2, <2>1 DEF ReadyOK
<1>13. \A c : InTasks(u, c) = InTasks(s, c) /\ InQueue(u, c) = InQueue(s, c)
  BY <1>2 DEF InTasks, InQueue
<1>14. PlaceOK(u, b, cmd)
  <2>1. Answered(u, cmd) = {1}
    BY <1>4 DEF Answered
  <2> QED
    BY <1>13, <2>1 DEF PlaceOK, Single
<1>15. ASSUME NEW c \in Commands, c # cmd PROVE PlaceOK(u, b, c)
  <2>1. Answered(u, c) = Answered(s, c) /\ PlaceOK(s, b, c)
    BY <1>2, <1>15 DEF Answered
  <2> QED
    BY <1>13, <2>1 DEF PlaceOK
<1> QED
  BY <1>6, <1>7, <1>8, <1>9, <1>10, <1>11, <1>12, <1>14, <1>15 DEF Good, Fine, Core, Base, u

(* The task that carried a command has left it nowhere.                    *)
LEMMA PoppedCarrier ==
    ASSUME NEW s, NEW a, NEW p, NEW n \in Nat, Good(s, a, p, n), s.tasks # <<>>,
           Head(s.tasks).fn \in {"attach_cmd", "perform_callback"}, Head(s.tasks) # Refusal
    PROVE  LET u == Popped(s)
               t == Head(s.tasks)
           IN  /\ Fine(u, a, p, n + 1) /\ Retries(u) /\ u \in EngineRec /\ TaskOK(t, u.ios, p)
               /\ \A cmd \in Commands : cmd # t.arg => PlaceOK(u, a, cmd)
               /\ t.arg \in Commands =>
                    /\ InTasks(u, t.arg) = {} /\ InQueue(u, t.arg) = {} /\ Answered(u, t.arg) = {}
                    /\ t.arg \in a.sent /\ t.arg \notin a.calls
<1> DEFINE u == Popped(s)
           t == Head(s.tasks)
<1>1. /\ s \in EngineRec /\ Fine(s, a, p, n) /\ Retries(s) /\ DyingOK(s)
      /\ \A cmd \in Commands : PlaceOK(s, a, cmd)
  BY GoodParts
<1>2. One(Owned(t)) = 1 /\ \A cmd : Carries(t, cmd) <=> cmd = t.arg
  BY DEF One, Owned, OwningTasks, Carries
<1>3. /\ u \in EngineRec /\ Contents(s.tasks) = {t} \cup Contents(u.tasks) /\ u.r = s.r /\ u.ios = s.ios
  BY <1>1, PoppedIs
<1>4. /\ Core(u, a, p, n + 1, FALSE) /\ ReadersOK(u) /\ ReadyOK(u) /\ TaskOK(t, u.ios, p)
      /\ Dying(u) => u.r.buf = <<>> /\ Readers(u) = {}
  <2>1. n + 1 \in Nat /\ n + 1 = n + One(Owned(t))
    BY <1>2
  <2>2. t.fn # "closed" /\ t.fn # "continue"
    OBVIOUS
  <2> QED
    BY <1>1, <2>1, <2>2, PoppedFine
<1>5. DyingOK(u)
  <2>1. Dying(u) = Dying(s)
    BY <1>3 DEF Dying, Live
  <2>2. t # Refusal
    OBVIOUS
  <2> QED
    BY <1>1, <1>3, <1>4, <2>1, <2>2 DEF DyingOK
<1>6. Retries(u)
  BY <1>1, PoppedRest
<1>7. \A cmd \in Commands : cmd # t.arg => PlaceOK(u, a, cmd)
  BY <1>1, <1>2, PoppedRest
<1>8. t.arg \in Commands =>
        /\ InTasks(u, t.arg) = {} /\ InQueue(u, t.arg) = {} /\ Answered(u, t.arg) = {}
        /\ t.arg \in a.sent /\ t.arg \notin a.calls
  BY <1>1, <1>2, PoppedRest
<1> QED
  BY <1>3, <1>4, <1>5, <1>6, <1>7, <1>8 DEF Fine

LEMMA FreedGood ==
    ASSUME NEW s, NEW a, NEW p, NEW n \in Nat, Good(s, a, p, n + 1)
    PROVE  Good(Free(s), a, p, n)
<1>1. Fine(s, a, p, n + 1) /\ Retries(s) /\ \A cmd \in Commands : PlaceOK(s, a, cmd)
  BY GoodParts
<1> QED
  BY <1>1, FreeGood DEF Good

LEMMA AttachGood ==
    ASSUME NEW s, NEW a, NEW p, NEW n \in Nat, Good(s, a, p, n), s.tasks # <<>>,
           Head(s.tasks).fn = "attach_cmd"
    PROVE  Good(AttachCmd(Popped(s), Head(s.tasks).arg), a, p, n)
<1> DEFINE v == Popped(s)
           t == Head(s.tasks)
           cmd == t.arg
<1>1. t # Refusal /\ t.fn = "attach_cmd" /\ n + 1 \in Nat
  BY DEF Refusal, Task
<1>2. /\ Fine(v, a, p, n + 1) /\ Retries(v) /\ v \in EngineRec /\ TaskOK(t, v.ios, p)
      /\ \A c \in Commands : c # cmd => PlaceOK(v, a, c)
      /\ cmd \in Commands =>
           /\ InTasks(v, cmd) = {} /\ InQueue(v, cmd) = {} /\ Answered(v, cmd) = {}
           /\ cmd \in a.sent /\ cmd \notin a.calls
  BY <1>1, PoppedCarrier
<1>3. cmd \in Commands /\ cmd \in Words /\ cmd # "HELLO" /\ cmd \notin NoWait
  BY <1>1, <1>2, RedisAssumption DEF TaskOK, Words, Reserved
<1>4. SubsOK(v, a)
  BY <1>2 DEF Fine, Core, Base
<1> HIDE DEF v, t
<1>5. CASE v.r.running
  <2>1. AttachCmd(v, cmd) = Free(SendNextCmd(Queue(v, cmd)))
    BY <1>5 DEF AttachCmd
  <2>2. SubsOK(Queue(v, cmd), a)
    BY <1>2, <1>3, <1>4, QueueSubs
  <2>3. ASSUME NEW c \in Commands PROVE PlaceOK(Queue(v, cmd), a, c)
    <3>1. CASE c = cmd
      BY <1>2, <1>3, <3>1, QueueRest
    <3>2. CASE c # cmd
      BY <1>2, <1>3, <3>2, QueueRest
    <3> QED
      BY <3>1, <3>2
  <2>4. Good(SendNextCmd(Queue(v, cmd)), a, p, n + 1)
    BY <1>1, <1>2, <1>3, <1>5, <2>2, <2>3, QueueGood
  <2> QED
    BY <2>1, <2>4, FreedGood DEF v, t
<1>6. CASE ~v.r.running
  <2>1. AttachCmd(v, cmd) = Free(Answer(v, cmd, "none"))
    BY <1>6 DEF AttachCmd, Answer
  <2>2. Good(Answer(v, cmd, "none"), a, p, n + 1)
    BY <1>1, <1>2, <1>3, <1>4, <1>6, AnswerGood
  <2> QED
    BY <2>1, <2>2, FreedGood DEF v, t
<1> QED
  BY <1>5, <1>6
(* The engine stops for good: its connection is closed already.            *)
Stopped(s) == [s EXCEPT !.r.running = FALSE]

LEMMA StoppedIs ==
    ASSUME NEW s \in EngineRec
    PROVE  LET u == Stopped(s)
           IN  /\ u \in EngineRec /\ u.r.refs = s.r.refs
               /\ u.r.running = FALSE /\ u.r.attached = s.r.attached
               /\ u.r.pub_sent = s.r.pub_sent /\ u.r.io = s.r.io /\ u.r.ready = s.r.ready
               /\ u.r.cmd_queue = s.r.cmd_queue /\ u.r.buf = s.r.buf
               /\ u.ios = s.ios /\ u.timers = s.timers /\ u.answers = s.answers
               /\ u.tasks = s.tasks
<1> DEFINE x == [s.r EXCEPT !.running = FALSE]
<1>1. s.r \in RRec
  BY DEF EngineRec, RRec
<1>2. /\ x \in RRec /\ x.refs = s.r.refs /\ x.running = FALSE
      /\ x.attached = s.r.attached /\ x.pub_sent = s.r.pub_sent /\ x.io = s.r.io
      /\ x.ready = s.r.ready /\ x.cmd_queue = s.r.cmd_queue /\ x.buf = s.r.buf
  BY <1>1 DEF RRec
<1>3. Stopped(s) = [s EXCEPT !.r = x]
  BY DEF Stopped
<1> HIDE DEF x
<1> DEFINE u == [s EXCEPT !.r = x]
<1>4. /\ u \in EngineRec /\ u.r = x /\ u.ios = s.ios /\ u.tasks = s.tasks
      /\ u.timers = s.timers /\ u.answers = s.answers
  BY <1>2, SetR
<1> QED
  BY <1>2, <1>3, <1>4

LEMMA StoppedGood ==
    ASSUME NEW s, NEW a, NEW p, NEW n \in Nat, Core(s, a, p, n, FALSE), ReadersOK(s), ReadyOK(s),
           \A cmd \in Commands : PlaceOK(s, a, cmd),
           s.r.io = NoIo \/ s.ios[s.r.io].closed, p.refused
    PROVE  Good(Stopped(s), a, p, n)
<1> DEFINE u == Stopped(s)
<1>1. /\ s \in EngineRec /\ Typed(s, p) /\ Counted(s, n) /\ Connected(s) /\ LockOK(s, p, FALSE)
      /\ QueueOK(s) /\ AnswersOK(s, p) /\ AllTold(s) /\ SubsOK(s, a)
  BY DEF Core, Base, Typed
<1>2. /\ u \in EngineRec /\ u.r.refs = s.r.refs
      /\ u.r.running = FALSE /\ u.r.attached = s.r.attached
      /\ u.r.pub_sent = s.r.pub_sent /\ u.r.io = s.r.io /\ u.r.ready = s.r.ready
      /\ u.r.cmd_queue = s.r.cmd_queue /\ u.r.buf = s.r.buf
      /\ u.ios = s.ios /\ u.timers = s.timers /\ u.answers = s.answers
      /\ u.tasks = s.tasks
  BY <1>1, StoppedIs
<1> HIDE DEF u
<1>3. ~Live(s) /\ ~Live(u) /\ ~Dying(s) /\ ~Dying(u) /\ Readers(u) = Readers(s)
      /\ Continues(u) = Continues(s) /\ Way(u) = Way(s)
  BY <1>2 DEF Live, Dying, Readers, Continues, Way, Stream
<1>4. Typed(u, p) /\ Counted(u, n) /\ QueueOK(u) /\ AllTold(u)
  BY <1>1, <1>2 DEF Typed, Counted, QueueOK, AllTold, Told
<1>5. Connected(u)
  <2>1. ASSUME NEW j \in DOMAIN s.ios PROVE IoOK(u, j)
    <3>1. IoOK(s, j) /\ j \in Nat \ {0}
      BY <1>1, <2>1, IoType DEF Connected
    <3>2. s.ios[j].closed
      BY <3>1 DEF IoOK, NoIo
    <3> QED
      BY <1>2, <3>1, <3>2 DEF IoOK
  <2> QED
    BY <1>1, <1>2, <2>1 DEF Connected
<1>6. LockOK(u, p, FALSE)
  BY <1>1, <1>2, <1>3 DEF LockOK, StepOK, GreetOK, SentOK, FramesOK
<1>7. AnswersOK(u, p) /\ SubsOK(u, a)
  BY <1>1, <1>2 DEF AnswersOK, SubsOK
<1>8. ReadersOK(u) /\ DyingOK(u) /\ Retries(u)
  BY <1>2, <1>3 DEF ReadersOK, DyingOK, Retries
<1>9. ReadyOK(u)
  <2>1. \A j : Readies(u, j) = Readies(s, j)
    BY <1>2 DEF Readies
  <2> QED
    BY <1>1, <1>2, <2>1 DEF ReadyOK
<1>10. \A cmd \in Commands : PlaceOK(u, a, cmd)
  <2>1. \A cmd : InTasks(u, cmd) = InTasks(s, cmd)
    BY <1>2 DEF InTasks
  <2> QED
    BY <1>2, <2>1, PlacesSame
<1> QED
  BY <1>4, <1>5, <1>6, <1>7, <1>8, <1>9, <1>10 DEF Good, Fine, Core, Base, u

LEMMA StoppedClose ==
    ASSUME NEW s \in EngineRec, NEW i \in DOMAIN s.ios
    PROVE  Stopped(CloseNow(s, i)) = CloseNow(Stopped(s), i)
BY Zenon DEF Stopped, CloseNow, EngineRec, Defer, Task

LEMMA RefusedGood ==
    ASSUME NEW s, NEW a, NEW p, NEW n \in Nat, Good(s, a, p, n), s.tasks # <<>>,
           Head(s.tasks).fn = "perform_callback", Head(s.tasks).arg = "HELLO",
           Head(s.tasks).reply # "HELLO"
    PROVE  Good(PerformCallback(Popped(s), "HELLO", Head(s.tasks).reply), a, p, n)
<1> DEFINE v == Popped(s)
           t == Head(s.tasks)
           i == v.r.io
<1>1. /\ s \in EngineRec /\ Fine(s, a, p, n) /\ \A cmd \in Commands : PlaceOK(s, a, cmd)
  BY GoodParts
<1>2. One(Owned(t)) = 1 /\ "HELLO" \notin Commands /\ n + 1 \in Nat
  BY RedisAssumption DEF One, Owned, OwningTasks, Reserved
<1>3. /\ Core(v, a, p, n + 1, FALSE) /\ ReadersOK(v) /\ ReadyOK(v) /\ TaskOK(t, v.ios, p)
      /\ Dying(v) => v.r.buf = <<>>
  <2>1. n + 1 = n + One(Owned(t))
    BY <1>2
  <2>2. t.fn # "closed" /\ t.fn # "continue"
    OBVIOUS
  <2> QED
    BY <1>1, <1>2, <2>1, <2>2, PoppedFine
<1>4. \A cmd \in Commands : PlaceOK(v, a, cmd)
  <2>1. \A cmd \in Commands : ~Carries(t, cmd)
    BY <1>2 DEF Carries
  <2> QED
    BY <1>1, <2>1, PoppedRest
<1>5. p.refused
  BY <1>3 DEF TaskOK
<1>6. v \in EngineRec /\ Connected(v)
  BY <1>3 DEF Core, Base, Typed
<1>7. Good(OnHelloReply(v, t.reply), a, p, n + 1)
  <2> HIDE DEF v, t
  <2>1. CASE v.r.io = NoIo
    <3>1. OnHelloReply(v, t.reply) = Stopped(v)
      BY <2>1 DEF OnHelloReply, Stopped, t
    <3> QED
      BY <1>2, <1>3, <1>4, <1>5, <2>1, <3>1, StoppedGood
  <2>2. CASE v.r.io # NoIo
    <3> DEFINE x == CloseNow(v, i)
    <3>1. i \in DOMAIN v.ios
      BY <1>6, <2>2 DEF Connected
    <3>2. OnHelloReply(v, t.reply) = CloseNow(Stopped(v), i)
      BY <2>2 DEF OnHelloReply, Stopped, t
    <3>3. CloseNow(Stopped(v), i) = Stopped(x)
      BY <1>6, <3>1, StoppedClose
    <3>4. Core(x, a, p, n + 1, FALSE)
      BY <1>2, <1>3, <3>1, CloseNowCore
    <3>5. ReadersOK(x) /\ ReadyOK(x) /\ \A cmd \in Commands : PlaceOK(x, a, cmd)
      BY <1>3, <1>4, <1>6, <3>1, CloseNowRest
    <3>6. x.r.io = i /\ x.ios[i].closed
      <4>1. CASE v.ios[i].closed
        BY <4>1 DEF CloseNow
      <4>2. CASE ~v.ios[i].closed
        BY <1>6, <3>1, <4>2, CloseNowIs
      <4> QED
        BY <4>1, <4>2
    <3> HIDE DEF x
    <3>7. Good(Stopped(x), a, p, n + 1)
      BY <1>2, <1>5, <3>4, <3>5, <3>6, StoppedGood
    <3> QED
      BY <3>2, <3>3, <3>7
  <2> QED
    BY <2>1, <2>2
<1>8. PerformCallback(v, "HELLO", t.reply) = Free(OnHelloReply(v, t.reply))
  <2> HIDE DEF v, t
  <2> QED
    BY <1>2, Zenon DEF PerformCallback
<1> QED
  BY <1>7, <1>8, FreedGood

LEMMA CallbackGood ==
    ASSUME NEW s, NEW a, NEW p, NEW n \in Nat, Good(s, a, p, n), s.tasks # <<>>,
           Head(s.tasks).fn = "perform_callback"
    PROVE  Good(PerformCallback(Popped(s), Head(s.tasks).arg, Head(s.tasks).reply), a, p, n)
<1> DEFINE v == Popped(s)
           t == Head(s.tasks)
<1>1. CASE t.arg = "HELLO" /\ t.reply # "HELLO"
  BY <1>1, RefusedGood
<1>2. CASE ~(t.arg = "HELLO" /\ t.reply # "HELLO")
  <2>1. t # Refusal /\ n + 1 \in Nat
    BY <1>2 DEF Refusal, Task
  <2>2. /\ Fine(v, a, p, n + 1) /\ Retries(v) /\ v \in EngineRec /\ TaskOK(t, v.ios, p)
        /\ \A c \in Commands : c # t.arg => PlaceOK(v, a, c)
        /\ t.arg \in Commands =>
             /\ InTasks(v, t.arg) = {} /\ InQueue(v, t.arg) = {} /\ Answered(v, t.arg) = {}
             /\ t.arg \in a.sent /\ t.arg \notin a.calls
    BY <2>1, PoppedCarrier
  <2>3. t.arg \in Commands \cup {"HELLO", "PING"} /\ t.reply = t.arg
        /\ "HELLO" \notin Commands /\ "PING" \notin Commands
    BY <1>2, <2>2, RedisAssumption DEF TaskOK, Reserved
  <2>4. SubsOK(v, a)
    BY <2>2 DEF Fine, Core, Base
  <2> HIDE DEF v, t
  <2>5. CASE t.arg \in Commands
    <3>1. t.reply \in Frames \cup {"none"}
      BY <2>3, <2>5 DEF Frames, Words
    <3>2. PerformCallback(v, t.arg, t.reply) = Free(Answer(v, t.arg, t.reply))
      BY <2>3, <2>5 DEF PerformCallback, Answer
    <3>3. Good(Answer(v, t.arg, t.reply), a, p, n + 1)
      BY <2>1, <2>2, <2>3, <2>4, <2>5, <3>1, AnswerGood
    <3> QED
      BY <3>2, <3>3, FreedGood DEF v, t
  <2>6. CASE t.arg \notin Commands
    <3>1. PerformCallback(v, t.arg, t.reply) = Free(v)
      BY <2>3, <2>6 DEF PerformCallback, OnHelloReply
    <3>2. Good(v, a, p, n + 1)
      BY <2>2, <2>6 DEF Good
    <3> QED
      BY <3>1, <3>2, FreedGood DEF v, t
  <2> QED
    BY <2>5, <2>6
<1> QED
  BY <1>1, <1>2
-----------------------------------------------------------------------------
(* Connecting.                                                             *)

Connecting(s) == [s EXCEPT !.ios = Append(@, NewIo), !.r.io = Len(s.ios) + 1]

LEMMA ConnectingIs ==
    ASSUME NEW s \in EngineRec
    PROVE  LET u == Connecting(s)
           IN  /\ u \in EngineRec /\ u.r.refs = s.r.refs
               /\ u.r.running = s.r.running /\ u.r.attached = s.r.attached
               /\ u.r.pub_sent = s.r.pub_sent /\ u.r.io = Len(s.ios) + 1 /\ u.r.ready = s.r.ready
               /\ u.r.cmd_queue = s.r.cmd_queue /\ u.r.buf = s.r.buf
               /\ u.timers = s.timers /\ u.answers = s.answers /\ u.tasks = s.tasks
               /\ Len(s.ios) \in Nat /\ DOMAIN s.ios = 1 .. Len(s.ios)
               /\ DOMAIN u.ios = 1 .. Len(s.ios) + 1
               /\ \A j \in DOMAIN s.ios : u.ios[j] = s.ios[j]
               /\ u.ios[Len(s.ios) + 1] = NewIo
<1> DEFINE m == Len(s.ios) + 1
           x == [s.r EXCEPT !.io = m]
           y == Append(s.ios, NewIo)
           v == [s EXCEPT !.ios = y]
           u == [v EXCEPT !.r = x]
<1>1. s.r \in RRec /\ s.ios \in Seq(IoRec)
  BY DEF EngineRec, RRec
<1>2. NewIo \in IoRec
  <2>1. <<>> \in Seq(Words) /\ <<>> \in Seq(Frames)
    OBVIOUS
  <2> QED
    BY <2>1 DEF NewIo, IoRec
<1>3. /\ Len(s.ios) \in Nat /\ DOMAIN s.ios = 1 .. Len(s.ios) /\ DOMAIN y = 1 .. Len(s.ios) + 1
      /\ \A j \in 1 .. Len(s.ios) : y[j] = s.ios[j]
      /\ y[Len(s.ios) + 1] = NewIo
  BY <1>1, <1>2, HeadAppend
<1>4. y \in Seq(IoRec)
  BY <1>1, <1>2, ContentsAppend
<1>5. /\ x \in RRec /\ x.refs = s.r.refs /\ x.running = s.r.running
      /\ x.attached = s.r.attached /\ x.pub_sent = s.r.pub_sent /\ x.io = m
      /\ x.ready = s.r.ready /\ x.cmd_queue = s.r.cmd_queue /\ x.buf = s.r.buf
  <2>1. m \in Nat
    BY <1>3
  <2> HIDE DEF m
  <2> QED
    BY <1>1, <2>1 DEF RRec
<1>6. Connecting(s) = u
  BY DEF Connecting, EngineRec
<1> HIDE DEF x, y
<1>7. /\ v \in EngineRec /\ v.r = s.r /\ v.ios = y /\ v.tasks = s.tasks
      /\ v.timers = s.timers /\ v.answers = s.answers
  BY <1>4, SetIos
<1> HIDE DEF v
<1>8. /\ u \in EngineRec /\ u.r = x /\ u.ios = y /\ u.tasks = s.tasks
      /\ u.timers = s.timers /\ u.answers = s.answers
  BY <1>5, <1>7, SetR
<1> HIDE DEF u
<1> QED
  BY <1>3, <1>5, <1>6, <1>8

LEMMA ConnectingGood ==
    ASSUME NEW s, NEW a, NEW p, NEW n \in Nat, Fine(s, a, p, n), s.r.running, s.r.io = NoIo,
           \A cmd \in Commands : PlaceOK(s, a, cmd)
    PROVE  Good(Connecting(s), a, p, n)
<1> DEFINE u == Connecting(s)
           m == Len(s.ios) + 1
<1>1. /\ s \in EngineRec /\ Typed(s, p) /\ Counted(s, n) /\ Connected(s) /\ LockOK(s, p, FALSE)
      /\ QueueOK(s) /\ AnswersOK(s, p) /\ AllTold(s) /\ SubsOK(s, a)
      /\ ReadersOK(s) /\ ReadyOK(s) /\ DyingOK(s)
  BY DEF Fine, Core, Base, Typed
<1>2. /\ u \in EngineRec /\ u.r.refs = s.r.refs
      /\ u.r.running = s.r.running /\ u.r.attached = s.r.attached
      /\ u.r.pub_sent = s.r.pub_sent /\ u.r.io = m /\ u.r.ready = s.r.ready
      /\ u.r.cmd_queue = s.r.cmd_queue /\ u.r.buf = s.r.buf
      /\ u.timers = s.timers /\ u.answers = s.answers /\ u.tasks = s.tasks
      /\ Len(s.ios) \in Nat /\ DOMAIN s.ios = 1 .. Len(s.ios)
      /\ DOMAIN u.ios = 1 .. m
      /\ \A j \in DOMAIN s.ios : u.ios[j] = s.ios[j]
      /\ u.ios[m] = NewIo
  BY <1>1, ConnectingIs
<1>3. m \in Nat /\ m # NoIo /\ m \notin DOMAIN s.ios /\ DOMAIN u.ios = DOMAIN s.ios \cup {m}
  BY <1>2 DEF NoIo
<1> HIDE DEF u, m
<1>4. s.r.ready = FALSE /\ s.r.buf = <<>>
  BY <1>1, Typed2 DEF Connected
<1>5. /\ u.ios[m].st = "connecting" /\ u.ios[m].closed = FALSE /\ u.ios[m].owned = TRUE
      /\ u.ios[m].up = <<>> /\ u.ios[m].down = <<>> /\ u.ios[m].proto = "none" /\ u.ios[m].subs = FALSE
  BY <1>2 DEF NewIo
<1>6. ~Live(s) /\ ~Live(u) /\ ~Dying(s) /\ ~Dying(u) /\ Continues(u) = Continues(s)
  BY <1>2, <1>4 DEF Live, Dying, Continues
<1>7. ASSUME NEW k \in DOMAIN s.tasks
      PROVE  TaskOK(s.tasks[k], s.ios, p)
  <2>1. s.tasks[k] \in Contents(s.tasks)
    BY DEF Contents
  <2> QED
    BY <1>1, <2>1 DEF Typed
<1>8. Typed(u, p)
  <2>1. ASSUME NEW t \in Contents(s.tasks) PROVE TaskOK(t, u.ios, p)
    <3>1. TaskOK(t, s.ios, p)
      BY <1>1 DEF Typed
    <3> QED
      BY <1>3, <3>1 DEF TaskOK
  <2> QED
    BY <1>2, <2>1 DEF Typed
<1>9. Counted(u, n)
  BY <1>1, <1>2 DEF Counted
<1>10. Connected(u)
  <2>1. ASSUME NEW j \in DOMAIN u.ios PROVE IoOK(u, j)
    <3>1. CASE j = m
      BY <1>1, <1>2, <1>5, <3>1 DEF IoOK
    <3>2. CASE j # m
      <4>1. j \in DOMAIN s.ios /\ j # NoIo
        BY <1>3, <1>2, <2>1, <3>2 DEF NoIo
      <4>2. IoOK(s, j)
        BY <1>1, <4>1 DEF Connected
      <4> QED
        BY <1>2, <3>2, <4>1, <4>2 DEF IoOK
    <3> QED
      BY <3>1, <3>2
  <2> QED
    BY <1>2, <1>3, <1>4, <1>5, <2>1 DEF Connected
<1>11. LockOK(u, p, FALSE)
  <2>1. StepOK(u, FALSE)
    <3>1. Way(u) = <<>>
      <4>1. Way(u) = (<<>> \o <<>>) \o <<>>
        BY <1>2, <1>4, <1>5 DEF Way, Stream
      <4> QED
        BY <4>1
    <3> QED
      BY <3>1, EmptyWay, NoneInStep DEF StepOK
  <2>2. GreetOK(u) /\ SentOK(u)
    BY <1>6 DEF GreetOK, SentOK
  <2>3. FramesOK(u, p)
    <3>1. \A f \in Contents(u.r.buf) : FrameOK(f, p)
      BY <1>1, <1>2 DEF LockOK, FramesOK
    <3>2. ASSUME NEW j \in DOMAIN u.ios, NEW f \in Contents(u.ios[j].down) PROVE FrameOK(f, p)
      <4>1. CASE j = m
        BY <1>5, <3>2, <4>1 DEF Contents
      <4>2. CASE j # m
        BY <1>1, <1>2, <1>3, <3>2, <4>2 DEF LockOK, FramesOK
      <4> QED
        BY <4>1, <4>2
    <3> QED
      BY <3>1, <3>2 DEF FramesOK
  <2> QED
    BY <2>1, <2>2, <2>3 DEF LockOK
<1>12. QueueOK(u)
  BY <1>1, <1>2, <1>4 DEF QueueOK
<1>13. AnswersOK(u, p) /\ SubsOK(u, a)
  BY <1>1, <1>2, <1>6 DEF AnswersOK, SubsOK
<1>14. AllTold(u)
  <2>1. ASSUME NEW j \in DOMAIN u.ios PROVE Told(u, j)
    <3>1. CASE j = m
      BY <1>5, <3>1 DEF Told
    <3>2. CASE j # m
      <4>1. j \in DOMAIN s.ios
        BY <1>3, <2>1, <3>2
      <4>2. Told(s, j)
        BY <1>1, <4>1 DEF AllTold
      <4> QED
        BY <1>2, <4>1, <4>2 DEF Told
    <3> QED
      BY <3>1, <3>2
  <2>2. ASSUME NEW t \in Contents(s.tasks), t.fn = "closed" PROVE u.ios[t.arg].closed
    <3>1. TaskOK(t, s.ios, p) /\ s.ios[t.arg].closed
      BY <1>1, <2>2 DEF Typed, AllTold
    <3> QED
      BY <1>2, <2>2, <3>1 DEF TaskOK
  <2> QED
    BY <1>2, <2>1, <2>2 DEF AllTold
<1>15. ReadersOK(u)
  <2>1. Readers(u) = Readers(s)
    <3>1. ASSUME NEW k \in DOMAIN s.tasks PROVE Reads(s.tasks[k], m) = Reads(s.tasks[k], NoIo)
      <4>1. NoIo \notin DOMAIN s.ios
        BY <1>2 DEF NoIo
      <4> QED
        BY <1>3, <1>7, <4>1 DEF Reads, TaskOK
    <3> QED
      BY <1>2, <3>1 DEF Readers
  <2> QED
    BY <1>1, <1>6, <2>1 DEF ReadersOK
<1>16. ReadyOK(u)
  <2>1. \A j : Readies(u, j) = Readies(s, j)
    BY <1>2 DEF Readies
  <2>2. Readies(s, m) = {}
    BY <1>3, <1>7 DEF Readies, TaskOK
  <2>3. Single({})
    BY SingleAdded
  <2> QED
    BY Zenon, <1>1, <1>2, <1>3, <2>1, <2>2, <2>3 DEF ReadyOK
<1>17. DyingOK(u) /\ Retries(u)
  BY <1>2, <1>3, <1>6 DEF DyingOK, Retries
<1>18. \A cmd \in Commands : PlaceOK(u, a, cmd)
  <2>1. \A cmd : InTasks(u, cmd) = InTasks(s, cmd)
    BY <1>2 DEF InTasks
  <2> QED
    BY <1>2, <2>1, PlacesSame
<1> QED
  BY <1>8, <1>9, <1>10, <1>11, <1>12, <1>13, <1>14, <1>15, <1>16, <1>17, <1>18 DEF Good, Fine, Core, Base, u

LEMMA ConnectGood ==
    ASSUME NEW s, NEW a, NEW p, NEW n \in Nat, Good(s, a, p, n), s.tasks # <<>>,
           Head(s.tasks).fn = "connect"
    PROVE  Good(Free(ConnectImpl(Popped(s), TRUE)), a, p, n)
<1> DEFINE v == Popped(s)
           t == Head(s.tasks)
<1>1. /\ s \in EngineRec /\ Fine(s, a, p, n) /\ \A cmd \in Commands : PlaceOK(s, a, cmd)
  BY GoodParts
<1>2. One(Owned(t)) = 1 /\ n + 1 \in Nat /\ \A cmd : ~Carries(t, cmd)
  BY DEF One, Owned, OwningTasks, Carries
<1>3. Fine(v, a, p, n + 1)
  <2>1. n + 1 = n + One(Owned(t))
    BY <1>2
  <2>2. t.fn \notin {"closed", "continue", "perform_callback"}
    OBVIOUS
  <2> QED
    BY <1>1, <1>2, <2>1, <2>2, PoppedFine
<1>4. \A cmd \in Commands : PlaceOK(v, a, cmd)
  BY <1>1, <1>2, PoppedRest
<1> HIDE DEF v
<1>5. CASE ~v.r.running \/ v.r.io # NoIo
  <2>1. ConnectImpl(v, TRUE) = v
    BY <1>5 DEF ConnectImpl
  <2>2. Good(v, a, p, n + 1)
    BY <1>3, <1>4, <1>5 DEF Good, Retries
  <2> QED
    BY <2>1, <2>2, FreedGood DEF v
<1>6. CASE v.r.running /\ v.r.io = NoIo
  <2>1. ConnectImpl(v, TRUE) = Connecting(v)
    BY <1>6 DEF ConnectImpl, Connecting
  <2>2. Good(Connecting(v), a, p, n + 1)
    BY <1>2, <1>3, <1>4, <1>6, ConnectingGood
  <2> QED
    BY <2>1, <2>2, FreedGood DEF v
<1> QED
  BY <1>5, <1>6
-----------------------------------------------------------------------------
(* The connection is made: the handshake goes to the head of the queue.    *)

LEMMA Prepend ==
    ASSUME NEW V, NEW q \in Seq(V), NEW w \in V
    PROVE  LET z == <<w>> \o q
           IN  /\ z \in Seq(V) /\ z # <<>> /\ Head(z) = w /\ z[1] = w
               /\ Len(q) \in Nat /\ DOMAIN q = 1 .. Len(q) /\ DOMAIN z = 1 .. Len(q) + 1
               /\ \A k \in 2 .. Len(q) + 1 : z[k] = q[k - 1]
               /\ \A k \in 1 .. Len(q) : z[k + 1] = q[k]
<1> DEFINE z == <<w>> \o q
<1>1. <<w>> \in Seq(V) /\ Len(<<w>>) = 1 /\ <<w>>[1] = w
  OBVIOUS
<1>2. z \in Seq(V) /\ Len(z) = Len(q) + 1 /\ Len(q) \in Nat /\ DOMAIN q = 1 .. Len(q)
  BY <1>1
<1>3. z[1] = w /\ \A k \in 2 .. Len(q) + 1 : z[k] = q[k - 1]
  BY <1>1
<1> HIDE DEF z
<1>4. DOMAIN z = 1 .. Len(q) + 1 /\ Head(z) = z[1] /\ z # <<>>
  BY <1>2
<1>5. ASSUME NEW k \in 1 .. Len(q) PROVE z[k + 1] = q[k]
  <2>1. k + 1 \in 2 .. Len(q) + 1 /\ (k + 1) - 1 = k
    BY <1>2
  <2> QED
    BY <1>3, <2>1
<1> QED
  BY <1>2, <1>3, <1>4, <1>5 DEF z

LEMMA PrependAt ==
    ASSUME NEW q \in Seq(Words), NEW w \in Words, NEW c, c # w
    PROVE  LET z == <<w>> \o q
           IN  /\ At(z, {c}) = {} <=> At(q, {c}) = {}
               /\ Single(At(q, {c})) => Single(At(z, {c}))
<1> DEFINE z == <<w>> \o q
<1>1. /\ z \in Seq(Words) /\ z[1] = w
      /\ Len(q) \in Nat /\ DOMAIN q = 1 .. Len(q) /\ DOMAIN z = 1 .. Len(q) + 1
      /\ \A k \in 2 .. Len(q) + 1 : z[k] = q[k - 1]
      /\ \A k \in 1 .. Len(q) : z[k + 1] = q[k]
  BY Prepend
<1> HIDE DEF z
<1>2. ASSUME NEW k \in At(z, {c}) PROVE k \in Int /\ k - 1 \in At(q, {c})
  <2>1. k \in 1 .. Len(q) + 1 /\ z[k] = c
    BY <1>1 DEF At
  <2>2. k # 1
    BY <1>1, <2>1
  <2>3. k \in 2 .. Len(q) + 1 /\ k - 1 \in 1 .. Len(q)
    BY <1>1, <2>1, <2>2
  <2>4. q[k - 1] = c
    BY <1>1, <2>1, <2>3
  <2> QED
    BY <1>1, <2>1, <2>3, <2>4 DEF At
<1>3. ASSUME NEW k \in At(q, {c}) PROVE k + 1 \in At(z, {c})
  <2>1. k \in 1 .. Len(q) /\ q[k] = c
    BY <1>1 DEF At
  <2>2. k + 1 \in 1 .. Len(q) + 1 /\ z[k + 1] = c
    BY <1>1, <2>1
  <2> QED
    BY <1>1, <2>2 DEF At
<1>4. Single(At(q, {c})) => Single(At(z, {c}))
  <2>1. ASSUME Single(At(q, {c})), NEW x \in At(z, {c}), NEW y \in At(z, {c}) PROVE x = y
    <3>1. x \in Int /\ y \in Int /\ x - 1 \in At(q, {c}) /\ y - 1 \in At(q, {c})
      BY <1>2
    <3>2. x - 1 = y - 1
      BY <2>1, <3>1 DEF Single
    <3> QED
      BY <3>1, <3>2
  <2> QED
    BY <2>1 DEF Single
<1> QED
  BY <1>2, <1>3, <1>4 DEF z

LEMMA PrependSubs ==
    ASSUME NEW q \in Seq(Words), NEW w \in Words, NEW b, LastIs(q, b)
    PROVE  LET z == <<w>> \o q
           IN  /\ w \notin NoWait => LastIs(z, b) /\ (Silent(z) => Silent(q))
               /\ w \in NoWait /\ (w = "SUBSCRIBE") = b => LastIs(z, b) /\ ~Silent(z)
<1> DEFINE z == <<w>> \o q
<1>1. /\ z \in Seq(Words) /\ z[1] = w
      /\ Len(q) \in Nat /\ DOMAIN q = 1 .. Len(q) /\ DOMAIN z = 1 .. Len(q) + 1
      /\ \A k \in 2 .. Len(q) + 1 : z[k] = q[k - 1]
      /\ \A k \in 1 .. Len(q) : z[k + 1] = q[k]
  BY Prepend
<1> HIDE DEF z
<1>2. Silent(z) => Silent(q)
  <2>1. ASSUME Silent(z), NEW k \in DOMAIN q PROVE q[k] \notin NoWait
    <3>1. k + 1 \in DOMAIN z /\ z[k + 1] = q[k]
      BY <1>1
    <3> QED
      BY <2>1, <3>1 DEF Silent
  <2> QED
    BY <2>1 DEF Silent
<1>3. ASSUME w \notin NoWait \/ (w = "SUBSCRIBE") = b PROVE LastIs(z, b)
  <2>1. ASSUME NEW k \in DOMAIN z, z[k] \in NoWait, \A j \in DOMAIN z : j > k => z[j] \notin NoWait
        PROVE  (z[k] = "SUBSCRIBE") = b
    <3>1. CASE k = 1
      BY <1>1, <1>3, <2>1, <3>1
    <3>2. CASE k # 1
      <4>1. k \in 2 .. Len(q) + 1 /\ k - 1 \in DOMAIN q /\ z[k] = q[k - 1]
        BY <1>1, <2>1, <3>2
      <4>2. ASSUME NEW j \in DOMAIN q, j > k - 1 PROVE q[j] \notin NoWait
        <5>1. j + 1 \in DOMAIN z /\ j + 1 > k /\ z[j + 1] = q[j]
          BY <1>1, <4>1, <4>2
        <5> QED
          BY <2>1, <5>1
      <4> QED
        BY <2>1, <4>1, <4>2 DEF LastIs
    <3> QED
      BY <3>1, <3>2
  <2> QED
    BY <2>1 DEF LastIs
<1>4. w \in NoWait => ~Silent(z)
  <2>1. 1 \in DOMAIN z
    BY <1>1
  <2> QED
    BY <1>1, <2>1 DEF Silent
<1> QED
  BY <1>2, <1>3, <1>4 DEF z

Opened(s, q) ==
    [s EXCEPT !.ios[s.r.io].st = "open", !.r.ready = TRUE, !.r.cmd_queue = q, !.r.pub_sent = FALSE]

LEMMA OpenedIs ==
    ASSUME NEW s \in EngineRec, NEW q \in Seq(Words), s.r.io \in DOMAIN s.ios
    PROVE  LET u == Opened(s, q)
               i == s.r.io
           IN  /\ u \in EngineRec /\ u.r.refs = s.r.refs
               /\ u.r.running = s.r.running /\ u.r.attached = s.r.attached
               /\ u.r.pub_sent = FALSE /\ u.r.io = i /\ u.r.ready = TRUE
               /\ u.r.cmd_queue = q /\ u.r.buf = s.r.buf
               /\ u.timers = s.timers /\ u.answers = s.answers /\ u.tasks = s.tasks
               /\ DOMAIN u.ios = DOMAIN s.ios
               /\ \A j \in DOMAIN s.ios : j # i => u.ios[j] = s.ios[j]
               /\ u.ios[i].closed = s.ios[i].closed /\ u.ios[i].up = s.ios[i].up
               /\ u.ios[i].down = s.ios[i].down
               /\ u.ios[i].st = "open" /\ u.ios[i].owned = s.ios[i].owned
               /\ u.ios[i].proto = s.ios[i].proto /\ u.ios[i].subs = s.ios[i].subs
<1> DEFINE i == s.r.io
           x == [s.r EXCEPT !.ready = TRUE, !.cmd_queue = q, !.pub_sent = FALSE]
           y == [s.ios[i] EXCEPT !.st = "open"]
           v == [s EXCEPT !.ios[i] = y]
           u == [v EXCEPT !.r = x]
<1>1. s.r \in RRec /\ s.ios[i] \in IoRec
  BY IoType DEF EngineRec, RRec
<1>2. /\ x \in RRec /\ x.refs = s.r.refs /\ x.running = s.r.running
      /\ x.attached = s.r.attached /\ x.pub_sent = FALSE /\ x.io = s.r.io
      /\ x.ready = TRUE /\ x.cmd_queue = q /\ x.buf = s.r.buf
  BY <1>1 DEF RRec
<1>3. /\ y \in IoRec /\ y.closed = s.ios[i].closed /\ y.up = s.ios[i].up /\ y.down = s.ios[i].down
      /\ y.st = "open" /\ y.owned = s.ios[i].owned /\ y.proto = s.ios[i].proto /\ y.subs = s.ios[i].subs
  BY <1>1 DEF IoRec
<1>4. Opened(s, q) = u
  BY DEF Opened, EngineRec
<1> HIDE DEF x, y
<1>5. /\ v \in EngineRec /\ v.r = s.r /\ v.tasks = s.tasks
      /\ v.timers = s.timers /\ v.answers = s.answers
      /\ DOMAIN v.ios = DOMAIN s.ios /\ v.ios[i] = y
      /\ \A j \in DOMAIN s.ios : j # i => v.ios[j] = s.ios[j]
  BY <1>3, SetIo
<1> HIDE DEF v
<1>6. /\ u \in EngineRec /\ u.r = x /\ u.ios = v.ios /\ u.tasks = v.tasks
      /\ u.timers = v.timers /\ u.answers = v.answers
  BY <1>2, <1>5, SetR
<1> HIDE DEF u
<1> QED
  BY <1>2, <1>3, <1>4, <1>5, <1>6
(* What the connection starts with.                                        *)
Again(s) == s.r.attached /\ s.r.running /\ app.subscribed
Renewed(s) == IF Again(s) THEN <<"SUBSCRIBE">> \o s.r.cmd_queue ELSE s.r.cmd_queue
Opening(s) == <<"HELLO">> \o Renewed(s)

LEMMA OnReadyIs ==
    ASSUME NEW s \in EngineRec, s.r.io \in DOMAIN s.ios, ~s.ios[s.r.io].closed
    PROVE  OnReady(s, s.r.io) = SendNextCmd(Opened(s, Opening(s)))
<1> DEFINE i == s.r.io
           y == [s.ios EXCEPT ![i].st = "open"]
           E(z) == [s EXCEPT !.ios = y, !.r = z]
           w == [s EXCEPT !.ios[i].st = "open"]
           v == [w EXCEPT !.r.io = i, !.r.ready = TRUE]
           x == [s.r EXCEPT !.ready = TRUE]
           X(q) == [s.r EXCEPT !.ready = TRUE, !.cmd_queue = q]
           Y(q) == [s.r EXCEPT !.ready = TRUE, !.cmd_queue = q, !.pub_sent = FALSE]
           First(z, c) == [z EXCEPT !.cmd_queue = <<c>> \o @]
           Unsent(z) == [z EXCEPT !.pub_sent = FALSE]
           Waits(z) == [z EXCEPT !.r.pub_sent = FALSE]
<1>1. OnReady(s, i) = OnAttach(w, i)
  BY DEF OnReady
<1>2. s.r \in RRec
  BY DEF EngineRec, RRec
<1>7. /\ \A z : E(z).r = z
      /\ \A z, c : QueueFirst(E(z), c) = E(First(z, c))
      /\ \A z : Waits(E(z)) = E(Unsent(z))
  <2> HIDE DEF y
  <2> QED
    BY Zenon DEF EngineRec, QueueFirst
<1>8. v = E(x)
  <2>1. w = [s EXCEPT !.ios = y]
    OBVIOUS
  <2> HIDE DEF y, w
  <2> QED
    BY <1>2, <2>1 DEF EngineRec, RRec
<1>9. /\ x.cmd_queue = s.r.cmd_queue
      /\ \A q : X(q) = [x EXCEPT !.cmd_queue = q]
      /\ \A q, c : First(X(q), c) = X(<<c>> \o q)
      /\ \A q : Unsent(X(q)) = Y(q)
      /\ x = X(s.r.cmd_queue)
  BY Zenon, <1>2 DEF RRec
<1>10. \A q : Opened(s, q) = E(Y(q))
  <2> HIDE DEF y
  <2>1. \A q : Opened(s, q) = [[s EXCEPT !.ios = y] EXCEPT !.r = Y(q)]
    <3> QED
      BY <1>2 DEF Opened, EngineRec, RRec, y
  <2> QED
    BY Zenon, <2>1 DEF EngineRec
<1>3. OnAttach(w, i) = SendNextCmd([QueueFirst(Resubscribe(v), "HELLO") EXCEPT !.r.pub_sent = FALSE])
  BY DEF OnAttach
<1>4. v.r.attached = s.r.attached /\ v.r.running = s.r.running /\ v.r.cmd_queue = s.r.cmd_queue
  BY <1>2 DEF RRec, EngineRec
<1>5. CASE Again(s)
  <2>1. Resubscribe(v) = QueueFirst(v, "SUBSCRIBE")
    BY <1>4, <1>5 DEF Resubscribe, Again
  <2>2. Opening(s) = <<"HELLO">> \o (<<"SUBSCRIBE">> \o s.r.cmd_queue)
    BY <1>5 DEF Opening, Renewed
  <2>3. Waits(QueueFirst(QueueFirst(v, "SUBSCRIBE"), "HELLO")) = Opened(s, Opening(s))
    <3> HIDE DEF E, X, Y, v, x, First, Unsent, Waits
    <3>1. QueueFirst(v, "SUBSCRIBE") = E(X(<<"SUBSCRIBE">> \o s.r.cmd_queue))
      BY <1>7, <1>8, <1>9
    <3>2. QueueFirst(QueueFirst(v, "SUBSCRIBE"), "HELLO") = E(X(Opening(s)))
      BY <1>7, <1>9, <2>2, <3>1
    <3> QED
      BY <1>7, <1>9, <1>10, <3>2
  <2> QED
    BY <1>1, <1>3, <2>1, <2>3
<1>6. CASE ~Again(s)
  <2>1. Resubscribe(v) = v
    BY <1>4, <1>6 DEF Resubscribe, Again
  <2>2. Opening(s) = <<"HELLO">> \o s.r.cmd_queue
    BY <1>6 DEF Opening, Renewed
  <2>3. Waits(QueueFirst(v, "HELLO")) = Opened(s, Opening(s))
    <3> HIDE DEF E, X, Y, v, x, First, Unsent, Waits
    <3>1. QueueFirst(v, "HELLO") = E(X(Opening(s)))
      BY <1>7, <1>8, <1>9, <2>2
    <3> QED
      BY <1>7, <1>9, <1>10, <3>1
  <2> QED
    BY <1>1, <1>3, <2>1, <2>3
<1> QED
  BY <1>5, <1>6

LEMMA OpeningIs ==
    ASSUME NEW s \in EngineRec, \A k \in DOMAIN s.r.cmd_queue : s.r.cmd_queue[k] # "HELLO",
           NEW b, LastIs(s.r.cmd_queue, b), Again(s) => b = TRUE
    PROVE  LET q == Opening(s)
           IN  /\ q \in Seq(Words) /\ Greets(q)
               /\ \A k \in DOMAIN q : q[k] = "HELLO" => k = 1
               /\ LastIs(q, b) /\ (Silent(q) => ~Again(s))
               /\ \A cmd \in Commands :
                    LET old == At(s.r.cmd_queue, {cmd})
                    IN  (At(q, {cmd}) = {} <=> old = {}) /\ (Single(old) => Single(At(q, {cmd})))
<1> DEFINE q0 == s.r.cmd_queue
           q1 == Renewed(s)
           q == Opening(s)
<1>1. q0 \in Seq(Words) /\ "HELLO" \in Words /\ "SUBSCRIBE" \in Words /\ "SUBSCRIBE" \in NoWait
      /\ "HELLO" \notin NoWait /\ "HELLO" # "SUBSCRIBE"
      /\ "HELLO" \notin Commands /\ "SUBSCRIBE" \notin Commands
  BY Zenon, Typed2, RedisAssumption DEF Words, NoWait, Reserved
<1>2. /\ q1 \in Seq(Words) /\ LastIs(q1, b) /\ (Silent(q1) => ~Again(s))
      /\ \A k \in DOMAIN q1 : q1[k] # "HELLO"
      /\ \A cmd \in Commands :
           /\ At(q1, {cmd}) = {} <=> At(q0, {cmd}) = {}
           /\ Single(At(q0, {cmd})) => Single(At(q1, {cmd}))
  <2>1. CASE ~Again(s)
    <3>1. q1 = q0
      BY <2>1 DEF Renewed
    <3> HIDE DEF q1
    <3> QED
      BY <1>1, <2>1, <3>1
  <2>2. CASE Again(s)
    <3>1. q1 = <<"SUBSCRIBE">> \o q0
      BY <2>2 DEF Renewed
    <3> HIDE DEF q1
    <3>2. q1 \in Seq(Words) /\ LastIs(q1, b) /\ ~Silent(q1)
      BY <1>1, <2>2, <3>1, Prepend, PrependSubs
    <3>3. /\ q1[1] = "SUBSCRIBE"
          /\ Len(q0) \in Nat /\ DOMAIN q0 = 1 .. Len(q0) /\ DOMAIN q1 = 1 .. Len(q0) + 1
          /\ \A k \in 2 .. Len(q0) + 1 : q1[k] = q0[k - 1]
      BY <1>1, <3>1, Prepend
    <3>4. ASSUME NEW k \in DOMAIN q1 PROVE q1[k] # "HELLO"
      <4>1. CASE k = 1
        BY <1>1, <3>3, <4>1
      <4>2. CASE k # 1
        <5>1. k \in 2 .. Len(q0) + 1 /\ k - 1 \in DOMAIN q0
          BY <3>3, <3>4, <4>2
        <5> QED
          BY <3>3, <5>1
      <4> QED
        BY <4>1, <4>2
    <3>5. \A cmd \in Commands :
            /\ At(q1, {cmd}) = {} <=> At(q0, {cmd}) = {}
            /\ Single(At(q0, {cmd})) => Single(At(q1, {cmd}))
      BY Zenon, <1>1, <3>1, PrependAt
    <3> QED
      BY <3>2, <3>4, <3>5
  <2> QED
    BY <2>1, <2>2
<1>3. q = <<"HELLO">> \o q1
  BY DEF Opening
<1> HIDE DEF q, q1, q0
<1>4. q \in Seq(Words) /\ LastIs(q, b) /\ (Silent(q) => Silent(q1))
  BY <1>1, <1>2, <1>3, Prepend, PrependSubs
<1>5. /\ q # <<>> /\ Head(q) = "HELLO" /\ q[1] = "HELLO"
      /\ Len(q1) \in Nat /\ DOMAIN q1 = 1 .. Len(q1) /\ DOMAIN q = 1 .. Len(q1) + 1
      /\ \A k \in 2 .. Len(q1) + 1 : q[k] = q1[k - 1]
  BY <1>1, <1>2, <1>3, Prepend
<1>6. ASSUME NEW k \in DOMAIN q, q[k] = "HELLO" PROVE k = 1
  <2>1. ASSUME k # 1 PROVE FALSE
    <3>1. k \in 2 .. Len(q1) + 1 /\ k - 1 \in DOMAIN q1
      BY <1>5, <1>6, <2>1
    <3> QED
      BY <1>2, <1>5, <1>6, <3>1
  <2> QED
    BY <2>1
<1>7. \A cmd \in Commands :
        /\ At(q, {cmd}) = {} <=> At(q1, {cmd}) = {}
        /\ Single(At(q1, {cmd})) => Single(At(q, {cmd}))
  BY Zenon, <1>1, <1>2, <1>3, PrependAt
<1> QED
  BY <1>2, <1>4, <1>5, <1>6, <1>7 DEF Greets, q, q0

LEMMA OpenedGood ==
    ASSUME NEW s, NEW p, NEW n \in Nat, Good(s, app, p, n), s.r.io \in DOMAIN s.ios,
           s.ios[s.r.io].st = "connecting", ~s.ios[s.r.io].closed, Readies(s, s.r.io) = {},
           app.system \in BOOLEAN, app.subscribed \in BOOLEAN
    PROVE  Good(SendNextCmd(Opened(s, Opening(s))), app, p, n)
<1> DEFINE i == s.r.io
           q == Opening(s)
           u == Opened(s, q)
<1>1. /\ s \in EngineRec /\ Typed(s, p) /\ Counted(s, n) /\ Connected(s) /\ LockOK(s, p, FALSE)
      /\ QueueOK(s) /\ AnswersOK(s, p) /\ AllTold(s) /\ SubsOK(s, app)
      /\ ReadersOK(s) /\ ReadyOK(s)
      /\ \A cmd \in Commands : PlaceOK(s, app, cmd)
  BY GoodParts
<1>2. IoOK(s, i) /\ i # NoIo /\ i \in Nat
  BY <1>1, IoType DEF Connected, NoIo
<1>3. /\ s.r.running = TRUE /\ s.r.ready = FALSE /\ s.r.buf = <<>> /\ s.ios[i].owned = TRUE
      /\ s.ios[i].closed = FALSE
      /\ s.ios[i].up = <<>> /\ s.ios[i].down = <<>> /\ s.ios[i].proto = "none" /\ s.ios[i].subs = FALSE
  <2>1. s.r.running \in BOOLEAN /\ s.r.ready \in BOOLEAN /\ s.ios[i].owned \in BOOLEAN
        /\ s.ios[i].closed \in BOOLEAN /\ s.ios[i].subs \in BOOLEAN
    BY <1>1, Typed2, IoType
  <2>2. s.r.running = TRUE /\ s.ios[i].owned = TRUE /\ s.ios[i].subs = FALSE
        /\ s.ios[i].up = <<>> /\ s.ios[i].down = <<>> /\ s.ios[i].proto = "none"
    BY <1>2, <2>1 DEF IoOK
  <2>3. s.r.ready = FALSE
    BY <1>1, <1>2, <2>1 DEF Connected
  <2> QED
    BY <1>1, <1>2, <2>1, <2>2, <2>3 DEF Connected
<1>4. \A k \in DOMAIN s.r.cmd_queue : s.r.cmd_queue[k] # "HELLO"
  BY <1>1, <1>3 DEF QueueOK
<1>5. /\ s.r.attached => app.system
      /\ Wants(app) => s.r.attached
      /\ LastIs(s.r.cmd_queue, Wants(app))
      /\ Again(s) <=> Wants(app)
      /\ Again(s) => Wants(app) = TRUE
  BY <1>1, <1>3 DEF SubsOK, Again, Wants
<1>6. /\ q \in Seq(Words) /\ Greets(q)
      /\ \A k \in DOMAIN q : q[k] = "HELLO" => k = 1
      /\ LastIs(q, Wants(app)) /\ (Silent(q) => ~Again(s))
      /\ \A cmd \in Commands :
           /\ At(q, {cmd}) = {} <=> At(s.r.cmd_queue, {cmd}) = {}
           /\ Single(At(s.r.cmd_queue, {cmd})) => Single(At(q, {cmd}))
  BY <1>1, <1>4, <1>5, OpeningIs
<1> HIDE DEF q
<1>7. /\ u \in EngineRec /\ u.r.refs = s.r.refs
      /\ u.r.running = TRUE /\ u.r.attached = s.r.attached
      /\ u.r.pub_sent = FALSE /\ u.r.io = i /\ u.r.ready = TRUE
      /\ u.r.cmd_queue = q /\ u.r.buf = <<>>
      /\ u.timers = s.timers /\ u.answers = s.answers /\ u.tasks = s.tasks
      /\ DOMAIN u.ios = DOMAIN s.ios
      /\ \A j \in DOMAIN s.ios : j # i => u.ios[j] = s.ios[j]
      /\ u.ios[i].closed = FALSE /\ u.ios[i].up = <<>>
      /\ u.ios[i].down = <<>>
      /\ u.ios[i].st = "open" /\ u.ios[i].owned = TRUE
      /\ u.ios[i].proto = "none" /\ u.ios[i].subs = FALSE
  <2>1. /\ u \in EngineRec /\ u.r.refs = s.r.refs
        /\ u.r.running = s.r.running /\ u.r.attached = s.r.attached
        /\ u.r.pub_sent = FALSE /\ u.r.io = i /\ u.r.ready = TRUE
        /\ u.r.cmd_queue = q /\ u.r.buf = s.r.buf
        /\ u.timers = s.timers /\ u.answers = s.answers /\ u.tasks = s.tasks
        /\ DOMAIN u.ios = DOMAIN s.ios
        /\ \A j \in DOMAIN s.ios : j # i => u.ios[j] = s.ios[j]
        /\ u.ios[i].closed = s.ios[i].closed /\ u.ios[i].up = s.ios[i].up
        /\ u.ios[i].down = s.ios[i].down
        /\ u.ios[i].st = "open" /\ u.ios[i].owned = s.ios[i].owned
        /\ u.ios[i].proto = s.ios[i].proto /\ u.ios[i].subs = s.ios[i].subs
    BY <1>1, <1>6, OpenedIs
  <2> HIDE DEF u
  <2> QED
    BY <1>3, <2>1
<1> HIDE DEF u, i
<1>8. /\ Live(u) /\ ~Dying(u) /\ Readers(u) = Readers(s)
      /\ (\A j : Readies(u, j) = Readies(s, j)) /\ (\A c : InTasks(u, c) = InTasks(s, c))
  <2>1. Live(u) /\ ~Dying(u)
    BY <1>2, <1>7 DEF Live, Dying
  <2>2. Readers(u) = Readers(s)
    BY <1>7 DEF Readers, i
  <2>3. (\A j : Readies(u, j) = Readies(s, j)) /\ (\A c : InTasks(u, c) = InTasks(s, c))
    BY <1>7 DEF Readies, InTasks
  <2> QED
    BY <2>1, <2>2, <2>3
<1>9. Way(u) = <<>>
  <2>1. Way(u) = (<<>> \o <<>>) \o <<>>
    BY <1>7 DEF Way, Stream
  <2> QED
    BY <2>1
<1>10. Typed(u, p)
  BY <1>1, <1>7 DEF Typed, TaskOK
<1>11. Counted(u, n)
  BY <1>1, <1>3, <1>7 DEF Counted
<1>12. Connected(u)
  <2>1. ASSUME NEW j \in DOMAIN s.ios PROVE IoOK(u, j)
    <3>1. IoOK(s, j)
      BY <1>1, <2>1 DEF Connected
    <3>2. CASE j = i
      BY <1>7, <3>2 DEF IoOK
    <3>3. CASE j # i
      BY <1>3, <1>7, <2>1, <3>1, <3>3 DEF IoOK, i
    <3> QED
      BY <3>2, <3>3
  <2>2. i \in DOMAIN s.ios
    BY DEF i
  <2>3. u.r.ready = (u.ios[u.r.io].st = "open")
    BY <1>7
  <2>4. /\ u.r.io \in {NoIo} \cup DOMAIN u.ios
        /\ \A j \in DOMAIN u.ios : IoOK(u, j)
        /\ u.r.io = NoIo /\ u.r.running => ~u.r.ready
        /\ (u.r.io # NoIo \/ u.r.running) /\ ~u.r.ready => u.r.buf = <<>>
    BY <1>2, <1>7, <2>1, <2>2
  <2> QED
    BY <2>3, <2>4 DEF Connected
<1>13. FramesOK(u, p)
  <2>1. ASSUME NEW j \in DOMAIN u.ios, NEW f \in Contents(u.ios[j].down) PROVE FrameOK(f, p)
    <3>1. CASE j = i
      BY <1>7, <2>1, <3>1 DEF Contents
    <3>2. CASE j # i
      BY <1>1, <1>7, <2>1, <3>2 DEF LockOK, FramesOK
    <3> QED
      BY <3>1, <3>2
  <2>2. ASSUME NEW f \in Contents(u.r.buf) PROVE FrameOK(f, p)
    BY <1>7, <2>2 DEF Contents
  <2> QED
    BY <2>1, <2>2 DEF FramesOK
<1>14. AnswersOK(u, p)
  BY <1>1, <1>3, <1>7 DEF AnswersOK
<1>15. SubsOK(u, app)
  <2>1. LastIs(u.ios[u.r.io].up, Wants(app))
    BY <1>7 DEF LastIs
  <2>2. Silent(u.r.cmd_queue) => u.ios[u.r.io].subs = Wants(app)
    <3>1. Wants(app) \in BOOLEAN
      BY DEF Wants
    <3> QED
      BY <1>5, <1>6, <1>7, <3>1
  <2> QED
    BY <1>5, <1>6, <1>7, <2>1, <2>2 DEF SubsOK
<1>16. AllTold(u)
  <2>1. ASSUME NEW j \in DOMAIN u.ios PROVE Told(u, j)
    <3>1. CASE j = i
      BY <1>7, <3>1 DEF Told
    <3>2. CASE j # i
      BY <1>1, <1>7, <2>1, <3>2 DEF Told, AllTold
    <3> QED
      BY <3>1, <3>2
  <2>2. ASSUME NEW t \in Contents(s.tasks), t.fn = "closed" PROVE u.ios[t.arg].closed
    <3>1. s.ios[t.arg].closed /\ t.arg \in DOMAIN s.ios
      BY <1>1, <2>2 DEF AllTold, Typed, TaskOK
    <3>2. t.arg # i
      BY <1>3, <3>1 DEF i
    <3> QED
      BY <1>7, <3>1, <3>2
  <2> QED
    BY <1>7, <2>1, <2>2 DEF AllTold
<1>17. Sendable(u, FALSE)
  <2>1. NoneComes(Way(u))
    BY <1>9, EmptyWay
  <2> QED
    BY <1>2, <1>6, <1>7, <1>9, <2>1 DEF Sendable
<1>18. Core(SendNextCmd(u), app, p, n, FALSE)
  BY <1>10, <1>11, <1>12, <1>13, <1>14, <1>15, <1>16, <1>17, SendCore DEF Steady
<1>19. ReadersOK(u) /\ DyingOK(u) /\ Retries(u)
  BY <1>1, <1>2, <1>7, <1>8 DEF ReadersOK, DyingOK, Retries
<1>20. ReadyOK(u)
  BY <1>1, <1>7, <1>8 DEF ReadyOK, i
<1>21. ASSUME NEW cmd \in Commands PROVE PlaceOK(u, app, cmd)
  <2>1. PlaceOK(s, app, cmd)
    BY <1>1
  <2>2. InQueue(u, cmd) = At(q, {cmd}) /\ InQueue(s, cmd) = At(s.r.cmd_queue, {cmd})
    BY <1>7 DEF InQueue, At
  <2>3. /\ InQueue(u, cmd) = {} <=> InQueue(s, cmd) = {}
        /\ Single(InQueue(s, cmd)) => Single(InQueue(u, cmd))
    BY <1>6, <2>2
  <2>4. InTasks(u, cmd) = InTasks(s, cmd) /\ Answered(u, cmd) = Answered(s, cmd)
    BY <1>7, <1>8 DEF Answered
  <2> QED
    BY <2>1, <2>3, <2>4 DEF PlaceOK
<1>22. /\ ReadersOK(SendNextCmd(u)) /\ ReadyOK(SendNextCmd(u)) /\ DyingOK(SendNextCmd(u))
       /\ Retries(SendNextCmd(u)) /\ \A cmd \in Commands : PlaceOK(SendNextCmd(u), app, cmd)
  <2>1. u.r.io \in {NoIo} \cup DOMAIN u.ios
    BY <1>7 DEF i
  <2> QED
    BY <1>6, <1>7, <1>19, <1>20, <1>21, <2>1, SendRest
<1> QED
  BY <1>18, <1>22 DEF Good, Fine, u, q

LEMMA ReadyGood ==
    ASSUME NEW s, NEW p, NEW n \in Nat, Good(s, app, p, n), s.tasks # <<>>,
           Head(s.tasks).fn = "ready", app.system \in BOOLEAN, app.subscribed \in BOOLEAN
    PROVE  Good(OnReady(Popped(s), Head(s.tasks).arg), app, p, n)
<1> DEFINE v == Popped(s)
           t == Head(s.tasks)
           i == t.arg
<1>1. Good(v, app, p, n)
  BY PoppedGood
<1>2. /\ i \in DOMAIN v.ios /\ Readies(v, i) = {}
      /\ ~v.ios[i].closed => v.ios[i].st = "connecting"
  <2>1. One(Owned(t)) = 0 /\ n = n + 0
    BY DEF One, Owned, OwningTasks
  <2>2. Fine(s, app, p, n)
    BY GoodParts
  <2>3. TaskOK(t, v.ios, p) /\ Readies(v, i) = {} /\ (~v.ios[i].closed => v.ios[i].st = "connecting")
    BY <2>1, <2>2, PoppedFine
  <2> QED
    BY <2>3 DEF TaskOK
<1> HIDE DEF v, t
<1>3. v \in EngineRec /\ Connected(v)
  BY <1>1, GoodParts
<1>4. CASE v.ios[i].closed
  BY <1>1, <1>4 DEF OnReady, v, t
<1>5. CASE ~v.ios[i].closed
  <2>1. i = v.r.io
    BY <1>2, <1>3, <1>5 DEF Connected, IoOK
  <2>2. OnReady(v, v.r.io) = SendNextCmd(Opened(v, Opening(v)))
    BY <1>2, <1>3, <1>5, <2>1, OnReadyIs
  <2>3. Good(SendNextCmd(Opened(v, Opening(v))), app, p, n)
    BY <1>1, <1>2, <1>5, <2>1, OpenedGood
  <2> QED
    BY <2>1, <2>2, <2>3 DEF v, t
<1> QED
  BY <1>4, <1>5
-----------------------------------------------------------------------------
(* The connection is lost.                                                 *)

GoneIo == [NewIo EXCEPT !.st = "gone", !.closed = TRUE, !.owned = FALSE]

LEMMA GoneIs ==
    /\ GoneIo \in IoRec
    /\ GoneIo.st = "gone" /\ GoneIo.closed = TRUE /\ GoneIo.owned = FALSE
    /\ GoneIo.up = <<>> /\ GoneIo.down = <<>> /\ GoneIo.proto = "none" /\ GoneIo.subs = FALSE
<1>1. <<>> \in Seq(Words) /\ <<>> \in Seq(Frames)
  OBVIOUS
<1> QED
  BY <1>1 DEF GoneIo, NewIo, IoRec

(* The handshake is purged from the head of the queue, where alone it is.  *)
Unhello(q) == IF Greets(q) THEN Tail(q) ELSE q
Purges(q, h) == h = [k \in 0 .. Len(q) |->
    IF k = 0 THEN <<>> ELSE IF q[k] = "HELLO" THEN h[k - 1] ELSE Append(h[k - 1], q[k])]
From(q) == IF Greets(q) THEN 2 ELSE 1
Upto(q, k) == SubSeq(q, From(q), k)

LEMMA UptoIs ==
    ASSUME NEW q \in Seq(Words), \A k \in DOMAIN q : q[k] = "HELLO" => k = 1
    PROVE  /\ Upto(q, 0) = <<>> /\ Upto(q, Len(q)) = Unhello(q)
           /\ \A k \in 1 .. Len(q) :
                Upto(q, k) = IF q[k] = "HELLO" THEN Upto(q, k - 1) ELSE Append(Upto(q, k - 1), q[k])
<1>1. Len(q) \in Nat /\ DOMAIN q = 1 .. Len(q)
  OBVIOUS
<1>2. Greets(q) <=> Len(q) > 0 /\ q[1] = "HELLO"
  BY <1>1 DEF Greets
<1>3. \A k \in 0 .. Len(q) : \A m \in {1, 2} :
        /\ m > k => SubSeq(q, m, k) = <<>>
        /\ m <= k => SubSeq(q, m, k) = Append(SubSeq(q, m, k - 1), q[k])
  <2>1. ASSUME NEW k \in 0 .. Len(q), NEW m \in {1, 2}, m > k PROVE SubSeq(q, m, k) = <<>>
    BY <2>1
  <2>2. ASSUME NEW k \in 0 .. Len(q), NEW m \in {1, 2}, m <= k
        PROVE  SubSeq(q, m, k) = Append(SubSeq(q, m, k - 1), q[k])
    <3> DEFINE y == SubSeq(q, m, k)
               z == SubSeq(q, m, k - 1)
    <3>1. k \in 1 .. Len(q) /\ k \in Nat /\ m \in Nat /\ m >= 1 /\ k - 1 \in Nat /\ q[k] \in Words
      BY <1>1, <2>2
    <3>2. /\ y \in Seq(Words) /\ Len(y) = k - m + 1
          /\ \A j \in 1 .. k - m + 1 : y[j] = q[m + j - 1]
      BY <1>1, <2>2, <3>1
    <3>3. /\ z \in Seq(Words) /\ Len(z) = k - m
          /\ \A j \in 1 .. k - m : z[j] = q[m + j - 1]
      BY <1>1, <2>2, <3>1
    <3> DEFINE x == Append(z, q[k])
    <3> HIDE DEF y, z
    <3>4. /\ x \in Seq(Words) /\ Len(x) = k - m + 1
          /\ \A j \in 1 .. k - m : x[j] = z[j]
          /\ x[k - m + 1] = q[k]
      BY <2>2, <3>1, <3>3
    <3> HIDE DEF x
    <3>5. ASSUME NEW j \in 1 .. k - m + 1 PROVE x[j] = y[j]
      <4>1. CASE j = k - m + 1
        <5>1. m + j - 1 = k
          BY <3>1, <4>1
        <5> QED
          BY <3>2, <3>4, <3>5, <4>1, <5>1
      <4>2. CASE j # k - m + 1
        <5>1. j \in 1 .. k - m
          BY <3>1, <3>5, <4>2
        <5> QED
          BY <3>2, <3>3, <3>4, <3>5, <5>1
      <4> QED
        BY <4>1, <4>2
    <3>6. x = y
      BY <3>2, <3>4, <3>5
    <3> QED
      BY <3>6 DEF x, y, z
  <2> QED
    BY <2>1, <2>2
<1>4. From(q) \in {1, 2} /\ (From(q) = 2 <=> Greets(q))
  BY DEF From
<1>5. Upto(q, 0) = <<>>
  BY <1>1, <1>3, <1>4 DEF Upto
<1>6. ASSUME NEW k \in 1 .. Len(q)
      PROVE  Upto(q, k) = IF q[k] = "HELLO" THEN Upto(q, k - 1) ELSE Append(Upto(q, k - 1), q[k])
  <2>1. k \in 0 .. Len(q) /\ k - 1 \in 0 .. Len(q) /\ k \in DOMAIN q
    BY <1>1
  <2>2. CASE q[k] = "HELLO"
    <3>1. k = 1 /\ Greets(q)
      BY <1>1, <1>2, <2>1, <2>2
    <3>2. From(q) > k /\ From(q) > k - 1
      BY <1>4, <3>1
    <3> QED
      BY <1>3, <1>4, <2>1, <2>2, <3>2 DEF Upto
  <2>3. CASE q[k] # "HELLO"
    <3>1. From(q) <= k
      BY <1>1, <1>2, <1>4, <2>1, <2>3
    <3> QED
      BY <1>3, <1>4, <2>1, <2>3, <3>1 DEF Upto
  <2> QED
    BY <2>2, <2>3
<1>7. Upto(q, Len(q)) = Unhello(q)
  <2>1. CASE Greets(q)
    <3>1. Tail(q) = SubSeq(q, 2, Len(q))
      BY <1>1, <1>2, <2>1
    <3> QED
      BY <2>1, <3>1 DEF Upto, Unhello, From
  <2>2. CASE ~Greets(q)
    <3>1. q = SubSeq(q, 1, Len(q))
      BY <1>1
    <3> QED
      BY <2>2, <3>1 DEF Upto, Unhello, From
  <2> QED
    BY <2>1, <2>2
<1> QED
  BY <1>5, <1>6, <1>7

LEMMA PurgeIs ==
    ASSUME NEW s, s.r.cmd_queue \in Seq(Words),
           \A k \in DOMAIN s.r.cmd_queue : s.r.cmd_queue[k] = "HELLO" => k = 1
    PROVE  PurgeHello(s) = [s EXCEPT !.r.cmd_queue = Unhello(s.r.cmd_queue)]
<1> DEFINE q == s.r.cmd_queue
           h == CHOOSE h : Purges(q, h)
           g == [k \in 0 .. Len(q) |-> Upto(q, k)]
<1>2. PurgeHello(s) = [s EXCEPT !.r.cmd_queue = h[Len(q)]]
  BY DEF PurgeHello, Purges
<1>7. q \in Seq(Words) /\ (\A k \in DOMAIN q : q[k] = "HELLO" => k = 1) /\ Len(q) \in Nat
  OBVIOUS
<1> HIDE DEF q
<1>1. /\ Upto(q, 0) = <<>> /\ Upto(q, Len(q)) = Unhello(q)
      /\ \A k \in 1 .. Len(q) :
           Upto(q, k) = IF q[k] = "HELLO" THEN Upto(q, k - 1) ELSE Append(Upto(q, k - 1), q[k])
      /\ Len(q) \in Nat
  BY <1>7, UptoIs
<1>3. Purges(q, g)
  <2> DEFINE f == [k \in 0 .. Len(q) |->
        IF k = 0 THEN <<>> ELSE IF q[k] = "HELLO" THEN g[k - 1] ELSE Append(g[k - 1], q[k])]
  <2>1. ASSUME NEW k \in 0 .. Len(q) PROVE g[k] = f[k]
    <3>1. CASE k = 0
      BY <1>1, <2>1, <3>1
    <3>2. CASE k # 0
      <4>1. k \in 1 .. Len(q) /\ k - 1 \in 0 .. Len(q)
        BY <1>1, <2>1, <3>2
      <4> HIDE DEF Upto
      <4> QED
        BY <1>1, <2>1, <3>2, <4>1
    <3> QED
      BY <3>1, <3>2
  <2>2. g = f
    BY <2>1
  <2> QED
    BY <2>2 DEF Purges
<1>4. Purges(q, h)
  BY <1>3
<1> HIDE DEF h
<1>5. /\ h[0] = <<>>
      /\ \A k \in 1 .. Len(q) : h[k] = IF q[k] = "HELLO" THEN h[k - 1] ELSE Append(h[k - 1], q[k])
  <2>1. \A k \in 0 .. Len(q) : h[k] =
          IF k = 0 THEN <<>> ELSE IF q[k] = "HELLO" THEN h[k - 1] ELSE Append(h[k - 1], q[k])
    BY <1>4 DEF Purges
  <2>2. 0 \in 0 .. Len(q) /\ \A k \in 1 .. Len(q) : k \in 0 .. Len(q) /\ k # 0
    BY <1>1
  <2> QED
    BY <2>1, <2>2
<1>6. h[Len(q)] = Upto(q, Len(q))
  <2> DEFINE T == {k \in Nat : k <= Len(q) => h[k] = Upto(q, k)}
  <2>1. 0 \in T
    BY <1>1, <1>5
  <2>2. ASSUME NEW k \in T PROVE k + 1 \in T
    <3>1. k \in Nat /\ k + 1 \in Nat /\ (k + 1) - 1 = k
      BY <2>2
    <3>2. ASSUME k + 1 <= Len(q) PROVE h[k + 1] = Upto(q, k + 1)
      <4>1. k + 1 \in 1 .. Len(q) /\ h[k] = Upto(q, k)
        BY <1>1, <2>2, <3>1, <3>2
      <4> QED
        BY <1>1, <1>5, <3>1, <4>1
    <3> QED
      BY <3>1, <3>2
  <2>3. T = Nat
    <3> HIDE DEF T
    <3>1. T \subseteq Nat
      BY DEF T
    <3> QED
      BY <2>1, <2>2, <3>1, Induction
  <2> QED
    BY <1>1, <2>3
<1> QED
  BY <1>1, <1>2, <1>6 DEF q
Lost(s, i, q) ==
    [s EXCEPT !.ios[i] = GoneIo, !.r.io = NoIo, !.r.ready = FALSE, !.r.buf = <<>>, !.r.cmd_queue = q]
Vanished(s, i) == [s EXCEPT !.ios[i] = GoneIo]

LEMMA VanishedIs ==
    ASSUME NEW s \in EngineRec, NEW i \in DOMAIN s.ios
    PROVE  LET u == Vanished(s, i)
           IN  /\ u \in EngineRec /\ u.r = s.r /\ u.tasks = s.tasks
               /\ u.timers = s.timers /\ u.answers = s.answers
               /\ DOMAIN u.ios = DOMAIN s.ios /\ u.ios[i] = GoneIo
               /\ \A j \in DOMAIN s.ios : j # i => u.ios[j] = s.ios[j]
BY GoneIs, SetIo DEF Vanished

LEMMA LostIs ==
    ASSUME NEW s \in EngineRec, NEW i \in DOMAIN s.ios, NEW q \in Seq(Words)
    PROVE  LET u == Lost(s, i, q)
           IN  /\ u \in EngineRec /\ u.r.refs = s.r.refs
               /\ u.r.running = s.r.running /\ u.r.attached = s.r.attached
               /\ u.r.pub_sent = s.r.pub_sent /\ u.r.io = NoIo /\ u.r.ready = FALSE
               /\ u.r.cmd_queue = q /\ u.r.buf = <<>>
               /\ u.tasks = s.tasks /\ u.timers = s.timers /\ u.answers = s.answers
               /\ DOMAIN u.ios = DOMAIN s.ios /\ u.ios[i] = GoneIo
               /\ \A j \in DOMAIN s.ios : j # i => u.ios[j] = s.ios[j]
<1> DEFINE x == [s.r EXCEPT !.io = NoIo, !.ready = FALSE, !.buf = <<>>, !.cmd_queue = q]
           v == Vanished(s, i)
           u == [v EXCEPT !.r = x]
<1>1. s.r \in RRec /\ <<>> \in Seq(Frames) /\ NoIo \in Nat
  BY DEF EngineRec, RRec, NoIo
<1>2. /\ x \in RRec /\ x.refs = s.r.refs /\ x.running = s.r.running
      /\ x.attached = s.r.attached /\ x.pub_sent = s.r.pub_sent /\ x.io = NoIo
      /\ x.ready = FALSE /\ x.cmd_queue = q /\ x.buf = <<>>
  BY <1>1 DEF RRec
<1>3. /\ v \in EngineRec /\ v.r = s.r /\ v.tasks = s.tasks
      /\ v.timers = s.timers /\ v.answers = s.answers
      /\ DOMAIN v.ios = DOMAIN s.ios /\ v.ios[i] = GoneIo
      /\ \A j \in DOMAIN s.ios : j # i => v.ios[j] = s.ios[j]
  BY VanishedIs
<1>4. Lost(s, i, q) = u
  BY DEF Lost, Vanished, EngineRec
<1> HIDE DEF x, v
<1>5. /\ u \in EngineRec /\ u.r = x /\ u.ios = v.ios /\ u.tasks = v.tasks
      /\ u.timers = v.timers /\ u.answers = v.answers
  BY <1>2, <1>3, SetR
<1> HIDE DEF u
<1> QED
  BY <1>2, <1>3, <1>4, <1>5

LEMMA OnClosedIs ==
    ASSUME NEW s \in EngineRec, NEW i \in DOMAIN s.ios,
           \A k \in DOMAIN s.r.cmd_queue : s.r.cmd_queue[k] = "HELLO" => k = 1
    PROVE  LET off == Lost(s, i, Unhello(s.r.cmd_queue))
           IN  OnClosed(s, i) = IF ~s.ios[i].owned THEN Vanished(s, i)
                                ELSE IF s.r.running THEN Retry(off) ELSE off
<1> DEFINE q == s.r.cmd_queue
           gone == Vanished(s, i)
           back == Reset(gone)
           off == Lost(s, i, Unhello(q))
<1>1. i # NoIo /\ q \in Seq(Words)
  BY IoType, Typed2 DEF NoIo
<1>2. gone \in EngineRec /\ gone.r = s.r
  BY VanishedIs
<1>3. back.r.cmd_queue = q
  <2> HIDE DEF gone
  <2>1. gone.r \in RRec
    BY <1>2 DEF EngineRec, RRec
  <2> QED
    BY <1>2, <2>1 DEF Reset, RRec, EngineRec
<1>4. PurgeHello(back) = [back EXCEPT !.r.cmd_queue = Unhello(q)]
  <2> HIDE DEF back
  <2>1. back.r.cmd_queue \in Seq(Words) /\ \A k \in DOMAIN back.r.cmd_queue : back.r.cmd_queue[k] = "HELLO" => k = 1
    BY <1>1, <1>3
  <2> QED
    BY <1>3, <2>1, PurgeIs
<1>5. [back EXCEPT !.r.cmd_queue = Unhello(q)] = off
  <2> DEFINE z == Unhello(q)
             Io(x) == [s EXCEPT !.ios[i] = x]
  <2> HIDE DEF z
  <2>1. [Reset(gone) EXCEPT !.r.cmd_queue = z] = Lost(s, i, z)
    BY DEF Reset, Vanished, Lost, EngineRec, RRec
  <2> QED
    BY <2>1 DEF z
<1>6. off.r.running = s.r.running
  <2>1. Unhello(q) \in Seq(Words)
    BY <1>1 DEF Unhello, Greets
  <2> QED
    BY <2>1, LostIs
<1> DEFINE kept == PurgeHello(back)
<1>7. OnClosed(s, i) = IF i # NoIo /\ ~s.ios[i].owned THEN gone
                       ELSE IF kept.r.running THEN Retry(kept) ELSE kept
  BY <1>1 DEF OnClosed, Vanished, GoneIo
<1> HIDE DEF kept, off, gone, back
<1>8. kept = off
  BY <1>4, <1>5 DEF kept
<1> QED
  BY <1>1, <1>6, <1>7, <1>8 DEF off, gone
(* The tasks tell of every other connection that was closed.               *)
ToldBut(s, i) ==
    /\ \A j \in DOMAIN s.ios : j # i => Told(s, j)
    /\ \A t \in Contents(s.tasks) : t.fn = "closed" => s.ios[t.arg].closed

LEMMA GoneTold ==
    ASSUME NEW s, NEW p, Typed(s, p), NEW i \in DOMAIN s.ios, ToldBut(s, i), NEW u, u.tasks = s.tasks,
           DOMAIN u.ios = DOMAIN s.ios, u.ios[i] = GoneIo,
           \A j \in DOMAIN s.ios : j # i => u.ios[j] = s.ios[j]
    PROVE  AllTold(u)
<1>1. ASSUME NEW j \in DOMAIN u.ios PROVE Told(u, j)
  <2>1. CASE j = i
    BY <2>1, GoneIs DEF Told
  <2>2. CASE j # i
    BY <1>1, <2>2 DEF Told, ToldBut
  <2> QED
    BY <2>1, <2>2
<1>2. ASSUME NEW t \in Contents(s.tasks), t.fn = "closed" PROVE u.ios[t.arg].closed
  <2>1. t.arg \in DOMAIN s.ios /\ s.ios[t.arg].closed
    BY <1>2 DEF Typed, TaskOK, ToldBut
  <2> QED
    BY <2>1, GoneIs
<1> QED
  BY <1>1, <1>2 DEF AllTold

LEMMA GoneRest ==
    ASSUME NEW s \in EngineRec, NEW p, FramesOK(s, p), ReadyOK(s), NEW i \in DOMAIN s.ios,
           NEW u, u.tasks = s.tasks,
           DOMAIN u.ios = DOMAIN s.ios, u.ios[i] = GoneIo,
           \A j \in DOMAIN s.ios : j # i => u.ios[j] = s.ios[j]
    PROVE  /\ ReadyOK(u)
           /\ \A j \in DOMAIN u.ios : \A f \in Contents(u.ios[j].down) : FrameOK(f, p)
<1>1. \A j : Readies(u, j) = Readies(s, j)
  BY DEF Readies
<1>2. ReadyOK(u)
  BY <1>1, GoneIs DEF ReadyOK
<1>3. ASSUME NEW j \in DOMAIN u.ios, NEW f \in Contents(u.ios[j].down) PROVE FrameOK(f, p)
  <2>1. CASE j = i
    BY <1>3, <2>1, GoneIs DEF Contents
  <2>2. CASE j # i
    BY <1>3, <2>2 DEF FramesOK
  <2> QED
    BY <2>1, <2>2
<1> QED
  BY <1>2, <1>3

LEMMA VanishedGood ==
    ASSUME NEW s, NEW a, NEW p, NEW n \in Nat, Base(s, a, p, n, FALSE), ReadersOK(s), ReadyOK(s),
           DyingOK(s), Retries(s), \A cmd \in Commands : PlaceOK(s, a, cmd),
           NEW i \in DOMAIN s.ios, ~s.ios[i].owned, ToldBut(s, i)
    PROVE  Good(Vanished(s, i), a, p, n)
<1> DEFINE u == Vanished(s, i)
<1>1. /\ s \in EngineRec /\ Typed(s, p) /\ Counted(s, n) /\ Connected(s) /\ LockOK(s, p, FALSE)
      /\ QueueOK(s) /\ AnswersOK(s, p) /\ SubsOK(s, a)
  BY DEF Base, Typed
<1>2. /\ u \in EngineRec /\ u.r = s.r /\ u.tasks = s.tasks
      /\ u.timers = s.timers /\ u.answers = s.answers
      /\ DOMAIN u.ios = DOMAIN s.ios /\ u.ios[i] = GoneIo
      /\ \A j \in DOMAIN s.ios : j # i => u.ios[j] = s.ios[j]
  BY <1>1, VanishedIs
<1> HIDE DEF u
<1>3. s.r.io # i
  BY <1>1 DEF Connected, IoOK
<1>4. s.r.io # NoIo => s.r.io \in DOMAIN s.ios /\ u.ios[s.r.io] = s.ios[s.r.io]
  BY <1>1, <1>2, <1>3 DEF Connected
<1>5. /\ Live(u) = Live(s) /\ Readers(u) = Readers(s) /\ Continues(u) = Continues(s)
      /\ Dying(u) = Dying(s) /\ (s.r.io # NoIo => Way(u) = Way(s))
  BY Zenon, <1>2, <1>4 DEF Live, Readers, Continues, Dying, Way, Stream
<1>6. Typed(u, p) /\ Counted(u, n)
  BY <1>1, <1>2 DEF Typed, Counted, TaskOK
<1>7. Connected(u)
  <2>1. ASSUME NEW j \in DOMAIN s.ios PROVE IoOK(u, j)
    <3>1. IoOK(s, j)
      BY <1>1, <2>1 DEF Connected
    <3>2. CASE j = i
      BY <1>2, <1>3, <3>2, GoneIs DEF IoOK
    <3>3. CASE j # i
      BY <1>2, <2>1, <3>1, <3>3 DEF IoOK
    <3> QED
      BY <3>2, <3>3
  <2> QED
    BY <1>1, <1>2, <1>4, <2>1 DEF Connected
<1>8. AllTold(u)
  BY <1>1, <1>2, GoneTold
<1>9. ReadyOK(u) /\ FramesOK(u, p)
  BY <1>1, <1>2, GoneRest DEF LockOK, FramesOK
<1>10. LockOK(u, p, FALSE)
  <2>1. StepOK(u, FALSE)
    BY <1>1, <1>2, <1>5 DEF LockOK, StepOK
  <2>2. GreetOK(u)
    BY <1>1, <1>2, <1>4, <1>5 DEF LockOK, GreetOK, Live
  <2>3. SentOK(u)
    BY <1>1, <1>2, <1>5 DEF LockOK, SentOK, Live
  <2> QED
    BY <1>9, <2>1, <2>2, <2>3 DEF LockOK
<1>11. QueueOK(u) /\ AnswersOK(u, p)
  BY <1>1, <1>2 DEF QueueOK, AnswersOK
<1>12. SubsOK(u, a)
  BY <1>1, <1>2, <1>4, <1>5 DEF SubsOK, Live
<1>13. ReadersOK(u) /\ DyingOK(u) /\ Retries(u)
  BY <1>2, <1>5 DEF ReadersOK, DyingOK, Retries
<1>14. \A cmd \in Commands : PlaceOK(u, a, cmd)
  <2>1. \A cmd : InTasks(u, cmd) = InTasks(s, cmd)
    BY <1>2 DEF InTasks
  <2> QED
    BY <1>2, <2>1, PlacesSame
<1> QED
  BY <1>6, <1>7, <1>8, <1>9, <1>10, <1>11, <1>12, <1>13, <1>14 DEF Good, Fine, Core, Base, u

LEMMA UnhelloIs ==
    ASSUME NEW q \in Seq(Words), \A k \in DOMAIN q : q[k] = "HELLO" => k = 1
    PROVE  /\ Unhello(q) \in Seq(Words) /\ \A k \in DOMAIN Unhello(q) : Unhello(q)[k] # "HELLO"
           /\ \A b : LastIs(q, b) => LastIs(Unhello(q), b)
           /\ \A cmd \in Commands :
                /\ At(Unhello(q), {cmd}) = {} <=> At(q, {cmd}) = {}
                /\ Single(At(q, {cmd})) => Single(At(Unhello(q), {cmd}))
<1>1. "HELLO" \notin NoWait /\ "HELLO" \notin Commands
  BY Zenon, RedisAssumption DEF NoWait, Reserved
<1>2. CASE Greets(q)
  <2>1. q # <<>> /\ Head(q) = "HELLO" /\ Unhello(q) = Tail(q)
    BY <1>2 DEF Greets, Unhello
  <2>2. /\ Tail(q) \in Seq(Words) /\ \A k \in DOMAIN Tail(q) : Tail(q)[k] # "HELLO"
        /\ \A b : LastIs(q, b) => LastIs(Tail(q), b)
    BY <1>1, <2>1, QueueTail
  <2>3. ASSUME NEW cmd \in Commands
        PROVE  /\ At(Tail(q), {cmd}) = {} <=> At(q, {cmd}) = {}
               /\ Single(At(q, {cmd})) => Single(At(Tail(q), {cmd}))
    <3>1. Head(q) \notin {cmd}
      BY <1>1, <2>1
    <3>2. /\ At(Tail(q), {cmd}) # {} => At(q, {cmd}) # {}
          /\ Head(q) \notin {cmd} /\ At(q, {cmd}) # {} => At(Tail(q), {cmd}) # {}
          /\ Single(At(q, {cmd})) => Single(At(Tail(q), {cmd}))
      BY <2>1, AtTail
    <3> QED
      BY <3>1, <3>2
  <2> QED
    BY <2>1, <2>2, <2>3
<1>3. CASE ~Greets(q)
  <2>1. Unhello(q) = q
    BY <1>3 DEF Unhello
  <2>2. ASSUME NEW k \in DOMAIN q PROVE q[k] # "HELLO"
    <3>1. DOMAIN q = 1 .. Len(q) /\ q # <<>> /\ Head(q) = q[1]
      BY <2>2
    <3> QED
      BY <1>3, <2>2, <3>1 DEF Greets
  <2> QED
    BY <2>1, <2>2
<1> QED
  BY <1>2, <1>3
LEMMA LostFine ==
    ASSUME NEW s, NEW a, NEW p, NEW n \in Nat, Base(s, a, p, n, FALSE), ReadersOK(s), ReadyOK(s),
           \A cmd \in Commands : PlaceOK(s, a, cmd),
           NEW i \in DOMAIN s.ios, s.ios[i].owned, s.ios[i].closed, ToldBut(s, i)
    PROVE  LET u == Lost(s, i, Unhello(s.r.cmd_queue))
           IN  Fine(u, a, p, n) /\ \A cmd \in Commands : PlaceOK(u, a, cmd)
<1> DEFINE q0 == s.r.cmd_queue
           q == Unhello(q0)
           u == Lost(s, i, q)
<1>1. /\ s \in EngineRec /\ Typed(s, p) /\ Counted(s, n) /\ Connected(s) /\ LockOK(s, p, FALSE)
      /\ QueueOK(s) /\ AnswersOK(s, p) /\ SubsOK(s, a)
  BY DEF Base, Typed
<1>2. q0 \in Seq(Words) /\ \A k \in DOMAIN q0 : q0[k] = "HELLO" => k = 1
  BY <1>1, Typed2 DEF QueueOK
<1>3. /\ q \in Seq(Words) /\ \A k \in DOMAIN q : q[k] # "HELLO"
      /\ \A b : LastIs(q0, b) => LastIs(q, b)
      /\ \A cmd \in Commands :
           /\ At(q, {cmd}) = {} <=> At(q0, {cmd}) = {}
           /\ Single(At(q0, {cmd})) => Single(At(q, {cmd}))
  <2> HIDE DEF q0
  <2> QED
    BY <1>2, UnhelloIs
<1> HIDE DEF q
<1>4. /\ u \in EngineRec /\ u.r.refs = s.r.refs
      /\ u.r.running = s.r.running /\ u.r.attached = s.r.attached
      /\ u.r.pub_sent = s.r.pub_sent /\ u.r.io = NoIo /\ u.r.ready = FALSE
      /\ u.r.cmd_queue = q /\ u.r.buf = <<>>
      /\ u.tasks = s.tasks /\ u.timers = s.timers /\ u.answers = s.answers
      /\ DOMAIN u.ios = DOMAIN s.ios /\ u.ios[i] = GoneIo
      /\ \A j \in DOMAIN s.ios : j # i => u.ios[j] = s.ios[j]
  <2>1. s \in EngineRec /\ i \in DOMAIN s.ios /\ q \in Seq(Words)
    BY <1>1, <1>3
  <2> QED
    BY ONLY <2>1, LostIs
<1> HIDE DEF u
<1>5. i # NoIo /\ s.r.io = i
  BY <1>1, IoType DEF Connected, IoOK, NoIo
<1>6. ~Live(u) /\ ~Dying(u)
  BY <1>4 DEF Live, Dying
<1>7. Typed(u, p)
  BY <1>1, <1>4 DEF Typed, TaskOK
<1>8. Counted(u, n)
  BY <1>1, <1>4, <1>5 DEF Counted
<1>9. Connected(u)
  <2>1. ASSUME NEW j \in DOMAIN s.ios PROVE IoOK(u, j)
    <3>1. IoOK(s, j) /\ j # NoIo
      BY <1>1, <2>1, IoType DEF Connected, NoIo
    <3>2. CASE j = i
      BY <1>4, <1>5, <3>2, GoneIs DEF IoOK
    <3>3. CASE j # i
      BY <1>4, <1>5, <2>1, <3>1, <3>3 DEF IoOK
    <3> QED
      BY <3>2, <3>3
  <2> QED
    BY <1>4, <2>1 DEF Connected
<1>10. AllTold(u)
  BY <1>1, <1>4, GoneTold
<1>11. ReadyOK(u) /\ FramesOK(u, p)
  <2>1. ReadyOK(u) /\ \A j \in DOMAIN u.ios : \A f \in Contents(u.ios[j].down) : FrameOK(f, p)
    BY <1>1, <1>4, GoneRest DEF LockOK
  <2>2. Contents(u.r.buf) = {}
    BY <1>4 DEF Contents
  <2> QED
    BY <2>1, <2>2 DEF FramesOK
<1>12. LockOK(u, p, FALSE)
  BY <1>4, <1>6, <1>11 DEF LockOK, StepOK, GreetOK, SentOK
<1>13. QueueOK(u) /\ AnswersOK(u, p)
  BY <1>1, <1>3, <1>4 DEF QueueOK, AnswersOK
<1>14. SubsOK(u, a)
  <2>1. u.r.running => LastIs(q, Wants(a))
    BY <1>1, <1>3, <1>4 DEF SubsOK
  <2> QED
    BY <1>1, <1>4, <1>6, <2>1 DEF SubsOK
<1>15. ReadersOK(u) /\ DyingOK(u)
  <2>1. Readers(u) \subseteq Readers(s)
    <3>1. ASSUME NEW k \in Readers(u) PROVE k \in Readers(s)
      <4>1. k \in DOMAIN s.tasks /\ Reads(s.tasks[k], NoIo)
        BY <1>4 DEF Readers
      <4>2. TaskOK(s.tasks[k], s.ios, p)
        BY <1>1, <4>1 DEF Typed, Contents
      <4>3. NoIo \notin DOMAIN s.ios
        BY <1>1, IoType DEF NoIo
      <4>4. s.tasks[k].fn = "continue"
        BY <4>1, <4>2, <4>3 DEF Reads, TaskOK
      <4> QED
        BY <4>1, <4>4 DEF Readers, Reads
    <3> QED
      BY <3>1
  <2> QED
    BY <1>6, <2>1 DEF ReadersOK, Single, DyingOK
<1>16. ASSUME NEW cmd \in Commands PROVE PlaceOK(u, a, cmd)
  <2>1. PlaceOK(s, a, cmd)
    OBVIOUS
  <2>2. InQueue(u, cmd) = At(q, {cmd}) /\ InQueue(s, cmd) = At(q0, {cmd})
    BY <1>4 DEF InQueue, At
  <2>3. /\ InQueue(u, cmd) = {} <=> InQueue(s, cmd) = {}
        /\ Single(InQueue(s, cmd)) => Single(InQueue(u, cmd))
    BY <1>3, <2>2
  <2>4. InTasks(u, cmd) = InTasks(s, cmd) /\ Answered(u, cmd) = Answered(s, cmd)
    BY <1>4 DEF InTasks, Answered
  <2> QED
    BY <2>1, <2>3, <2>4 DEF PlaceOK
<1> QED
  BY <1>7, <1>8, <1>9, <1>10, <1>11, <1>12, <1>13, <1>14, <1>15, <1>16 DEF Fine, Core, Base, u, q

LEMMA RetryIs ==
    ASSUME NEW s \in EngineRec
    PROVE  LET u == Retry(s)
           IN  /\ Alike(s, u) /\ u.r.refs = s.r.refs + 1 /\ u.r.attached = s.r.attached
               /\ u.timers = s.timers + 1
<1> DEFINE x == [s.r EXCEPT !.refs = @ + 1]
           v == [s EXCEPT !.timers = @ + 1]
           u == [v EXCEPT !.r = x]
<1>1. s.r \in RRec /\ s.timers \in Nat
  BY DEF EngineRec, RRec
<1>2. /\ x \in RRec /\ x.refs = s.r.refs + 1 /\ x.running = s.r.running
      /\ x.attached = s.r.attached /\ x.pub_sent = s.r.pub_sent /\ x.io = s.r.io
      /\ x.ready = s.r.ready /\ x.cmd_queue = s.r.cmd_queue /\ x.buf = s.r.buf
  BY <1>1 DEF RRec
<1>3. Retry(s) = u
  BY DEF Retry, Dup, EngineRec
<1> HIDE DEF x
<1>4. /\ v \in EngineRec /\ v.r = s.r /\ v.ios = s.ios /\ v.tasks = s.tasks
      /\ v.timers = s.timers + 1 /\ v.answers = s.answers
  <2> DEFINE m == s.timers + 1
  <2>1. m \in Nat /\ v = [s EXCEPT !.timers = m]
    BY <1>1
  <2> HIDE DEF m, v
  <2>2. v \in EngineRec /\ v.r = s.r /\ v.ios = s.ios /\ v.tasks = s.tasks
        /\ v.timers = m /\ v.answers = s.answers
    BY <2>1 DEF EngineRec
  <2> QED
    BY <2>2 DEF m
<1> HIDE DEF v
<1>5. /\ u \in EngineRec /\ u.r = x /\ u.ios = v.ios /\ u.tasks = v.tasks
      /\ u.timers = v.timers /\ u.answers = v.answers
  BY <1>2, <1>4, SetR
<1> HIDE DEF u
<1> QED
  BY <1>2, <1>3, <1>4, <1>5 DEF Alike

LEMMA RetryGood ==
    ASSUME NEW s, NEW a, NEW p, NEW n \in Nat, Fine(s, a, p, n), s.r.running,
           \A cmd \in Commands : PlaceOK(s, a, cmd)
    PROVE  Good(Retry(s), a, p, n)
<1> DEFINE u == Retry(s)
<1>1. s \in EngineRec /\ Counted(s, n) /\ SubsOK(s, a)
  BY DEF Fine, Core, Base, Typed
<1>2. Alike(s, u) /\ u.r.refs = s.r.refs + 1 /\ u.r.attached = s.r.attached /\ u.timers = s.timers + 1
  BY <1>1, RetryIs
<1> HIDE DEF u
<1>3. s.r.refs \in Nat /\ s.timers \in Nat /\ u.tasks = s.tasks /\ Cardinality(Owning(s.tasks)) \in Nat
  BY <1>1, <1>2, Typed2, OwningType DEF Alike
<1>4. Counted(u, n) /\ s.r.refs # 0
  BY <1>1, <1>2, <1>3 DEF Counted
<1>5. Live(u) = Live(s) /\ \A cmd : PlaceOK(s, a, cmd) => PlaceOK(u, a, cmd)
  BY <1>2, AlikeKeeps
<1>6. SubsOK(u, a)
  BY <1>1, <1>2, <1>5 DEF SubsOK, Alike
<1>7. Fine(u, a, p, n)
  BY <1>2, <1>4, <1>6, AlikeFine
<1>8. Retries(u)
  BY <1>2, <1>3 DEF Retries
<1> QED
  BY <1>5, <1>7, <1>8 DEF Good, u

LEMMA ClosedGood ==
    ASSUME NEW s, NEW a, NEW p, NEW n \in Nat, Good(s, a, p, n), s.tasks # <<>>,
           Head(s.tasks).fn = "closed"
    PROVE  Good(OnClosed(Popped(s), Head(s.tasks).arg), a, p, n)
<1> DEFINE v == Popped(s)
           t == Head(s.tasks)
           i == t.arg
<1>1. /\ s \in EngineRec /\ Fine(s, a, p, n) /\ Retries(s) /\ AllTold(s) /\ Typed(s, p)
      /\ \A cmd \in Commands : PlaceOK(s, a, cmd)
  BY GoodParts
<1>2. One(Owned(t)) = 0 /\ n = n + 0 /\ \A cmd : ~Carries(t, cmd)
  BY DEF One, Owned, OwningTasks, Carries
<1>3. /\ Base(v, a, p, n, FALSE) /\ ReadyOK(v) /\ ReadersOK(v) /\ DyingOK(v)
      /\ TaskOK(t, v.ios, p) /\ v.ios[t.arg].closed
  BY <1>1, <1>2, PoppedFine
<1>4. Retries(v) /\ \A cmd \in Commands : PlaceOK(v, a, cmd)
  BY <1>1, <1>2, PoppedRest
<1>5. v \in EngineRec /\ v.ios = s.ios /\ Contents(s.tasks) = {t} \cup Contents(v.tasks)
  BY <1>1, PoppedIs
<1>6. i \in DOMAIN v.ios
  BY <1>3 DEF TaskOK
<1>7. ToldBut(v, i)
  <2>1. ASSUME NEW j \in DOMAIN v.ios, j # i PROVE Told(v, j)
    <3>1. Told(s, j)
      BY <1>1, <1>5, <2>1 DEF AllTold
    <3>2. Task("closed", j, "none") # t
      BY <2>1 DEF Task
    <3> HIDE DEF v, t
    <3> QED
      BY <1>5, <3>1, <3>2 DEF Told
  <2>2. ASSUME NEW x \in Contents(v.tasks), x.fn = "closed" PROVE v.ios[x.arg].closed
    BY <1>1, <1>5, <2>2 DEF AllTold
  <2> QED
    BY <2>1, <2>2 DEF ToldBut
<1> HIDE DEF v, t
<1>8. \A k \in DOMAIN v.r.cmd_queue : v.r.cmd_queue[k] = "HELLO" => k = 1
  BY <1>3 DEF Base, QueueOK
<1> DEFINE off == Lost(v, i, Unhello(v.r.cmd_queue))
<1>9. OnClosed(v, i) = IF ~v.ios[i].owned THEN Vanished(v, i)
                       ELSE IF v.r.running THEN Retry(off) ELSE off
  BY <1>5, <1>6, <1>8, OnClosedIs
<1>10. CASE ~v.ios[i].owned
  BY <1>3, <1>4, <1>6, <1>7, <1>9, <1>10, VanishedGood DEF v, t
<1>11. CASE v.ios[i].owned
  <2>1. Fine(off, a, p, n) /\ \A cmd \in Commands : PlaceOK(off, a, cmd)
    BY <1>3, <1>4, <1>6, <1>7, <1>11, LostFine
  <2>2. off.r.running = v.r.running
    <3>1. Unhello(v.r.cmd_queue) \in Seq(Words)
      BY <1>5, <1>8, Typed2, UnhelloIs
    <3> QED
      BY <1>5, <1>6, <3>1, LostIs
  <2> HIDE DEF off
  <2>3. CASE v.r.running
    BY <1>9, <1>11, <2>1, <2>2, <2>3, RetryGood DEF v, t
  <2>4. CASE ~v.r.running
    <3>1. Retries(off)
      BY <2>2, <2>4 DEF Retries
    <3> QED
      BY <1>9, <1>11, <2>1, <2>4, <3>1 DEF Good, v, t
  <2> QED
    BY <2>3, <2>4
<1> QED
  BY <1>10, <1>11
-----------------------------------------------------------------------------
(* What the application, the pub/sub system and the workers ask.           *)

LEMMA AppMoves ==
    ASSUME NEW s, NEW a, NEW b, NEW p, NEW n, Good(s, a, p, n), SubsOK(s, b),
           b.sent = a.sent, b.calls = a.calls
    PROVE  Good(s, b, p, n)
BY DEF Good, Fine, Core, Base, PlaceOK

LEMMA SameSubs ==
    ASSUME NEW s, NEW a, NEW b, SubsOK(s, a), b.system = a.system, b.subscribed = a.subscribed
    PROVE  SubsOK(s, b)
BY DEF SubsOK, Wants

LEMMA SpentMore ==
    ASSUME NEW s, NEW a, NEW p, NEW z, NEW n, Good(s, a, p, n), p.refused => z.refused
    PROVE  Good(s, a, z, n)
<1>1. Typed(s, z)
  BY GoodParts DEF Typed, TaskOK
<1>2. LockOK(s, z, FALSE)
  BY GoodParts DEF LockOK, FramesOK, FrameOK
<1>3. AnswersOK(s, z)
  BY GoodParts DEF AnswersOK
<1> QED
  BY <1>1, <1>2, <1>3 DEF Good, Fine, Core, Base

(* A task that carries a command that was called.                          *)
LEMMA CarrierGood ==
    ASSUME NEW s, NEW a, NEW b, NEW p, NEW n \in Nat, Good(s, a, p, n), n > 0,
           NEW cmd \in Commands, InTasks(s, cmd) = {}, InQueue(s, cmd) = {}, Answered(s, cmd) = {},
           cmd \in b.sent, cmd \notin b.calls,
           \A c \in Commands : c # cmd => (c \in b.sent <=> c \in a.sent) /\ (c \in b.calls <=> c \in a.calls),
           b.system = a.system, b.subscribed = a.subscribed
    PROVE  Good(Defer(Dup(s), "attach_cmd", cmd, "none"), b, p, n)
<1> DEFINE t == Task("attach_cmd", cmd, "none")
           u == With(s, t)
<1>1. /\ s \in EngineRec /\ Fine(s, a, p, n) /\ Counted(s, n) /\ SubsOK(s, a) /\ Retries(s)
      /\ \A c \in Commands : PlaceOK(s, a, c)
  BY GoodParts
<1>2. /\ t \in TaskRec /\ t.fn = "attach_cmd" /\ t.arg = cmd /\ TaskOK(t, s.ios, p) /\ Owned(t)
      /\ ~Reads(t, s.r.io) /\ \A c : Carries(t, c) <=> c = cmd
  BY DEF Task, TaskRec, Fns, Words, TaskOK, Owned, OwningTasks, Reads, Carries
<1>3. Defer(Dup(s), "attach_cmd", cmd, "none") = u
  BY <1>1, DeferIs DEF OwningTasks
<1>4. s.r.refs > 0
  <2>1. s.timers \in Nat /\ Cardinality(Owning(s.tasks)) \in Nat
    BY <1>1, Typed2, OwningType
  <2> QED
    BY <1>1, <2>1 DEF Counted
<1>5. Fine(u, a, p, n)
  <2>1. t.fn # "continue" /\ t.fn # "closed" /\ t.fn # "ready"
    BY <1>2
  <2> HIDE DEF t
  <2> QED
    BY <1>1, <1>2, <1>4, <2>1, WithFine
<1>6. Retries(u)
  BY <1>1, <1>2, WithRetries
<1>7. SubsOK(u, b)
  BY <1>5, SameSubs DEF Fine, Core, Base
<1>8. /\ u.answers = s.answers /\ u.r.cmd_queue = s.r.cmd_queue
  BY <1>1, <1>2, WithIs
<1>9. ASSUME NEW c \in Commands PROVE PlaceOK(u, b, c)
  <2>1. CASE c = cmd
    <3>1. InTasks(u, cmd) = {} \cup {Len(s.tasks) + 1}
      BY <1>1, <1>2, WithCarried
    <3>2. InQueue(u, cmd) = {} /\ Answered(u, cmd) = {}
      BY <1>8 DEF InQueue, Answered
    <3> HIDE DEF u
    <3> QED
      BY <2>1, <3>1, <3>2 DEF PlaceOK, Single
  <2>2. CASE c # cmd
    <3>1. PlaceOK(s, a, c) /\ ~Carries(t, c)
      BY <1>1, <1>2, <2>2
    <3>2. PlaceOK(u, a, c)
      BY <1>1, <1>2, <3>1, WithPlace
    <3> HIDE DEF u
    <3> QED
      BY <2>2, <3>2 DEF PlaceOK
  <2> QED
    BY <2>1, <2>2
<1> HIDE DEF u
<1> QED
  BY <1>3, <1>5, <1>6, <1>7, <1>9 DEF Good, Fine, Core, Base

(* The engine learns that the pub/sub system holds it.                     *)
Held(s, on) == [s EXCEPT !.r.attached = on]

LEMMA HeldIs ==
    ASSUME NEW s \in EngineRec, NEW on \in BOOLEAN
    PROVE  Alike(s, Held(s, on)) /\ Held(s, on).r.refs = s.r.refs /\ Held(s, on).r.attached = on
           /\ Held(s, on).timers = s.timers
<1> DEFINE x == [s.r EXCEPT !.attached = on]
           u == [s EXCEPT !.r = x]
<1>1. s.r \in RRec
  BY DEF EngineRec, RRec
<1>2. /\ x \in RRec /\ x.refs = s.r.refs /\ x.running = s.r.running
      /\ x.attached = on /\ x.pub_sent = s.r.pub_sent /\ x.io = s.r.io
      /\ x.ready = s.r.ready /\ x.cmd_queue = s.r.cmd_queue /\ x.buf = s.r.buf
  BY <1>1 DEF RRec
<1>3. Held(s, on) = u
  BY DEF Held
<1> HIDE DEF x
<1>4. /\ u \in EngineRec /\ u.r = x /\ u.ios = s.ios /\ u.tasks = s.tasks
      /\ u.timers = s.timers /\ u.answers = s.answers
  BY <1>2, SetR
<1> HIDE DEF u
<1> QED
  BY <1>2, <1>3, <1>4 DEF Alike

LEMMA HeldFine ==
    ASSUME NEW s, NEW a, NEW b, NEW p, NEW n \in Nat, Fine(s, a, p, n), NEW on \in BOOLEAN,
           SubsOK(Held(s, on), b)
    PROVE  /\ Fine(Held(s, on), b, p, n) /\ (Retries(s) => Retries(Held(s, on)))
           /\ \A cmd : PlaceOK(s, a, cmd) => PlaceOK(Held(s, on), a, cmd)
<1> DEFINE u == Held(s, on)
<1>1. s \in EngineRec /\ Counted(s, n)
  BY DEF Fine, Core, Base, Typed
<1>2. Alike(s, u) /\ u.r.refs = s.r.refs /\ u.r.attached = on /\ u.timers = s.timers
  BY <1>1, HeldIs
<1> HIDE DEF u
<1>3. Counted(u, n) /\ (Retries(s) => Retries(u))
  BY <1>1, <1>2 DEF Counted, Retries, Alike
<1>4. \A cmd : PlaceOK(s, a, cmd) => PlaceOK(u, a, cmd)
  BY <1>2, AlikeKeeps
<1>5. Fine(u, b, p, n)
  BY <1>2, <1>3, AlikeFine DEF u
<1> QED
  BY <1>3, <1>4, <1>5 DEF u
LEMMA EnsureGood ==
    ASSUME NEW s, NEW a, NEW p, NEW n \in Nat, Good(s, a, p, n), ~Wants(a),
           NEW c, c.system = TRUE, Wants(c) = FALSE
    PROVE  LET u == EnsureAttached(s)
           IN  /\ u \in EngineRec /\ Fine(u, c, p, n) /\ Retries(u) /\ u.r.running = s.r.running
               /\ u.r.attached = TRUE
               /\ \A cmd \in Commands : PlaceOK(u, a, cmd)
<1> DEFINE v == Held(s, TRUE)
           t == Task("connect", NoIo, "none")
<1>1. /\ s \in EngineRec /\ Fine(s, a, p, n) /\ Counted(s, n) /\ SubsOK(s, a) /\ Retries(s)
      /\ \A cmd \in Commands : PlaceOK(s, a, cmd)
  BY GoodParts
<1>2. Wants(a) = FALSE
  BY DEF Wants
<1>3. SubsOK(s, c)
  BY <1>1, <1>2 DEF SubsOK
<1>4. CASE s.r.attached
  <2>1. EnsureAttached(s) = s
    BY <1>4 DEF EnsureAttached
  <2>2. Fine(s, c, p, n)
    BY <1>1, <1>3 DEF Fine, Core, Base
  <2>3. s.r.attached = TRUE
    BY <1>1, <1>4, Typed2
  <2> QED
    BY <1>1, <2>1, <2>2, <2>3
<1>5. CASE ~s.r.attached
  <2>1. Alike(s, v) /\ v.r.refs = s.r.refs /\ v.r.attached = TRUE /\ v.timers = s.timers
    BY <1>1, HeldIs
  <2>2. SubsOK(v, c)
    <3> HIDE DEF v
    <3>1. Live(v) = Live(s)
      BY <2>1, AlikeKeeps
    <3> QED
      BY <1>3, <2>1, <3>1 DEF SubsOK, Alike
  <2>3. Fine(v, c, p, n) /\ Retries(v) /\ \A cmd \in Commands : PlaceOK(v, a, cmd)
    BY <1>1, <2>2, HeldFine
  <2>4. v \in EngineRec /\ v.r.running = s.r.running /\ v.r.io = s.r.io
    BY <2>1 DEF Alike
  <2>5. EnsureAttached(s) = IF s.r.running /\ s.r.io = NoIo THEN Defer(Dup(v), "connect", NoIo, "none") ELSE v
    BY <1>5 DEF EnsureAttached, Held
  <2> HIDE DEF v
  <2>6. CASE s.r.running /\ s.r.io = NoIo
    <3>1. /\ t \in TaskRec /\ t.fn = "connect" /\ TaskOK(t, v.ios, p) /\ Owned(t)
          /\ ~Reads(t, v.r.io) /\ \A cmd : ~Carries(t, cmd)
      BY DEF Task, TaskRec, Fns, NoIo, TaskOK, Owned, OwningTasks, Reads, Carries
    <3> HIDE DEF t
    <3>2. EnsureAttached(s) = With(v, t)
      BY <2>4, <2>5, <2>6, DeferIs DEF OwningTasks, t
    <3>3. v.r.refs > 0
      BY <1>1, <2>1, <2>6, Typed2 DEF Counted
    <3>4. Fine(With(v, t), c, p, n)
      <4>1. t.fn # "continue" /\ t.fn # "closed" /\ t.fn # "ready"
        BY <3>1
      <4> QED
        BY <2>3, <3>1, <3>3, <4>1, WithFine
    <3>5. Retries(With(v, t)) /\ \A cmd \in Commands : PlaceOK(With(v, t), a, cmd)
      BY <2>3, <2>4, <3>1, WithRetries, WithPlace
    <3>6. With(v, t) \in EngineRec /\ With(v, t).r.running = v.r.running /\ With(v, t).r.attached = v.r.attached
      BY <2>4, <3>1, WithIs
    <3> QED
      BY <2>1, <2>4, <3>2, <3>4, <3>5, <3>6
  <2>7. CASE ~(s.r.running /\ s.r.io = NoIo)
    BY <2>1, <2>3, <2>4, <2>5, <2>7
  <2> QED
    BY <2>6, <2>7
<1> QED
  BY <1>4, <1>5

LEMMA SubscribeGood ==
    ASSUME NEW s, NEW a, NEW b, NEW p, NEW n \in Nat, Good(s, a, p, n), ~Wants(a),
           b.system = TRUE, b.subscribed = TRUE, b.sent = a.sent, b.calls = a.calls
    PROVE  Good(Subscribe(s), b, p, n)
<1> DEFINE u == EnsureAttached(s)
           c == [system |-> TRUE, subscribed |-> FALSE]
           w == "SUBSCRIBE"
<1>1. c.system = TRUE /\ Wants(c) = FALSE /\ Wants(b) = TRUE
  BY DEF Wants
<1> HIDE DEF c
<1>2. /\ u \in EngineRec /\ Fine(u, c, p, n) /\ Retries(u) /\ u.r.running = s.r.running
      /\ u.r.attached = TRUE
      /\ \A cmd \in Commands : PlaceOK(u, a, cmd)
  BY <1>1, EnsureGood
<1>3. Subscribe(s) = SubSend(u, "SUBSCRIBE")
  BY DEF Subscribe
<1> HIDE DEF u
<1>4. w \in Words /\ w # "HELLO" /\ w \in NoWait /\ w \notin Commands
  BY Zenon, RedisAssumption DEF Words, NoWait, Reserved
<1>5. \A cmd \in Commands : PlaceOK(u, b, cmd)
  BY <1>2 DEF PlaceOK
<1>6. CASE u.r.running
  <2>1. SubsOK(Queue(u, w), b)
    BY <1>1, <1>2, <1>4, QueueSubs
  <2>2. \A cmd \in Commands : PlaceOK(Queue(u, w), b, cmd)
    BY <1>2, <1>4, <1>5, QueueRest
  <2>3. Good(SendNextCmd(Queue(u, w)), b, p, n)
    BY <1>2, <1>4, <1>6, <2>1, <2>2, QueueGood
  <2> QED
    BY <1>3, <1>6, <2>3 DEF SubSend
<1>7. CASE ~u.r.running
  <2>1. SubsOK(u, b)
    BY <1>7 DEF SubsOK
  <2>2. Good(u, b, p, n)
    BY <1>2, <1>5, <2>1 DEF Good, Fine, Core, Base
  <2> QED
    BY <1>3, <1>7, <2>2 DEF SubSend
<1> QED
  BY <1>6, <1>7

LEMMA UnsubscribeGood ==
    ASSUME NEW s, NEW a, NEW b, NEW p, NEW n \in Nat, Good(s, a, p, n), Wants(a),
           b.system = TRUE, b.subscribed = FALSE, b.sent = a.sent, b.calls = a.calls
    PROVE  Good(Unsubscribe(s), b, p, n)
<1> DEFINE w == "UNSUBSCRIBE"
<1>1. /\ s \in EngineRec /\ Fine(s, a, p, n) /\ SubsOK(s, a) /\ Retries(s)
      /\ \A cmd \in Commands : PlaceOK(s, a, cmd)
  BY GoodParts
<1>2. Wants(b) = FALSE
  BY DEF Wants
<1>3. w \in Words /\ w # "HELLO" /\ w \in NoWait /\ w \notin Commands /\ w # "SUBSCRIBE"
  BY Zenon, RedisAssumption DEF Words, NoWait, Reserved
<1>4. \A cmd \in Commands : PlaceOK(s, b, cmd)
  BY <1>1 DEF PlaceOK
<1>5. CASE s.r.running
  <2>1. s.r.attached
    BY <1>1, <1>5 DEF SubsOK
  <2>2. Unsubscribe(s) = SendNextCmd(Queue(s, w))
    BY <1>5, <2>1 DEF Unsubscribe, SubSend
  <2>3. SubsOK(Queue(s, w), b)
    BY <1>1, <1>2, <1>3, QueueSubs
  <2>4. \A cmd \in Commands : PlaceOK(Queue(s, w), b, cmd)
    BY <1>1, <1>3, <1>4, QueueRest
  <2>5. Good(SendNextCmd(Queue(s, w)), b, p, n)
    BY <1>1, <1>3, <1>5, <2>3, <2>4, QueueGood
  <2> QED
    BY <2>2, <2>5
<1>6. CASE ~s.r.running
  <2>1. Unsubscribe(s) = s
    BY <1>6 DEF Unsubscribe, SubSend
  <2>2. SubsOK(s, b)
    BY <1>6 DEF SubsOK
  <2> QED
    BY <2>1, <2>2, AppMoves
<1> QED
  BY <1>5, <1>6
(* What does not wait may be written past the queue.                       *)
LEMMA WayPast ==
    ASSUME NEW way \in Seq(Frames), NEW w \in NoWait
    PROVE  LET z == way \o <<w>>
           IN  /\ \A q, sent : InStep(way, q, sent) => InStep(z, q, sent)
               /\ "garbage" \in Contents(way) => "garbage" \in Contents(z)
               /\ \A k \in DOMAIN way : k \in DOMAIN z /\ z[k] = way[k]
<1> DEFINE z == way \o <<w>>
<1>1. w \in Frames /\ <<w>> \in Seq(Frames) /\ Len(<<w>>) = 1 /\ <<w>>[1] = w
  BY DEF Frames, Words
<1>2. /\ Len(way) \in Nat /\ DOMAIN way = 1 .. Len(way) /\ DOMAIN z = 1 .. Len(way) + 1
      /\ \A k \in 1 .. Len(way) : z[k] = way[k]
      /\ z[Len(way) + 1] = w
  BY <1>1
<1>3. /\ \A k \in Nat : Comes(z, k) => k \in 1 .. Len(way) + 1
      /\ \A k \in Nat : Comes(z, k) /\ k <= Len(way) => Comes(way, k)
  <2> HIDE DEF z
  <2>1. ASSUME NEW k \in Nat, Comes(z, k) PROVE k \in 1 .. Len(way) + 1 /\ (k <= Len(way) => Comes(way, k))
    BY <1>1, <2>1, ComesJoin DEF z
  <2> QED
    BY <2>1
<1> HIDE DEF z
<1>4. ~Waited(z[Len(way) + 1])
  BY <1>2 DEF Waited
<1>5. ASSUME NEW k \in Nat, Comes(z, k) PROVE Comes(way, k) /\ z[k] = way[k]
  <2>1. k # Len(way) + 1
    BY <1>4, <1>5 DEF Comes
  <2>2. k \in 1 .. Len(way)
    BY <1>2, <1>3, <1>5, <2>1
  <2> QED
    BY <1>2, <1>3, <1>5, <2>2
<1>6. ASSUME NEW q, NEW sent, InStep(way, q, sent) PROVE InStep(z, q, sent)
  BY <1>5, <1>6 DEF InStep
<1>7. "garbage" \in Contents(way) => "garbage" \in Contents(z)
  BY <1>2 DEF Contents
<1>8. \A k \in DOMAIN way : k \in DOMAIN z /\ z[k] = way[k]
  BY <1>2
<1> QED
  BY <1>6, <1>7, <1>8 DEF z

LEMMA LastOnly ==
    ASSUME NEW q \in Seq(Words), NEW w \in NoWait
    PROVE  LastIs(q \o <<w>>, (w = "SUBSCRIBE")) /\ ~Silent(q \o <<w>>)
<1>1. w \in Words
  BY DEF Words
<1>2. q \o <<w>> = Append(q, w)
  BY <1>1
<1>3. LastIs(Append(q, w), (w = "SUBSCRIBE")) /\ ~Silent(Append(q, w))
  <2>1. q \in Seq(Words) /\ w \in Words /\ w \in NoWait
    BY <1>1
  <2> QED
    BY ONLY <2>1, LastAppend
<1> QED
  BY <1>2, <1>3

LEMMA OneWord ==
    ASSUME NEW w \in Words, w # "HELLO"
    PROVE  <<w>> \in Seq(Words) /\ Greeted(<<w>>)
<1>1. <<w>> \in Seq(Words) /\ Len(<<w>>) = 1 /\ <<w>>[1] = w
  OBVIOUS
<1>2. \A k \in DOMAIN <<w>> : k = 1
  BY <1>1
<1> QED
  BY <1>1, <1>2 DEF Greeted

LEMMA WriteFine ==
    ASSUME NEW s, NEW a, NEW c, NEW p, NEW n \in Nat, Fine(s, a, p, n), Live(s), ~Greets(s.r.cmd_queue),
           Silent(s.r.cmd_queue), c.system = TRUE, Wants(c) = FALSE
    PROVE  LET u == Write(s, s.r.io, <<"UNSUBSCRIBE all">>)
           IN  /\ u \in EngineRec /\ Fine(u, c, p, n) /\ (Retries(s) => Retries(u))
               /\ ~Silent(u.ios[u.r.io].up) /\ LastIs(u.ios[u.r.io].up, FALSE)
               /\ u.r = s.r
               /\ \A cmd \in Commands : PlaceOK(s, a, cmd) => PlaceOK(u, a, cmd)
<1> DEFINE w == "UNSUBSCRIBE all"
           i == s.r.io
           u == Write(s, i, <<w>>)
<1>1. /\ s \in EngineRec /\ Typed(s, p) /\ Counted(s, n) /\ Connected(s) /\ LockOK(s, p, FALSE)
      /\ QueueOK(s) /\ AnswersOK(s, p) /\ AllTold(s) /\ SubsOK(s, a)
      /\ ReadersOK(s) /\ ReadyOK(s) /\ DyingOK(s)
  BY DEF Fine, Core, Base, Typed
<1>2. i # NoIo /\ i \in DOMAIN s.ios /\ s.ios[i].closed = FALSE /\ s.r.ready
  BY <1>1, IoType DEF Live, Connected
<1>3. w \in NoWait /\ w \in Words /\ <<w>> \in Seq(Words) /\ w # "SUBSCRIBE" /\ Greeted(<<w>>)
  <2>1. w \in NoWait /\ w \in Words
    BY DEF NoWait, Words
  <2>2. w # "SUBSCRIBE" /\ w # "HELLO"
    OBVIOUS
  <2> HIDE DEF w
  <2> QED
    BY <2>1, <2>2, OneWord
<1>4. /\ u \in EngineRec /\ u.r = s.r /\ u.tasks = s.tasks
      /\ u.timers = s.timers /\ u.answers = s.answers
      /\ DOMAIN u.ios = DOMAIN s.ios
      /\ \A j \in DOMAIN s.ios : j # i => u.ios[j] = s.ios[j]
      /\ u.ios[i].closed = FALSE
      /\ u.ios[i].up = s.ios[i].up \o <<w>>
      /\ u.ios[i].down = s.ios[i].down
      /\ u.ios[i].st = s.ios[i].st /\ u.ios[i].owned = s.ios[i].owned
      /\ u.ios[i].proto = s.ios[i].proto /\ u.ios[i].subs = s.ios[i].subs
  <2>1. s \in EngineRec /\ i \in DOMAIN s.ios /\ <<w>> \in Seq(Words)
    BY Zenon, <1>1, <1>2, <1>3
  <2> HIDE DEF i, w
  <2>2. LET v == Write(s, i, <<w>>)
        IN  /\ v \in EngineRec /\ v.r = s.r /\ v.tasks = s.tasks
            /\ v.timers = s.timers /\ v.answers = s.answers
            /\ DOMAIN v.ios = DOMAIN s.ios
            /\ \A j \in DOMAIN s.ios : j # i => v.ios[j] = s.ios[j]
            /\ v.ios[i].closed = s.ios[i].closed
            /\ v.ios[i].up = IF s.ios[i].closed THEN s.ios[i].up ELSE s.ios[i].up \o <<w>>
            /\ v.ios[i].down = s.ios[i].down
            /\ v.ios[i].st = s.ios[i].st /\ v.ios[i].owned = s.ios[i].owned
            /\ v.ios[i].proto = s.ios[i].proto /\ v.ios[i].subs = s.ios[i].subs
    BY ONLY Zenon, <2>1, WriteIs
  <2> QED
    BY <1>2, <2>2 DEF u
<1> HIDE DEF u, i, w
<1>5. /\ Live(u) /\ Dying(u) = Dying(s) /\ Readers(u) = Readers(s) /\ Continues(u) = Continues(s)
      /\ u.r.io = i
  BY Zenon, <1>2, <1>4 DEF Live, Dying, Readers, Continues, i
<1>6. Way(s) \in Seq(Frames) /\ Way(u) = Way(s) \o <<w>>
  <2> DEFINE x == s.r.buf \o s.ios[i].down
             y == s.ios[i].up
             z == <<w>>
  <2>1. s.r.buf \in Seq(Frames) /\ s.ios[i].down \in Seq(Frames) /\ y \in Seq(Frames) /\ z \in Seq(Frames)
        /\ Stream(s, i) \in Seq(Frames)
    BY <1>1, <1>2, <1>3, WayType, WordsInFrames
  <2>2. x \in Seq(Frames)
    BY <2>1, ConcatProperties
  <2>3. Way(s) = x \o y /\ Way(u) = x \o (y \o z) /\ Way(s) = Stream(s, i)
    BY <1>4, <1>5 DEF Way, Stream, i
  <2> HIDE DEF x, y, z
  <2>4. (x \o y) \o z = x \o (y \o z)
    <3>1. x \in Seq(Frames) /\ y \in Seq(Frames) /\ z \in Seq(Frames)
      BY <2>1, <2>2
    <3> QED
      BY ONLY <3>1, ConcatAssociative
  <2> QED
    BY <2>1, <2>3, <2>4 DEF z
<1>7. /\ \A q, sent : InStep(Way(s), q, sent) => InStep(Way(u), q, sent)
      /\ "garbage" \in Contents(Way(s)) => "garbage" \in Contents(Way(u))
      /\ \A k \in DOMAIN Way(s) : k \in DOMAIN Way(u) /\ Way(u)[k] = Way(s)[k]
  BY <1>3, <1>6, WayPast
<1>8. LockOK(u, p, FALSE)
  <2>1. StepOK(u, FALSE)
    BY <1>1, <1>4, <1>5, <1>7 DEF LockOK, StepOK
  <2>2. GreetOK(u)
    BY Zenon, <1>1, <1>4, <1>5 DEF LockOK, GreetOK, i
  <2>3. SentOK(u)
    BY <1>1, <1>4, <1>5, <1>7 DEF LockOK, SentOK
  <2>4. FramesOK(u, p)
    BY <1>1, <1>4 DEF LockOK, FramesOK
  <2> QED
    BY <2>1, <2>2, <2>3, <2>4 DEF LockOK
<1>9. Typed(u, p) /\ Counted(u, n)
  BY <1>1, <1>4 DEF Typed, TaskOK, Counted
<1>10. Connected(u)
  <2>1. ASSUME NEW j \in DOMAIN s.ios PROVE IoOK(u, j)
    <3>1. IoOK(s, j)
      BY <1>1, <2>1 DEF Connected
    <3>2. CASE j = i
      <4>1. s.ios[i].up \in Seq(Words)
        BY <1>1, <1>2, IoType
      <4>2. s.ios[i].proto # "none" => Greeted(s.ios[i].up \o <<w>>)
        BY <1>2, <1>3, <3>1, <3>2, <4>1, GreetedJoin DEF IoOK
      <4>3. s.ios[i].st # "connecting"
        BY <1>1, <1>2 DEF Connected, i
      <4> QED
        BY <1>2, <1>4, <3>1, <3>2, <4>2, <4>3 DEF IoOK
    <3>3. CASE j # i
      BY <1>4, <2>1, <3>1, <3>3 DEF IoOK
    <3> QED
      BY <3>2, <3>3
  <2> QED
    BY Zenon, <1>1, <1>4, <2>1 DEF Connected, i
<1>11. QueueOK(u) /\ AnswersOK(u, p)
  BY <1>1, <1>4 DEF QueueOK, AnswersOK
<1>12. LastIs(u.ios[i].up, FALSE) /\ ~Silent(u.ios[i].up)
  <2>1. s.ios[i].up \in Seq(Words)
    BY <1>1, <1>2, IoType
  <2>2. (w = "SUBSCRIBE") = FALSE
    BY <1>3
  <2>3. LastIs(s.ios[i].up \o <<w>>, (w = "SUBSCRIBE")) /\ ~Silent(s.ios[i].up \o <<w>>)
    BY <1>3, <2>1, LastOnly
  <2> QED
    BY <1>4, <2>2, <2>3
<1>13. SubsOK(u, c)
  <2>1. LastIs(s.r.cmd_queue, FALSE)
    BY DEF Silent, LastIs
  <2> QED
    BY <1>4, <1>5, <1>12, <2>1 DEF SubsOK
<1>14. AllTold(u)
  <2>1. ASSUME NEW j \in DOMAIN s.ios PROVE u.ios[j].closed = s.ios[j].closed /\ u.ios[j].st = s.ios[j].st
    BY <1>2, <1>4
  <2>2. ASSUME NEW t \in Contents(s.tasks), t.fn = "closed" PROVE u.ios[t.arg].closed
    <3>1. t.arg \in DOMAIN s.ios /\ s.ios[t.arg].closed
      BY <1>1, <2>2 DEF AllTold, Typed, TaskOK
    <3> QED
      BY <2>1, <3>1
  <2> QED
    BY <1>1, <1>4, <2>1, <2>2 DEF AllTold, Told
<1>15. ReadersOK(u) /\ DyingOK(u) /\ (Retries(s) => Retries(u))
  BY <1>1, <1>2, <1>4, <1>5 DEF ReadersOK, DyingOK, Retries, Live, Continues
<1>16. ReadyOK(u)
  <2>1. \A j : Readies(u, j) = Readies(s, j)
    BY <1>4 DEF Readies
  <2> QED
    BY <1>1, <1>2, <1>4, <2>1 DEF ReadyOK
<1>17. \A cmd \in Commands : PlaceOK(s, a, cmd) => PlaceOK(u, a, cmd)
  <2>1. \A cmd : InTasks(u, cmd) = InTasks(s, cmd)
    BY <1>4 DEF InTasks
  <2> QED
    BY <1>4, <2>1, PlacesSame
<1> QED
  BY Zenon, <1>4, <1>5, <1>8, <1>9, <1>10, <1>11, <1>12, <1>13, <1>14, <1>15, <1>16, <1>17 DEF Fine, Core, Base, u, i, w

LEMMA DetachedGood ==
    ASSUME NEW s, NEW a, NEW b, NEW p, NEW n \in Nat, Good(s, a, p, n + 1), s.r.attached,
           Silent(s.r.cmd_queue), s.r.running /\ s.r.io # NoIo => ~Greets(s.r.cmd_queue) /\ s.r.ready,
           b.system = FALSE, b.sent = a.sent, b.calls = a.calls
    PROVE  Good(Detached(s), b, p, n)
<1> DEFINE off == Held(s, FALSE)
           i == s.r.io
           words == <<"UNSUBSCRIBE all">>
           x == IF i = NoIo THEN off ELSE Write(off, i, words)
<1>1. /\ s \in EngineRec /\ Fine(s, a, p, n + 1) /\ SubsOK(s, a) /\ Retries(s) /\ Connected(s)
      /\ (\A cmd \in Commands : PlaceOK(s, a, cmd)) /\ n + 1 \in Nat
  <2> DEFINE m == n + 1
  <2>1. m \in Nat /\ Good(s, a, p, m)
    OBVIOUS
  <2> HIDE DEF m
  <2>2. /\ s \in EngineRec /\ Fine(s, a, p, m) /\ SubsOK(s, a) /\ Retries(s) /\ Connected(s)
        /\ (\A cmd \in Commands : PlaceOK(s, a, cmd))
    BY ONLY <2>1, GoodParts
  <2> QED
    BY <2>1, <2>2 DEF m
<1>2. Wants(b) = FALSE
  BY DEF Wants
<1>3. Alike(s, off) /\ off.r.attached = FALSE
  BY <1>1, HeldIs
<1>4. Live(off) = Live(s)
  BY <1>3, AlikeKeeps
<1>5. LastIs(s.r.cmd_queue, FALSE)
  BY DEF Silent, LastIs
<1>6. Detached(s) = Free(x)
  BY DEF Detached, Held
<1> HIDE DEF off
<1>7. CASE ~Live(s)
  <2>1. SubsOK(off, b)
    BY <1>2, <1>3, <1>4, <1>5, <1>7 DEF SubsOK, Alike
  <2>2. Good(off, b, p, n + 1)
    <3>1. Fine(off, b, p, n + 1) /\ Retries(off) /\ \A cmd \in Commands : PlaceOK(off, a, cmd)
      BY <1>1, <2>1, HeldFine DEF off
    <3> QED
      BY <3>1 DEF Good, PlaceOK
  <2>3. x = off
    <3>1. CASE i = NoIo
      BY <3>1
    <3>2. CASE i # NoIo
      <4>1. i \in DOMAIN s.ios /\ IoOK(s, i)
        BY <1>1, <3>2 DEF Connected
      <4>2. s.ios[i].closed
        BY <1>7, <3>2, <4>1 DEF IoOK, Live
      <4> QED
        BY <1>3, <3>2, <4>2 DEF Write, Alike
    <3> QED
      BY Zenon, <3>1, <3>2
  <2> QED
    BY Zenon, <1>6, <2>2, <2>3, FreedGood
<1>8. CASE Live(s)
  <2> DEFINE c == [system |-> TRUE, subscribed |-> FALSE]
             y == Write(s, i, words)
             z == Held(y, FALSE)
  <2>1. c.system = TRUE /\ Wants(c) = FALSE
    BY DEF Wants
  <2> HIDE DEF c
  <2>2. i # NoIo /\ s.r.running /\ ~Greets(s.r.cmd_queue)
    <3>1. i # NoIo /\ ~s.ios[i].closed
      BY <1>8 DEF Live
    <3> QED
      BY <1>1, <3>1 DEF Connected, IoOK
  <2>3. /\ y \in EngineRec /\ Fine(y, c, p, n + 1) /\ Retries(y)
        /\ ~Silent(y.ios[y.r.io].up) /\ LastIs(y.ios[y.r.io].up, FALSE)
        /\ y.r = s.r
        /\ \A cmd \in Commands : PlaceOK(y, a, cmd)
    BY Zenon, <1>1, <1>8, <2>1, <2>2, WriteFine
  <2>4. x = z
    <3>1. Write(Held(s, FALSE), i, words) = Held(Write(s, i, words), FALSE)
      BY Zenon, <1>1 DEF Write, Held, EngineRec
    <3> QED
      BY Zenon, <2>2, <3>1 DEF off
  <2> HIDE DEF y, x
  <2>5. Alike(y, z) /\ z.r.attached = FALSE
    BY <2>3, HeldIs
  <2>6. SubsOK(z, b)
    <3> HIDE DEF z
    <3>1. Live(z) = Live(y)
      BY <2>5, AlikeKeeps
    <3> QED
      BY <1>2, <1>5, <2>3, <2>5, <3>1 DEF SubsOK, Alike
  <2>7. Fine(z, b, p, n + 1) /\ Retries(z) /\ \A cmd \in Commands : PlaceOK(z, a, cmd)
    <3> DEFINE m == n + 1
    <3>1. m \in Nat /\ Fine(y, c, p, m) /\ FALSE \in BOOLEAN /\ SubsOK(Held(y, FALSE), b)
      BY <1>1, <2>3, <2>6
    <3> HIDE DEF m
    <3>2. Fine(Held(y, FALSE), b, p, m) /\ (Retries(y) => Retries(Held(y, FALSE)))
      BY ONLY <3>1, HeldFine
    <3>3. \A cmd \in Commands : PlaceOK(z, a, cmd)
      <4> HIDE DEF z
      <4> QED
        BY <2>3, <2>5, AlikeKeeps
    <3> QED
      BY <2>3, <3>2, <3>3 DEF m
  <2> HIDE DEF z
  <2>8. Good(z, b, p, n + 1)
    BY <2>7 DEF Good, PlaceOK
  <2> QED
    BY <1>6, <2>4, <2>8, FreedGood
<1> QED
  BY <1>7, <1>8
-----------------------------------------------------------------------------
(* The server answers: the first word on its way becomes a frame.          *)

Said(s, i, frame, proto) ==
    LET io == s.ios[i]
        word == Head(io.up)
        subs == (io.subs \/ word = "SUBSCRIBE") /\ word \notin NoWait \ {"SUBSCRIBE"}
    IN  [s EXCEPT !.ios[i] = [io EXCEPT !.up = Tail(io.up), !.proto = proto,
                                        !.subs = subs, !.down = Append(io.down, frame)]]

LEMMA SaidIs ==
    ASSUME NEW s \in EngineRec, NEW i \in DOMAIN s.ios, s.ios[i].up # <<>>, NEW frame \in Frames,
           NEW proto \in {"none", "resp3", "refused"}
    PROVE  LET u == Said(s, i, frame, proto)
               word == Head(s.ios[i].up)
           IN  /\ u \in EngineRec /\ u.r = s.r /\ u.tasks = s.tasks
               /\ u.timers = s.timers /\ u.answers = s.answers
               /\ DOMAIN u.ios = DOMAIN s.ios
               /\ \A j \in DOMAIN s.ios : j # i => u.ios[j] = s.ios[j]
               /\ u.ios[i].closed = s.ios[i].closed /\ u.ios[i].up = Tail(s.ios[i].up)
               /\ u.ios[i].down = Append(s.ios[i].down, frame)
               /\ u.ios[i].st = s.ios[i].st /\ u.ios[i].owned = s.ios[i].owned
               /\ u.ios[i].proto = proto
               /\ u.ios[i].subs = ((s.ios[i].subs \/ word = "SUBSCRIBE") /\ word \notin NoWait \ {"SUBSCRIBE"})
<1> DEFINE o == s.ios[i]
           word == Head(o.up)
           up == Tail(o.up)
           down == Append(o.down, frame)
           subs == (o.subs \/ word = "SUBSCRIBE") /\ word \notin NoWait \ {"SUBSCRIBE"}
           x == [o EXCEPT !.up = up, !.proto = proto, !.subs = subs, !.down = down]
           u == [s EXCEPT !.ios[i] = x]
<1>1. o \in IoRec /\ up \in Seq(Words) /\ down \in Seq(Frames) /\ subs \in BOOLEAN
  <2>1. o \in IoRec /\ o.up \in Seq(Words) /\ o.down \in Seq(Frames) /\ o.subs \in BOOLEAN
    BY IoType
  <2>2. up \in Seq(Words) /\ down \in Seq(Frames)
    BY <2>1, ContentsTail, ContentsAppend
  <2> QED
    BY <2>1, <2>2
<1>2. Said(s, i, frame, proto) = u
  BY DEF Said
<1> HIDE DEF up, down, subs, o
<1>3. /\ x \in IoRec /\ x.closed = o.closed /\ x.up = up /\ x.down = down /\ x.st = o.st
      /\ x.owned = o.owned /\ x.proto = proto /\ x.subs = subs
  BY <1>1 DEF IoRec
<1> HIDE DEF x
<1>4. /\ u \in EngineRec /\ u.r = s.r /\ u.tasks = s.tasks
      /\ u.timers = s.timers /\ u.answers = s.answers
      /\ DOMAIN u.ios = DOMAIN s.ios /\ u.ios[i] = x
      /\ \A j \in DOMAIN s.ios : j # i => u.ios[j] = s.ios[j]
  BY <1>3, SetIo
<1> HIDE DEF u
<1> QED
  BY <1>2, <1>3, <1>4 DEF o, up, down, subs

Swapped(way, z, pos, f, up) ==
    /\ way \in Seq(Frames) /\ z \in Seq(Frames) /\ Len(z) = Len(way) /\ Len(way) \in Nat
    /\ DOMAIN way = 1 .. Len(way) /\ DOMAIN z = 1 .. Len(way)
    /\ pos \in 1 .. Len(way) /\ way[pos] = Head(up) /\ z[pos] = f
    /\ \A k \in 1 .. Len(way) : k # pos => z[k] = way[k]
    /\ Len(way) = 1 => pos = 1 /\ Tail(up) = <<>>

LEMMA WaySwap ==
    ASSUME NEW b \in Seq(Frames), NEW d \in Seq(Frames), NEW up \in Seq(Words), up # <<>>, NEW f \in Frames
    PROVE  Swapped((b \o d) \o up, (b \o Append(d, f)) \o Tail(up), Len(b) + Len(d) + 1, f, up)
<1> DEFINE x == b \o d
           y == b \o Append(d, f)
           t == Tail(up)
           a == Append(d, f)
           way == x \o up
           z == y \o t
           pos == Len(b) + Len(d) + 1
<1>1. /\ t \in Seq(Words) /\ Len(t) = Len(up) - 1 /\ Len(up) \in Nat /\ Len(up) >= 1
      /\ \A k \in 1 .. Len(up) - 1 : t[k] = up[k + 1]
      /\ Head(up) = up[1]
  BY TailIs
<1>2. up \in Seq(Frames) /\ t \in Seq(Frames)
  BY <1>1, WordsInFrames
<1>3. /\ a \in Seq(Frames) /\ Len(a) = Len(d) + 1 /\ Len(d) \in Nat /\ Len(b) \in Nat
      /\ \A k \in 1 .. Len(d) : a[k] = d[k]
      /\ a[Len(d) + 1] = f
  <2>1. a \in Seq(Frames)
    BY ContentsAppend
  <2> QED
    BY <2>1, HeadAppend
<1> HIDE DEF a, t
<1>4. /\ x \in Seq(Frames) /\ Len(x) = Len(b) + Len(d)
      /\ \A k \in 1 .. Len(b) : x[k] = b[k]
      /\ \A k \in Len(b) + 1 .. Len(b) + Len(d) : x[k] = d[k - Len(b)]
  BY <1>3
<1>5. /\ y \in Seq(Frames) /\ Len(y) = pos
      /\ \A k \in 1 .. Len(b) : y[k] = b[k]
      /\ \A k \in Len(b) + 1 .. Len(b) + Len(a) : y[k] = a[k - Len(b)]
  BY <1>3 DEF a
<1> HIDE DEF x, y
<1>6. /\ way \in Seq(Frames) /\ Len(way) = Len(x) + Len(up) /\ DOMAIN way = 1 .. Len(way)
      /\ \A k \in 1 .. Len(x) : way[k] = x[k]
      /\ \A k \in Len(x) + 1 .. Len(x) + Len(up) : way[k] = up[k - Len(x)]
  <2>1. x \in Seq(Frames) /\ up \in Seq(Frames)
    BY <1>2, <1>4
  <2> QED
    BY ONLY <2>1
<1>7. /\ z \in Seq(Frames) /\ Len(z) = Len(y) + Len(t) /\ DOMAIN z = 1 .. Len(z)
      /\ \A k \in 1 .. Len(y) : z[k] = y[k]
      /\ \A k \in Len(y) + 1 .. Len(y) + Len(t) : z[k] = t[k - Len(y)]
  <2>1. y \in Seq(Frames) /\ t \in Seq(Frames)
    BY <1>2, <1>5
  <2> QED
    BY ONLY <2>1
<1> HIDE DEF way, z
<1>8. /\ Len(z) = Len(way) /\ pos \in 1 .. Len(way) /\ Len(way) \in Nat /\ pos \in Nat
      /\ pos = Len(x) + 1 /\ pos = Len(y) /\ Len(x) \in Nat /\ pos = Len(b) + Len(d) + 1
      /\ pos = Len(b) + Len(a)
  BY <1>1, <1>3, <1>4, <1>5, <1>6, <1>7
<1> HIDE DEF pos
<1>9. way[pos] = Head(up)
  <2>1. pos \in Len(x) + 1 .. Len(x) + Len(up) /\ pos - Len(x) = 1
    BY <1>1, <1>8
  <2> QED
    BY <1>1, <1>6, <2>1
<1>10. z[pos] = f
  <2>1. pos \in 1 .. Len(y) /\ pos \in Len(b) + 1 .. Len(b) + Len(a) /\ pos - Len(b) = Len(d) + 1
    BY <1>3, <1>8
  <2> QED
    BY <1>3, <1>5, <1>7, <2>1
<1>11. ASSUME NEW k \in 1 .. Len(way), k # pos PROVE z[k] = way[k]
  <2>1. CASE k <= Len(b)
    <3>1. k \in 1 .. Len(b) /\ k \in 1 .. Len(x) /\ k \in 1 .. Len(y)
      BY <1>3, <1>8, <2>1
    <3>2. way[k] = b[k]
      BY <1>4, <1>6, <3>1
    <3>3. z[k] = b[k]
      BY <1>5, <1>7, <3>1
    <3> QED
      BY <3>2, <3>3
  <2>2. CASE k > Len(b) /\ k < pos
    <3>1. /\ k \in Len(b) + 1 .. Len(b) + Len(d) /\ k \in 1 .. Len(x) /\ k \in 1 .. Len(y)
          /\ k \in Len(b) + 1 .. Len(b) + Len(a) /\ k - Len(b) \in 1 .. Len(d)
      BY <1>3, <1>8, <2>2
    <3>2. way[k] = d[k - Len(b)]
      BY <1>4, <1>6, <3>1
    <3>3. z[k] = a[k - Len(b)]
      BY <1>5, <1>7, <3>1
    <3> QED
      BY <1>3, <3>1, <3>2, <3>3
  <2>3. CASE k > pos
    <3>1. /\ k \in Len(x) + 1 .. Len(x) + Len(up) /\ k \in Len(y) + 1 .. Len(y) + Len(t)
          /\ k - Len(y) \in 1 .. Len(up) - 1 /\ (k - Len(y)) + 1 = k - Len(x)
      <4> DEFINE A == Len(x)
                 B == Len(y)
                 C == Len(up)
                 D == Len(t)
                 E == Len(way)
      <4>1. /\ A \in Nat /\ B = A + 1 /\ C \in Nat /\ D = C - 1 /\ E = A + C /\ k \in 1 .. E /\ k > B
        BY <1>1, <1>6, <1>8, <2>3
      <4> HIDE DEF A, B, C, D, E
      <4>2. /\ k \in A + 1 .. A + C /\ k \in B + 1 .. B + D
            /\ k - B \in 1 .. C - 1 /\ (k - B) + 1 = k - A
        BY ONLY <4>1
      <4> QED
        BY <4>2 DEF A, B, C, D
    <3>2. way[k] = up[k - Len(x)]
      BY <1>6, <3>1
    <3>3. z[k] = t[k - Len(y)]
      BY <1>7, <3>1
    <3> QED
      BY <1>1, <3>1, <3>2, <3>3
  <2> QED
    BY <1>3, <1>8, <1>11, <2>1, <2>2, <2>3
<1>12. Len(way) = 1 => pos = 1 /\ t = <<>>
  <2>1. ASSUME Len(way) = 1 PROVE pos = 1 /\ Len(t) = 0
    BY <1>1, <1>6, <1>8, <2>1
  <2> QED
    BY <1>2, <2>1, EmptySeq
<1>13. Swapped(way, z, pos, f, up)
  BY <1>6, <1>7, <1>8, <1>9, <1>10, <1>11, <1>12 DEF Swapped, t
<1> QED
  BY <1>13 DEF way, z, x, y, a, t, pos

LEMMA SwapStep ==
    ASSUME NEW way \in Seq(Frames), NEW z \in Seq(Frames), Len(z) = Len(way), NEW pos \in 1 .. Len(way),
           \A k \in 1 .. Len(way) : k # pos => z[k] = way[k],
           NEW q, NEW sent, InStep(way, q, sent),
           z[pos] # "garbage" =>
               /\ way[pos] # "garbage"
               /\ Waited(z[pos]) => Waited(way[pos]) /\ (Replies(way[pos], q) => Replies(z[pos], q))
    PROVE  InStep(z, q, sent)
<1>1. DOMAIN way = 1 .. Len(way) /\ DOMAIN z = 1 .. Len(way) /\ Len(way) \in Nat
  OBVIOUS
<1>2. ASSUME NEW k \in Nat, Comes(z, k) PROVE Comes(way, k) /\ Replies(z[k], q)
  <2>1. k \in 1 .. Len(way) /\ Waited(z[k]) /\ \A j \in 1 .. k : z[j] # "garbage"
    BY <1>1, <1>2 DEF Comes
  <2>2. ASSUME NEW j \in 1 .. k PROVE way[j] # "garbage"
    <3>1. j \in 1 .. Len(way)
      BY <1>1, <2>1
    <3> QED
      BY <2>1, <3>1
  <2>3. Waited(way[k])
    BY <2>1
  <2>4. Comes(way, k)
    BY <1>1, <2>1, <2>2, <2>3 DEF Comes
  <2>5. Replies(z[k], q)
    <3>1. CASE k = pos
      BY <1>2, <2>1, <2>4, <3>1 DEF InStep
    <3>2. CASE k # pos
      <4>1. z[k] = way[k]
        BY <2>1, <3>2
      <4> QED
        BY <1>2, <2>4, <4>1 DEF InStep
    <3> QED
      BY <3>1, <3>2
  <2> QED
    BY <2>4, <2>5
<1> QED
  BY <1>2 DEF InStep

LEMMA LastTail ==
    ASSUME NEW q \in Seq(Words), q # <<>>, NEW b \in BOOLEAN
    PROVE  /\ LastIs(q, b) => LastIs(Tail(q), b)
           /\ Head(q) \notin NoWait /\ Silent(Tail(q)) => Silent(q)
           /\ LastIs(q, b) /\ Head(q) \in NoWait /\ Silent(Tail(q)) => (Head(q) = "SUBSCRIBE") = b
           /\ Greeted(q) => Greeted(Tail(q)) /\ Head(q) # "HELLO"
<1> DEFINE t == Tail(q)
<1>1. /\ t \in Seq(Words) /\ Len(q) \in Nat /\ Len(q) >= 1
      /\ DOMAIN q = 1 .. Len(q) /\ DOMAIN t = 1 .. Len(q) - 1
      /\ \A k \in 1 .. Len(q) - 1 : t[k] = q[k + 1]
      /\ Head(q) = q[1]
  BY TailIs
<1> HIDE DEF t
<1>2. \A k \in DOMAIN t : k + 1 \in DOMAIN q /\ k \in Int /\ t[k] = q[k + 1]
  BY <1>1
<1>3. \A k \in DOMAIN q : k # 1 => k - 1 \in DOMAIN t /\ k \in Int /\ t[k - 1] = q[k]
  <2>1. ASSUME NEW k \in DOMAIN q, k # 1 PROVE k - 1 \in DOMAIN t /\ k \in Int /\ t[k - 1] = q[k]
    <3>1. k - 1 \in 1 .. Len(q) - 1 /\ (k - 1) + 1 = k
      BY <1>1, <2>1
    <3> QED
      BY <1>1, <3>1
  <2> QED
    BY <2>1
<1>4. ASSUME LastIs(q, b) PROVE LastIs(t, b)
  <2>1. ASSUME NEW k \in DOMAIN t, t[k] \in NoWait, \A j \in DOMAIN t : j > k => t[j] \notin NoWait
        PROVE  (t[k] = "SUBSCRIBE") = b
    <3>1. k + 1 \in DOMAIN q /\ t[k] = q[k + 1] /\ k \in 1 .. Len(q) - 1
      BY <1>1, <1>2
    <3>2. ASSUME NEW j \in DOMAIN q, j > k + 1 PROVE q[j] \notin NoWait
      <4>1. j # 1 /\ j - 1 > k
        BY <1>1, <3>1, <3>2
      <4>2. j - 1 \in DOMAIN t /\ t[j - 1] = q[j]
        BY <1>3, <4>1
      <4> QED
        BY <2>1, <4>1, <4>2
    <3> QED
      BY <1>4, <2>1, <3>1, <3>2 DEF LastIs
  <2> QED
    BY <2>1 DEF LastIs
<1>5. Head(q) \notin NoWait /\ Silent(t) => Silent(q)
  BY <1>1, <1>3 DEF Silent
<1>6. ASSUME LastIs(q, b), Head(q) \in NoWait, Silent(t) PROVE (Head(q) = "SUBSCRIBE") = b
  <2>1. 1 \in DOMAIN q /\ q[1] \in NoWait
    BY <1>1, <1>6
  <2>2. ASSUME NEW j \in DOMAIN q, j > 1 PROVE q[j] \notin NoWait
    <3>1. j # 1
      BY <2>2
    <3> QED
      BY <1>3, <1>6, <3>1 DEF Silent
  <2> QED
    BY <1>1, <1>6, <2>1, <2>2 DEF LastIs
<1>7. Greeted(q) => Greeted(t) /\ Head(q) # "HELLO"
  BY <1>1, <1>2 DEF Greeted
<1> QED
  BY <1>4, <1>5, <1>6, <1>7 DEF t
(* What the server may make of a word.                                     *)
SaysOK(word, frame, old, proto, p) ==
    \/ word = "HELLO" /\ frame = "HELLO" /\ proto = "resp3"
    \/ word = "HELLO" /\ frame = "error" /\ proto = "refused" /\ p.refused
    \/ word \notin NoWait \cup {"HELLO"} /\ frame = word /\ proto = old
    \/ word \in NoWait /\ frame = (IF old = "resp3" THEN "push" ELSE "plain") /\ proto = old
    \/ frame = "garbage" /\ proto = IF word = "HELLO" THEN "refused" ELSE old

Meant(word, frame, old, proto, p) ==
    /\ frame \in Frames /\ proto \in {"none", "resp3", "refused"} /\ FrameOK(frame, p)
    /\ word \notin {"garbage", "error", "push", "plain"}
    /\ word # "HELLO" => proto = old
    /\ word = "HELLO" => /\ proto # "none"
                         /\ frame \in IF proto = "refused" THEN {"error", "garbage"} ELSE {"HELLO"}
    /\ Waited(word) => frame = "garbage" \/ Waited(frame)
    /\ Waited(frame) /\ frame # "garbage" => \/ word \in NoWait /\ old # "resp3"
                                             \/ frame = word
                                             \/ word = "HELLO" /\ frame = "error"

LEMMA SaysIs ==
    ASSUME NEW word \in Words, NEW frame, NEW old \in {"none", "resp3", "refused"}, NEW proto, NEW p,
           SaysOK(word, frame, old, proto, p)
    PROVE  Meant(word, frame, old, proto, p)
<1> SUFFICES
           /\ frame \in Frames /\ proto \in {"none", "resp3", "refused"} /\ FrameOK(frame, p)
           /\ word \notin {"garbage", "error", "push", "plain"}
           /\ word # "HELLO" => proto = old
           /\ word = "HELLO" => /\ proto # "none"
                                /\ frame \in IF proto = "refused" THEN {"error", "garbage"} ELSE {"HELLO"}
           /\ Waited(word) => frame = "garbage" \/ Waited(frame)
           /\ Waited(frame) /\ frame # "garbage" => \/ word \in NoWait /\ old # "resp3"
                                                    \/ frame = word
                                                    \/ word = "HELLO" /\ frame = "error"
  BY DEF Meant
<1>1. word \notin {"garbage", "error", "push", "plain"}
  BY Zenon, RedisAssumption DEF Words, NoWait, Reserved
<1>2. word \in Frames /\ "HELLO" \in Frames /\ {"push", "plain", "error", "garbage"} \subseteq Frames
  BY DEF Frames, Words
<1>3. CASE word = "HELLO" /\ frame = "HELLO" /\ proto = "resp3"
  BY <1>1, <1>2, <1>3 DEF FrameOK, Waited, NoWait
<1>4. CASE word = "HELLO" /\ frame = "error" /\ proto = "refused" /\ p.refused
  BY <1>1, <1>2, <1>4 DEF FrameOK, Waited, NoWait
<1>5. CASE word \notin NoWait \cup {"HELLO"} /\ frame = word /\ proto = old
  BY <1>1, <1>2, <1>5 DEF FrameOK, Waited
<1>6. CASE word \in NoWait /\ frame = (IF old = "resp3" THEN "push" ELSE "plain") /\ proto = old
  BY Zenon, <1>1, <1>2, <1>6 DEF FrameOK, Waited, NoWait
<1>7. CASE frame = "garbage" /\ proto = IF word = "HELLO" THEN "refused" ELSE old
  BY <1>1, <1>2, <1>7 DEF FrameOK, Waited, NoWait
<1> QED
  BY <1>3, <1>4, <1>5, <1>6, <1>7 DEF SaysOK
LEMMA SaidGood ==
    ASSUME NEW s, NEW a, NEW p, NEW n \in Nat, Good(s, a, p, n), Live(s), s.ios[s.r.io].up # <<>>,
           NEW frame, NEW proto, SaysOK(Head(s.ios[s.r.io].up), frame, s.ios[s.r.io].proto, proto, p)
    PROVE  Good(Said(s, s.r.io, frame, proto), a, p, n)
<1> DEFINE i == s.r.io
           o == s.ios[i]
           q == s.r.cmd_queue
           word == Head(o.up)
           tail == Tail(o.up)
           u == Said(s, i, frame, proto)
           way == (s.r.buf \o o.down) \o o.up
           y == (s.r.buf \o Append(o.down, frame)) \o tail
           pos == Len(s.r.buf) + Len(o.down) + 1
           wants == Wants(a)
<1>1. /\ s \in EngineRec /\ Typed(s, p) /\ Counted(s, n) /\ Connected(s) /\ LockOK(s, p, FALSE)
      /\ QueueOK(s) /\ AnswersOK(s, p) /\ SubsOK(s, a) /\ AllTold(s)
      /\ ReadersOK(s) /\ ReadyOK(s) /\ DyingOK(s) /\ Retries(s)
      /\ \A cmd \in Commands : PlaceOK(s, a, cmd)
  BY Zenon, GoodParts
<1>2. /\ i # NoIo /\ i \in DOMAIN s.ios /\ s.r.ready /\ ~o.closed /\ o.owned /\ s.r.running
      /\ o.st = "open" /\ IoOK(s, i)
  <2>1. i # NoIo /\ i \in DOMAIN s.ios /\ s.r.ready /\ ~o.closed /\ IoOK(s, i)
    BY <1>1 DEF Live, Connected
  <2> QED
    BY Zenon, <1>1, <2>1 DEF IoOK, Connected
<1>3. /\ o.up \in Seq(Words) /\ o.down \in Seq(Frames) /\ s.r.buf \in Seq(Frames) /\ o.up # <<>>
      /\ o.proto \in {"none", "resp3", "refused"} /\ word \in Words /\ o.up[1] = word /\ 1 \in DOMAIN o.up
      /\ o.subs \in BOOLEAN
  <2>1. o \in IoRec /\ o.up \in Seq(Words) /\ o.down \in Seq(Frames)
    BY <1>1, <1>2, IoType
  <2>2. s.r.buf \in Seq(Frames)
    BY <1>1, <1>2, WayType
  <2>3. word \in Words
    BY <2>1, ContentsTail
  <2>4. o.up[1] = word /\ 1 \in DOMAIN o.up
    BY <2>1, TailIs
  <2> QED
    BY <2>1, <2>2, <2>3, <2>4 DEF IoRec
<1>4. SaysOK(word, frame, o.proto, proto, p)
  OBVIOUS
<1>5. /\ frame \in Frames /\ proto \in {"none", "resp3", "refused"} /\ FrameOK(frame, p)
      /\ word \notin {"garbage", "error", "push", "plain"}
      /\ word # "HELLO" => proto = o.proto
      /\ word = "HELLO" => /\ proto # "none"
                           /\ frame \in IF proto = "refused" THEN {"error", "garbage"} ELSE {"HELLO"}
      /\ Waited(word) => frame = "garbage" \/ Waited(frame)
      /\ Waited(frame) /\ frame # "garbage" => \/ word \in NoWait /\ o.proto # "resp3"
                                               \/ frame = word
                                               \/ word = "HELLO" /\ frame = "error"
  <2> DEFINE old == o.proto
  <2>1. word \in Words /\ old \in {"none", "resp3", "refused"} /\ SaysOK(word, frame, old, proto, p)
    BY <1>3, <1>4
  <2> HIDE DEF word, old
  <2>2. Meant(word, frame, old, proto, p)
    BY ONLY <2>1, SaysIs
  <2> QED
    BY <2>2 DEF Meant, old
<1>6. /\ u \in EngineRec /\ u.r = s.r /\ u.tasks = s.tasks
      /\ u.timers = s.timers /\ u.answers = s.answers
      /\ DOMAIN u.ios = DOMAIN s.ios
      /\ \A j \in DOMAIN s.ios : j # i => u.ios[j] = s.ios[j]
      /\ u.ios[i].closed = o.closed /\ u.ios[i].up = tail
      /\ u.ios[i].down = Append(o.down, frame)
      /\ u.ios[i].st = o.st /\ u.ios[i].owned = o.owned
      /\ u.ios[i].proto = proto
      /\ u.ios[i].subs = ((o.subs \/ word = "SUBSCRIBE") /\ word \notin NoWait \ {"SUBSCRIBE"})
  <2>1. s \in EngineRec /\ i \in DOMAIN s.ios /\ s.ios[i].up # <<>> /\ frame \in Frames
        /\ proto \in {"none", "resp3", "refused"}
    BY Zenon, <1>1, <1>2, <1>3, <1>5
  <2> HIDE DEF i
  <2> QED
    BY ONLY <2>1, SaidIs DEF u, o, word, tail
<1>7. /\ way \in Seq(Frames) /\ y \in Seq(Frames) /\ Len(y) = Len(way) /\ Len(way) \in Nat
      /\ DOMAIN way = 1 .. Len(way) /\ DOMAIN y = 1 .. Len(way)
      /\ pos \in 1 .. Len(way) /\ way[pos] = word /\ y[pos] = frame
      /\ \A k \in 1 .. Len(way) : k # pos => y[k] = way[k]
      /\ Len(way) = 1 => pos = 1 /\ tail = <<>>
  <2> DEFINE b == s.r.buf
             d == o.down
             w == o.up
  <2>1. b \in Seq(Frames) /\ d \in Seq(Frames) /\ w \in Seq(Words) /\ w # <<>> /\ frame \in Frames
    BY <1>3, <1>5
  <2> HIDE DEF b, d, w
  <2> QED
    <3>1. Swapped((b \o d) \o w, (b \o Append(d, frame)) \o Tail(w), Len(b) + Len(d) + 1, frame, w)
      BY ONLY <2>1, WaySwap
    <3>2. Swapped(way, y, pos, frame, o.up)
      BY <3>1 DEF b, d, w
    <3> HIDE DEF way, y, pos, o
    <3> QED
      BY <3>2 DEF Swapped, word, tail
<1>8. Way(s) = way /\ Way(u) = y
  BY Zenon, <1>6 DEF Way, Stream
<1>9. /\ LastIs(o.up, wants) => LastIs(tail, wants)
      /\ word \notin NoWait /\ Silent(tail) => Silent(o.up)
      /\ LastIs(o.up, wants) /\ word \in NoWait /\ Silent(tail) => (word = "SUBSCRIBE") = wants
      /\ Greeted(o.up) => Greeted(tail) /\ word # "HELLO"
  <2>1. wants \in BOOLEAN
    BY <1>1 DEF Wants
  <2> DEFINE w == o.up
  <2>2. w \in Seq(Words) /\ w # <<>>
    BY <1>3
  <2> HIDE DEF w, wants
  <2> QED
    BY ONLY <2>1, <2>2, LastTail DEF word, tail, w
<1> HIDE DEF way, y, pos, u, tail, word, o, wants
<1>10. /\ Greets(q) <=> word = "HELLO"
       /\ Greets(q) => Len(way) = 1 /\ pos = 1 /\ tail = <<>>
  <2>1. GreetOK(s)
    BY <1>1 DEF LockOK
  <2>2. ASSUME Greets(q)
        PROVE  Len(way) = 1 /\ way[1] \in IF o.proto = "refused" THEN {"error", "garbage"} ELSE {"HELLO"}
    BY <1>8, <2>1, <2>2 DEF GreetOK, o, i
  <2>3. ASSUME Greets(q) PROVE word = "HELLO" /\ pos = 1 /\ tail = <<>>
    BY <1>5, <1>7, <2>2, <2>3
  <2>4. ASSUME word = "HELLO" PROVE Greets(q)
    <3>1. ~Greeted(o.up)
      BY <1>3, <2>4 DEF Greeted
    <3>2. o.proto = "none"
      BY <1>2, <3>1 DEF IoOK, o
    <3> QED
      BY <2>1, <3>2 DEF GreetOK, o, i
  <2> QED
    BY <2>2, <2>3, <2>4
<1>11. /\ Live(u) /\ u.r.io = i /\ u.r.cmd_queue = q /\ (Dying(u) <=> Dying(s)) /\ Readers(u) = Readers(s)
       /\ (Continues(u) <=> Continues(s)) /\ u.ios[u.r.io].proto = proto
  <2>1. Live(u) /\ u.r.io = i /\ u.r.cmd_queue = q /\ u.ios[u.r.io].proto = proto
    BY Zenon, <1>2, <1>6 DEF Live, o
  <2>2. Dying(u) <=> Dying(s)
    BY <1>5, <1>10, <2>1 DEF Dying, o, i
  <2> QED
    BY <1>6, <2>1, <2>2 DEF Readers, Continues
<1> HIDE DEF i, q
<1>12. ASSUME ~Dying(s)
       PROVE  frame # "garbage" =>
                /\ word # "garbage"
                /\ Waited(frame) => Waited(word) /\ (Replies(word, q) => Replies(frame, q))
  <2>1. ~(word \in NoWait /\ o.proto # "resp3")
    <3>1. ASSUME word \in NoWait, o.proto # "resp3" PROVE FALSE
      <4>1. word # "HELLO"
        BY Zenon, <3>1 DEF NoWait
      <4>2. ~Greets(q)
        BY <1>10, <4>1
      <4>3. o.proto # "none"
        BY <1>1, <4>2 DEF LockOK, GreetOK, o, i, q
      <4>4. o.proto = "refused"
        BY <1>3, <3>1, <4>3
      <4> QED
        BY <1>12, <4>2, <4>4 DEF Dying, o, i, q
    <3> QED
      BY <3>1
  <2>2. ASSUME word = "HELLO" PROVE Waited(word) /\ (Replies(word, q) => Replies("error", q))
    BY <2>2 DEF Waited, Replies, NoWait
  <2> QED
    BY <1>5, <2>1, <2>2
<1>13. LockOK(u, p, FALSE)
  <2>1. StepOK(u, FALSE)
    <3>1. SUFFICES ASSUME ~Dying(s) PROVE InStep(y, q, s.r.pub_sent)
      BY <1>6, <1>8, <1>11 DEF StepOK, q
    <3>2. InStep(way, q, s.r.pub_sent)
      BY <1>1, <1>2, <1>8, <3>1 DEF LockOK, StepOK, q, i
    <3>3. frame # "garbage" =>
                /\ word # "garbage"
                /\ Waited(frame) => Waited(word) /\ (Replies(word, q) => Replies(frame, q))
      BY <1>12, <3>1
    <3> QED
      BY <1>7, <3>2, <3>3, SwapStep
  <2>2. GreetOK(u)
    <3>1. ASSUME Greets(q)
          PROVE  /\ Len(y) = 1 /\ y[1] \in IF proto = "refused" THEN {"error", "garbage"} ELSE {"HELLO"}
                 /\ proto # "none"
      BY <1>5, <1>7, <1>10, <3>1
    <3>2. ASSUME ~Greets(q) PROVE proto # "none"
      BY <1>1, <1>5, <1>10, <3>2 DEF LockOK, GreetOK, o, i, q
    <3> QED
      BY <1>8, <1>11, <3>1, <3>2 DEF GreetOK
  <2>3. SentOK(u)
    <3>1. SUFFICES ASSUME ~Dying(s), s.r.pub_sent, "garbage" \notin Contents(y)
                   PROVE  \E k \in DOMAIN y : Waited(y[k])
      BY <1>6, <1>8, <1>11 DEF SentOK
    <3>2. \A k \in 1 .. Len(way) : y[k] # "garbage"
      BY <1>7, <3>1 DEF Contents
    <3>3. "garbage" \notin Contents(way)
      <4>1. ASSUME NEW k \in 1 .. Len(way) PROVE way[k] # "garbage"
        BY <1>5, <1>7, <3>2
      <4> QED
        BY <1>7, <4>1 DEF Contents
    <3>4. PICK k \in 1 .. Len(way) : Waited(way[k])
      BY <1>1, <1>7, <1>8, <3>1, <3>3 DEF LockOK, SentOK
    <3>5. Waited(y[k])
      BY <1>5, <1>7, <3>2, <3>4
    <3> QED
      BY <1>7, <3>4, <3>5
  <2>4. FramesOK(u, p)
    <3>1. Contents(Append(o.down, frame)) = Contents(o.down) \cup {frame}
      BY <1>3, <1>5, ContentsAppend
    <3>2. ASSUME NEW j \in DOMAIN s.ios, NEW f \in Contents(u.ios[j].down) PROVE FrameOK(f, p)
      <4>1. \A g \in Contents(s.ios[j].down) : FrameOK(g, p)
        BY <1>1 DEF LockOK, FramesOK
      <4>2. CASE j = i
        BY <1>5, <1>6, <3>1, <3>2, <4>1, <4>2 DEF o
      <4>3. CASE j # i
        BY <1>6, <3>2, <4>1, <4>3
      <4> QED
        BY <4>2, <4>3
    <3> QED
      BY <1>1, <1>6, <3>2 DEF LockOK, FramesOK
  <2> QED
    BY <2>1, <2>2, <2>3, <2>4 DEF LockOK
<1>14. Typed(u, p) /\ Counted(u, n)
  BY <1>1, <1>6 DEF Typed, TaskOK, Counted
<1>15. Connected(u)
  <2>1. ASSUME NEW j \in DOMAIN s.ios PROVE IoOK(u, j)
    <3>1. IoOK(s, j)
      BY <1>1, <2>1 DEF Connected
    <3>2. CASE j = i
      <4>1. proto # "none" => Greeted(tail)
        <5>1. CASE word = "HELLO"
          <6>1. DOMAIN tail = {}
            BY <1>10, <5>1
          <6> QED
            BY <6>1 DEF Greeted
        <5>2. CASE word # "HELLO"
          BY <1>2, <1>5, <1>9, <5>2 DEF IoOK, o
        <5> QED
          BY <5>1, <5>2
      <4> QED
        BY Zenon, <1>2, <1>6, <3>2, <4>1 DEF IoOK, o, i
    <3>3. CASE j # i
      BY <1>6, <2>1, <3>1, <3>3 DEF IoOK
    <3> QED
      BY <3>2, <3>3
  <2> QED
    BY Zenon, <1>1, <1>2, <1>6, <2>1 DEF Connected, i, o
<1>16. QueueOK(u) /\ AnswersOK(u, p)
  BY <1>1, <1>6 DEF QueueOK, AnswersOK
<1>17. SubsOK(u, a)
  <2>1. SUFFICES ASSUME Silent(q) PROVE LastIs(tail, wants) /\ (Silent(tail) => u.ios[i].subs = wants)
    BY <1>1, <1>6, <1>11 DEF SubsOK, wants, q
  <2>2. LastIs(o.up, wants) /\ (Silent(o.up) => o.subs = wants)
    BY <1>1, <1>2, <2>1 DEF SubsOK, wants, q, o, i
  <2>3. ASSUME Silent(tail), word \notin NoWait PROVE u.ios[i].subs = wants
    <3>1. o.subs = wants
      BY <1>9, <2>2, <2>3
    <3>2. word # "SUBSCRIBE"
      BY Zenon, <2>3 DEF NoWait
    <3> QED
      BY <1>3, <1>6, <2>3, <3>1, <3>2
  <2>4. ASSUME Silent(tail), word \in NoWait PROVE u.ios[i].subs = wants
    <3>1. (word = "SUBSCRIBE") = wants
      BY <1>9, <2>2, <2>4
    <3>2. word \notin NoWait \ {"SUBSCRIBE"} <=> word = "SUBSCRIBE"
      BY Zenon, <2>4 DEF NoWait
    <3>3. u.ios[i].subs = (word = "SUBSCRIBE")
      BY <1>6, <3>2
    <3> QED
      BY <3>1, <3>3
  <2> QED
    BY <1>9, <2>2, <2>3, <2>4
<1>18. AllTold(u)
  <2>1. ASSUME NEW j \in DOMAIN s.ios PROVE u.ios[j].closed = s.ios[j].closed /\ u.ios[j].st = s.ios[j].st
    BY <1>2, <1>6 DEF o
  <2>2. ASSUME NEW t \in Contents(s.tasks), t.fn = "closed" PROVE u.ios[t.arg].closed
    <3>1. t.arg \in DOMAIN s.ios /\ s.ios[t.arg].closed
      BY <1>1, <2>2 DEF AllTold, Typed, TaskOK
    <3> QED
      BY <2>1, <3>1
  <2> QED
    BY <1>1, <1>6, <2>1, <2>2 DEF AllTold, Told
<1>19. ReadersOK(u) /\ DyingOK(u) /\ Retries(u)
  <2>1. Live(s) /\ Live(u)
    BY <1>11
  <2> QED
    BY <1>1, <1>6, <1>11, <2>1 DEF ReadersOK, DyingOK, Retries
<1>20. ReadyOK(u)
  <2>1. \A j : Readies(u, j) = Readies(s, j)
    BY <1>6 DEF Readies
  <2> QED
    BY <1>1, <1>2, <1>6, <2>1 DEF ReadyOK, o
<1>21. \A cmd \in Commands : PlaceOK(u, a, cmd)
  <2>1. \A cmd : InTasks(u, cmd) = InTasks(s, cmd)
    BY <1>6 DEF InTasks
  <2> QED
    BY <1>1, <1>6, <2>1, PlacesSame
<1> QED
  BY Zenon, <1>6, <1>13, <1>14, <1>15, <1>16, <1>17, <1>18, <1>19, <1>20, <1>21 DEF Good, Fine, Core, Base, u, i
-----------------------------------------------------------------------------
(* The steps.                                                              *)

LEMMA Became ==
    ASSUME NEW x \in EngineRec, Become(x)
    PROVE  Engine' = x
BY DEF Become, Engine, EngineRec

LEMMA Arrived ==
    ASSUME AppOK(app'), spent' \in SpentRec, NEW x, Become(x), Good(x, app', spent', Outside(app'))
    PROVE  IInv'
<1>1. x \in EngineRec
  BY GoodParts
<1>2. Engine' = x
  BY <1>1, Became
<1> QED
  BY <1>2 DEF IInv
LEMMA Seldom ==
    ASSUME Ordinary
    PROVE  /\ ~May("free early") /\ ~May("detach unused") /\ ~May("detach early")
           /\ ~May("detach late") /\ ~May("unresolved")
BY Zenon DEF Ordinary, May

LEMMA Here ==
    ASSUME IInv
    PROVE  /\ app \in AppRec /\ app.calls \subseteq app.sent
           /\ app.calls # {} => app.held > 0 \/ app.system
           /\ app.held \in 0 .. 2 /\ app.sent \subseteq Commands /\ app.calls \subseteq Commands
           /\ app.system \in BOOLEAN /\ app.subscribed \in BOOLEAN
           /\ spent \in SpentRec
           /\ Outside(app) \in Nat /\ Outside(app) = app.held + (IF app.system THEN 1 ELSE 0)
           /\ Good(Engine, app, spent, Outside(app)) /\ Engine \in EngineRec
           /\ Engine.r = r /\ Engine.ios = ios /\ Engine.tasks = tasks /\ Engine.timers = timers
           /\ Engine.answers = answers
<1>1. AppOK(app) /\ spent \in SpentRec /\ Good(Engine, app, spent, Outside(app))
  BY DEF IInv
<1>2. Engine \in EngineRec
  BY <1>1, GoodParts
<1>3. /\ app \in AppRec /\ app.calls \subseteq app.sent
      /\ app.calls # {} => app.held > 0 \/ app.system
      /\ app.held \in 0 .. 2 /\ app.sent \subseteq Commands /\ app.calls \subseteq Commands
      /\ app.system \in BOOLEAN /\ app.subscribed \in BOOLEAN
  BY <1>1 DEF AppOK, AppRec
<1>4. Outside(app) \in Nat /\ Outside(app) = app.held + (IF app.system THEN 1 ELSE 0)
  BY <1>3 DEF Outside
<1>5. /\ Engine.r = r /\ Engine.ios = ios /\ Engine.tasks = tasks /\ Engine.timers = timers
      /\ Engine.answers = answers
  BY DEF Engine
<1> QED
  BY <1>1, <1>2, <1>3, <1>4, <1>5

(* fio_redis_send, of the root and of a worker                             *)
LEMMA SendStep ==
    ASSUME IInv, NEW cmd \in Commands, Send(cmd)
    PROVE  IInv'
<1> DEFINE b == [app EXCEPT !.sent = @ \cup {cmd}]
           x == Defer(Dup(Engine), "attach_cmd", cmd, "none")
           n == Outside(app)
<1>1. cmd \notin app.sent /\ app.held > 0 /\ Become(x) /\ app' = b /\ spent' = spent
  BY DEF Send
<1>2. /\ b \in AppRec /\ b.sent = app.sent \cup {cmd} /\ b.calls = app.calls /\ b.held = app.held
      /\ b.system = app.system /\ b.subscribed = app.subscribed
  BY Here DEF AppRec
<1> HIDE DEF b, x
<1>3. AppOK(b) /\ Outside(b) = n
  BY <1>2, Here DEF AppOK, Outside
<1>4. n \in Nat /\ n > 0 /\ Good(Engine, app, spent, n)
  BY <1>1, Here
<1>5. /\ InTasks(Engine, cmd) = {} /\ InQueue(Engine, cmd) = {} /\ Answered(Engine, cmd) = {}
      /\ cmd \notin app.calls
  BY <1>1, Here DEF Good, PlaceOK
<1> HIDE DEF n
<1>6. Good(x, b, spent, n)
  <2>1. /\ cmd \in b.sent /\ cmd \notin b.calls
        /\ \A c \in Commands : c # cmd => (c \in b.sent <=> c \in app.sent) /\ (c \in b.calls <=> c \in app.calls)
    BY <1>2, <1>5
  <2> QED
    BY <1>2, <1>4, <1>5, <2>1, CarrierGood DEF x
<1> QED
  BY <1>1, <1>3, <1>6, Here, Arrived

LEMMA SendRemoteStep ==
    ASSUME Ordinary, IInv, NEW cmd \in Commands, SendRemote(cmd)
    PROVE  IInv'
<1> DEFINE b == [app EXCEPT !.sent = @ \cup {cmd}, !.calls = @ \cup {cmd}]
<1>1. /\ cmd \notin app.sent /\ (app.held > 0 \/ app.system) /\ app' = b /\ spent' = spent
      /\ Engine' = Engine
  BY Zenon, Seldom DEF SendRemote, Engine
<1>2. /\ b \in AppRec /\ b.sent = app.sent \cup {cmd} /\ b.calls = app.calls \cup {cmd} /\ b.held = app.held
      /\ b.system = app.system /\ b.subscribed = app.subscribed
  BY Here DEF AppRec
<1> HIDE DEF b
<1>3. AppOK(b) /\ Outside(b) = Outside(app)
  BY <1>1, <1>2, Here DEF AppOK, Outside
<1>4. \A c \in Commands : PlaceOK(Engine, app, c)
  BY Here, GoodParts
<1>5. ASSUME NEW c \in Commands PROVE PlaceOK(Engine, b, c)
  <2>1. PlaceOK(Engine, app, c)
    BY <1>4
  <2>2. CASE c = cmd
    <3>1. /\ InTasks(Engine, c) = {} /\ InQueue(Engine, c) = {} /\ Answered(Engine, c) = {}
      BY <1>1, <2>1, <2>2 DEF PlaceOK
    <3> QED
      BY <1>2, <2>2, <3>1 DEF PlaceOK, Single
  <2>3. CASE c # cmd
    BY <1>2, <2>1, <2>3 DEF PlaceOK
  <2> QED
    BY <2>2, <2>3
<1>6. SubsOK(Engine, b)
  BY <1>2, Here, GoodParts, SameSubs
<1>7. Good(Engine, b, spent, Outside(app))
  BY <1>5, <1>6, Here DEF Good, Fine, Core, Base
<1> QED
  BY <1>1, <1>3, <1>7, Here DEF IInv

LEMMA SendOnMasterStep ==
    ASSUME IInv, NEW cmd \in Commands, SendOnMaster(cmd)
    PROVE  IInv'
<1> DEFINE b == [app EXCEPT !.calls = @ \ {cmd}]
           x == IF r.running THEN Defer(Dup(Engine), "attach_cmd", cmd, "none")
                ELSE Answer(Engine, cmd, "none")
           n == Outside(app)
<1>1. cmd \in app.calls /\ Become(x) /\ app' = b /\ spent' = spent
  BY DEF SendOnMaster, Answer
<1>2. /\ b \in AppRec /\ b.sent = app.sent /\ b.calls = app.calls \ {cmd} /\ b.held = app.held
      /\ b.system = app.system /\ b.subscribed = app.subscribed
  BY Here DEF AppRec
<1> HIDE DEF b, x
<1>3. AppOK(b) /\ Outside(b) = n
  BY <1>2, Here DEF AppOK, Outside
<1>4. n \in Nat /\ n > 0 /\ Good(Engine, app, spent, n)
  BY <1>1, Here
<1>5. PlaceOK(Engine, app, cmd) /\ \A c \in Commands : PlaceOK(Engine, app, c)
  BY Here, GoodParts
<1>6. /\ InTasks(Engine, cmd) = {} /\ InQueue(Engine, cmd) = {} /\ Answered(Engine, cmd) = {}
      /\ cmd \in app.sent
  BY <1>1, <1>5, Here DEF PlaceOK
<1> HIDE DEF n
<1>7. /\ cmd \in b.sent /\ cmd \notin b.calls
      /\ \A c \in Commands : c # cmd => (c \in b.sent <=> c \in app.sent) /\ (c \in b.calls <=> c \in app.calls)
  BY <1>2, <1>6
<1>8. Good(x, b, spent, n)
  <2>1. CASE r.running
    BY <1>2, <1>4, <1>6, <1>7, <2>1, CarrierGood DEF x
  <2>2. CASE ~r.running
    <3>1. Fine(Engine, app, spent, n) /\ Retries(Engine) /\ SubsOK(Engine, b)
      BY <1>2, <1>4, GoodParts, SameSubs
    <3>2. \A c \in Commands : c # cmd => PlaceOK(Engine, b, c)
      <4>1. ASSUME NEW c \in Commands, c # cmd PROVE PlaceOK(Engine, b, c)
        <5>1. PlaceOK(Engine, app, c) /\ (c \in b.sent <=> c \in app.sent) /\ (c \in b.calls <=> c \in app.calls)
          BY <1>5, <1>7, <4>1
        <5> QED
          BY <5>1 DEF PlaceOK
      <4> QED
        BY <4>1
    <3>3. ~Engine.r.running /\ "none" \in Frames \cup {"none"}
      BY <2>2, Here
    <3>4. Good(Answer(Engine, cmd, "none"), b, spent, n)
      <4> DEFINE reply == "none"
                 s == Engine
      <4>1. /\ reply \in Frames \cup {"none"} /\ (reply = "none" /\ ~s.r.running)
            /\ Fine(s, app, spent, n) /\ Retries(s) /\ SubsOK(s, b) /\ n \in Nat
            /\ InTasks(s, cmd) = {} /\ InQueue(s, cmd) = {} /\ Answered(s, cmd) = {}
            /\ cmd \in b.sent /\ cmd \notin b.calls
            /\ \A c \in Commands : c # cmd => PlaceOK(s, b, c)
        BY <1>4, <1>6, <1>7, <3>1, <3>2, <3>3
      <4> HIDE DEF s, reply
      <4>2. Good(Answer(s, cmd, reply), b, spent, n)
        BY <4>1, AnswerGood
      <4> QED
        BY <4>2 DEF s, reply
    <3> QED
      BY <2>2, <3>4 DEF x
  <2> QED
    BY <2>1, <2>2
<1> QED
  BY <1>1, <1>3, <1>8, Here, Arrived
(* fio_redis_free                                                          *)
LEMMA FreeEngineStep ==
    ASSUME Ordinary, IInv, FreeEngine
    PROVE  IInv'
<1> DEFINE b == [app EXCEPT !.held = @ - 1]
           x == Free(Engine)
           m == Outside(app) - 1
<1>1. app.held > 0 /\ app.calls = {} /\ Become(x) /\ app' = b /\ spent' = spent
  BY Zenon, Seldom DEF FreeEngine
<1>2. /\ b \in AppRec /\ b.sent = app.sent /\ b.calls = app.calls /\ b.held = app.held - 1
      /\ b.system = app.system /\ b.subscribed = app.subscribed
  BY <1>1, Here DEF AppRec
<1> HIDE DEF b
<1>3. AppOK(b) /\ Outside(b) = m
  BY <1>1, <1>2, Here DEF AppOK, Outside
<1>4. m \in Nat /\ Outside(app) = m + 1
  BY <1>1, Here
<1>5. Good(Engine, app, spent, m + 1)
  BY <1>4, Here
<1> HIDE DEF m
<1>6. Good(x, app, spent, m)
  BY <1>4, <1>5, FreedGood
<1> HIDE DEF x
<1>7. SubsOK(x, b)
  BY <1>2, <1>6, GoodParts, SameSubs
<1>8. Good(x, b, spent, m)
  BY <1>2, <1>6, <1>7, AppMoves
<1> QED
  BY <1>1, <1>3, <1>8, Here, Arrived

(* fio_pubsub_engine_attach and fio_pubsub_engine_detach                   *)
LEMMA EngineAttachStep ==
    ASSUME IInv, EngineAttach
    PROVE  IInv'
<1> DEFINE b == [app EXCEPT !.held = @ - 1, !.system = TRUE]
           x == IF app.subscribed THEN Subscribe(Engine) ELSE Engine
           n == Outside(app)
<1>1. app.held > 0 /\ ~app.system /\ Become(x) /\ app' = b /\ spent' = spent
  BY DEF EngineAttach
<1>2. /\ b \in AppRec /\ b.sent = app.sent /\ b.calls = app.calls /\ b.held = app.held - 1
      /\ b.system = TRUE /\ b.subscribed = app.subscribed
  <2> DEFINE held == app.held - 1
  <2>1. app \in AppRec /\ held \in 0 .. 2
    BY <1>1, Here
  <2> HIDE DEF held
  <2> QED
    BY ONLY <2>1 DEF b, held, AppRec
<1> HIDE DEF b, x
<1>3. AppOK(b) /\ Outside(b) = n
  BY <1>1, <1>2, Here DEF AppOK, Outside
<1>4. n \in Nat /\ Good(Engine, app, spent, n) /\ ~Wants(app) /\ Wants(app) = FALSE
  BY <1>1, Here DEF Wants
<1> HIDE DEF n
<1>5. Good(x, b, spent, n)
  <2>1. CASE app.subscribed
    <3>1. b.subscribed = TRUE
      BY <1>2, <2>1, Here
    <3>2. Good(Subscribe(Engine), b, spent, n)
      BY <1>2, <1>4, <3>1, SubscribeGood
    <3> QED
      BY <2>1, <3>2 DEF x
  <2>2. CASE ~app.subscribed
    <3>1. Wants(b) = FALSE
      BY <1>2, <2>2 DEF Wants
    <3>2. SubsOK(Engine, app)
      BY <1>4, GoodParts
    <3>3. SubsOK(Engine, b)
      BY <1>2, <1>4, <3>1, <3>2 DEF SubsOK
    <3>4. Good(Engine, b, spent, n)
      BY <1>2, <1>4, <3>3, AppMoves
    <3> QED
      BY <2>2, <3>4 DEF x
  <2> QED
    BY <2>1, <2>2
<1> QED
  BY <1>1, <1>3, <1>5, Here, Arrived

LEMMA EngineDetachStep ==
    ASSUME Ordinary, IInv, EngineDetach
    PROVE  IInv'
<1> DEFINE b == [app EXCEPT !.system = FALSE]
           x == Detached(Engine)
           m == Outside(app) - 1
<1>1. /\ app.system /\ app.held > 0 /\ r.attached /\ (r.io = NoIo \/ State # "connecting")
      /\ (\A k \in 1 .. Len(r.cmd_queue) : r.cmd_queue[k] \notin NoWait)
      /\ Become(x) /\ app' = b /\ spent' = spent
  BY Zenon, Seldom DEF EngineDetach
<1>2. /\ b \in AppRec /\ b.sent = app.sent /\ b.calls = app.calls /\ b.held = app.held
      /\ b.system = FALSE
  BY Here DEF AppRec
<1> HIDE DEF b
<1>3. AppOK(b) /\ Outside(b) = m
  BY <1>1, <1>2, Here DEF AppOK, Outside
<1>4. m \in Nat /\ Outside(app) = m + 1
  BY <1>1, Here
<1>5. Good(Engine, app, spent, m + 1)
  BY <1>4, Here
<1>6. Silent(Engine.r.cmd_queue)
  <2>1. r.cmd_queue \in Seq(Words)
    BY Here, Typed2
  <2>2. DOMAIN r.cmd_queue = 1 .. Len(r.cmd_queue)
    BY <2>1
  <2> QED
    BY <1>1, <2>2, Here DEF Silent
<1>7. Engine.r.running /\ Engine.r.io # NoIo => ~Greets(Engine.r.cmd_queue) /\ Engine.r.ready
  <2>1. SUFFICES ASSUME r.running, r.io # NoIo PROVE ~Greets(r.cmd_queue) /\ r.ready
    BY Here
  <2>2. State # "connecting"
    BY <1>1, <2>1
  <2>3. r.ready
    BY <2>1, <2>2 DEF State
  <2> QED
    BY <2>1, <2>2, <2>3 DEF State, Greets
<1>8. Engine.r.attached
  BY <1>1, Here
<1> HIDE DEF m
<1>9. Good(x, b, spent, m)
  <2> DEFINE s == Engine
  <2>1. /\ m \in Nat /\ Good(s, app, spent, m + 1) /\ s.r.attached /\ Silent(s.r.cmd_queue)
        /\ s.r.running /\ s.r.io # NoIo => ~Greets(s.r.cmd_queue) /\ s.r.ready
        /\ b.system = FALSE /\ b.sent = app.sent /\ b.calls = app.calls
    BY <1>2, <1>4, <1>5, <1>6, <1>7, <1>8
  <2> HIDE DEF s
  <2>2. Good(Detached(s), b, spent, m)
    BY <2>1, DetachedGood
  <2> QED
    BY <2>2 DEF s
<1> HIDE DEF x
<1> QED
  BY <1>1, <1>3, <1>9, Here, Arrived

(* A subscriber comes or goes.                                             *)
LEMMA ToggleStep ==
    ASSUME IInv, Toggle
    PROVE  IInv'
<1> DEFINE b == [app EXCEPT !.subscribed = ~@]
           z == [spent EXCEPT !.toggles = @ + 1]
           x == CASE ~app.system -> Engine
                  [] app.system /\ ~app.subscribed -> Subscribe(Engine)
                  [] app.system /\ app.subscribed -> Unsubscribe(Engine)
           n == Outside(app)
<1>1. Become(x) /\ app' = b /\ spent' = z
  BY DEF Toggle
<1>2. /\ b \in AppRec /\ b.sent = app.sent /\ b.calls = app.calls /\ b.held = app.held
      /\ b.system = app.system /\ b.subscribed = ~app.subscribed
      /\ z \in SpentRec /\ z.refused = spent.refused
  <2> DEFINE on == ~app.subscribed
             k == spent.toggles + 1
  <2>1. app \in AppRec /\ on \in BOOLEAN /\ spent \in SpentRec /\ k \in Nat
    BY Here DEF SpentRec
  <2>2. b = [app EXCEPT !.subscribed = on] /\ z = [spent EXCEPT !.toggles = k]
    OBVIOUS
  <2> HIDE DEF on, k, b, z
  <2>3. /\ b \in AppRec /\ b.sent = app.sent /\ b.calls = app.calls /\ b.held = app.held
        /\ b.system = app.system /\ b.subscribed = on
    BY ONLY <2>1, <2>2 DEF AppRec
  <2>4. z \in SpentRec /\ z.refused = spent.refused
    BY ONLY <2>1, <2>2 DEF SpentRec
  <2> QED
    BY <2>3, <2>4 DEF on
<1> HIDE DEF b, x, z
<1>3. AppOK(b) /\ Outside(b) = n
  BY <1>2, Here DEF AppOK, Outside
<1>4. n \in Nat /\ Good(Engine, app, spent, n)
  BY Here
<1> HIDE DEF n
<1>5. Good(x, b, spent, n)
  <2>1. CASE ~app.system
    <3>1. Wants(b) = FALSE /\ Wants(app) = FALSE
      BY <1>2, <2>1 DEF Wants
    <3>2. SubsOK(Engine, b)
      BY <1>2, <1>4, <3>1, GoodParts DEF SubsOK
    <3>3. Good(Engine, b, spent, n)
      BY <1>2, <1>4, <3>2, AppMoves
    <3> QED
      BY <2>1, <3>3 DEF x
  <2>2. CASE app.system /\ ~app.subscribed
    <3>1. b.system = TRUE /\ b.subscribed = TRUE /\ ~Wants(app)
      BY <1>2, <2>2, Here DEF Wants
    <3>2. Good(Subscribe(Engine), b, spent, n)
      BY <1>2, <1>4, <3>1, SubscribeGood
    <3> QED
      BY <2>2, <3>2 DEF x
  <2>3. CASE app.system /\ app.subscribed
    <3>1. b.system = TRUE /\ b.subscribed = FALSE /\ Wants(app)
      BY <1>2, <2>3, Here DEF Wants
    <3>2. Good(Unsubscribe(Engine), b, spent, n)
      BY <1>2, <1>4, <3>1, UnsubscribeGood
    <3> QED
      BY <2>3, <3>2 DEF x
  <2> QED
    BY <2>1, <2>2, <2>3, Here
<1>6. Good(x, b, z, n)
  BY <1>2, <1>5, SpentMore
<1> QED
  BY <1>1, <1>2, <1>3, <1>6, Here, Arrived
(* The events of a poll                                                    *)
LEMMA Events_ ==
    ASSUME IInv, Polling
    PROVE  /\ \A k \in DOMAIN Engine.tasks : Engine.tasks[k].fn \in Events
           /\ \A t \in Contents(Engine.tasks) : t.fn \in Events
           /\ ~Dying(Engine)
           /\ \A i : Due("data", i) => \A k \in DOMAIN Engine.tasks : ~Reads(Engine.tasks[k], i)
           /\ \A i : Due("ready", i) => Readies(Engine, i) = {}
<1> DEFINE q == Engine.tasks
<1>1. q \in Seq(TaskRec) /\ q = tasks /\ Engine \in EngineRec
  BY Here, Typed2
<1>2. DOMAIN q = 1 .. Len(q)
  BY <1>1
<1>3. \A k \in DOMAIN q : q[k].fn \in Events
  BY <1>1, <1>2 DEF Polling
<1>4. \A t \in Contents(q) : t.fn \in Events
  BY <1>3 DEF Contents
<1>5. ~Dying(Engine)
  <2>1. Refusal.fn = "perform_callback"
    BY DEF Refusal, Task
  <2>2. Refusal \notin Contents(q)
    BY <1>4, <2>1 DEF Events
  <2> QED
    BY <2>2, Here, GoodParts DEF DyingOK
<1>6. \A i : Due("data", i) => \A k \in DOMAIN q : ~Reads(q[k], i)
  BY <1>1, <1>2, <1>3 DEF Due, Reads, Events
<1>7. \A i : Due("ready", i) => Readies(Engine, i) = {}
  BY <1>1, <1>2 DEF Due, Readies
<1> QED
  BY <1>3, <1>4, <1>5, <1>6, <1>7

LEMMA EventStep ==
    ASSUME IInv, NEW i \in 1 .. Len(ios), NEW fn \in Events, Due(fn, i),
           fn = "ready" => ios[i].st = "connecting",
           Become(Defer(Engine, fn, i, "none")),
           app' = app, spent' \in SpentRec, spent'.refused = spent.refused
    PROVE  IInv'
<1> DEFINE t == Task(fn, i, "none")
           x == Defer(Engine, fn, i, "none")
           n == Outside(app)
<1>1. /\ Engine \in EngineRec /\ n \in Nat /\ Good(Engine, app, spent, n) /\ i \in DOMAIN Engine.ios
      /\ Engine.ios = ios
  <2>1. ios \in Seq(IoRec)
    BY Here, Typed2
  <2>2. DOMAIN ios = 1 .. Len(ios)
    BY <2>1
  <2> QED
    BY <2>2, Here
<1>2. fn \notin OwningTasks /\ fn \in {"ready", "data", "timeout"}
  BY DEF Events, OwningTasks
<1>3. x = With(Engine, t)
  BY <1>1, <1>2, DeferIs
<1>4. /\ t \in TaskRec /\ t.fn = fn /\ t.arg = i /\ TaskOK(t, Engine.ios, spent)
      /\ ~Owned(t) /\ t.fn \notin {"continue", "attach_cmd", "perform_callback", "closed"}
  BY <1>1, <1>2 DEF Task, TaskRec, Fns, TaskOK, Owned
<1>5. Reads(t, Engine.r.io) => Readers(Engine) = {} /\ ~Dying(Engine)
  <2>1. ASSUME Reads(t, Engine.r.io) PROVE Due("data", Engine.r.io)
    BY <1>4, <2>1 DEF Reads
  <2> QED
    BY <2>1, Events_ DEF Readers, Due
<1>6. t.fn = "ready" => Readies(Engine, t.arg) = {} /\ Engine.ios[t.arg].st = "connecting"
  BY <1>1, <1>4, Events_ DEF Due
<1> HIDE DEF t, n, x
<1>7. Good(With(Engine, t), app, spent, n)
  <2> DEFINE s == Engine
  <2>1. /\ Good(s, app, spent, n) /\ n \in Nat /\ t \in TaskRec /\ TaskOK(t, s.ios, spent)
        /\ t.fn \notin {"continue", "attach_cmd", "perform_callback"}
        /\ t.fn = "closed" => s.ios[t.arg].closed
        /\ Owned(t) => s.r.refs > 0
        /\ Reads(t, s.r.io) => Readers(s) = {} /\ ~Dying(s)
        /\ t.fn = "ready" => Readies(s, t.arg) = {} /\ s.ios[t.arg].st = "connecting"
    BY <1>1, <1>4, <1>5, <1>6
  <2> HIDE DEF s
  <2>2. Good(With(s, t), app, spent, n)
    BY ONLY <2>1, WithGood
  <2> QED
    BY <2>2 DEF s
<1>8. Good(x, app, spent', n)
  BY <1>3, <1>7, SpentMore
<1>9. Become(x)
  BY DEF x
<1> QED
  BY <1>8, <1>9, Here, Arrived DEF IInv, n

LEMMA PollLostStep ==
    ASSUME IInv, NEW i \in 1 .. Len(ios), PollLost(i)
    PROVE  IInv'
<1> DEFINE x == CloseNow(Engine, i)
           n == Outside(app)
<1>1. Become(x) /\ app' = app /\ spent' = [spent EXCEPT !.losses = @ + 1]
  BY DEF PollLost, Loss
<1>2. i \in DOMAIN Engine.ios
  <2>1. ios \in Seq(IoRec)
    BY Here, Typed2
  <2>2. DOMAIN ios = 1 .. Len(ios)
    BY <2>1
  <2> QED
    BY <2>2, Here
<1>3. spent' \in SpentRec /\ spent'.refused = spent.refused
  BY <1>1, Here DEF SpentRec
<1>4. Good(x, app, spent, n)
  BY <1>2, Here, CloseNowGood
<1> HIDE DEF x
<1>5. Good(x, app, spent', n)
  BY <1>3, <1>4, SpentMore
<1> QED
  BY <1>1, <1>3, <1>5, Here, Arrived DEF IInv

LEMMA TimerFiresStep ==
    ASSUME IInv, TimerFires
    PROVE  IInv'
<1> DEFINE t == Task("connect", NoIo, "none")
           s == Engine
           y == With(s, t)
           refs == y.r.refs - 1
           left == s.timers - 1
           x == Defer([s EXCEPT !.timers = @ - 1], "connect", NoIo, "none")
           n == Outside(app)
<1>1. Become(x) /\ app' = app /\ spent' = spent /\ s.timers > 0 /\ n \in Nat
  BY Here DEF TimerFires
<1>2. /\ Good(s, app, spent, n) /\ s \in EngineRec /\ Counted(s, n) /\ s.timers \in Nat
      /\ Cardinality(Owning(s.tasks)) \in Nat
  BY Here, GoodParts, Typed2, OwningType
<1>3. s.r.refs > 0
  BY <1>1, <1>2 DEF Counted
<1>4. /\ t \in TaskRec /\ t.fn = "connect" /\ t.arg = NoIo /\ TaskOK(t, s.ios, spent) /\ Owned(t)
      /\ ~Reads(t, s.r.io)
  BY DEF Task, TaskRec, Fns, TaskOK, Owned, OwningTasks, Reads, NoIo
<1> HIDE DEF s
<1>5. Good(y, app, spent, n)
  <2>1. t.fn \notin {"continue", "attach_cmd", "perform_callback"} /\ t.fn # "closed" /\ t.fn # "ready"
    BY <1>4
  <2> HIDE DEF t, n
  <2> QED
    BY <1>1, <1>2, <1>3, <1>4, <2>1, WithGood
<1>6. /\ y \in EngineRec /\ y.r = [s.r EXCEPT !.refs = @ + One(Owned(t))] /\ y.r.refs = s.r.refs + 1
      /\ y.ios = s.ios /\ y.timers = s.timers /\ y.answers = s.answers
      /\ y.tasks = Append(s.tasks, t) /\ Contents(y.tasks) = Contents(s.tasks) \cup {t}
  <2>1. One(Owned(t)) = 1
    BY <1>4 DEF One
  <2> HIDE DEF t
  <2> QED
    BY <1>2, <1>4, <2>1, WithIs
<1>7. left \in Nat /\ refs = s.r.refs /\ refs \in Nat
  BY <1>1, <1>2, <1>6, Typed2
<1>8. /\ Alike(y, x) /\ x.r.refs = refs /\ x.r.attached = y.r.attached /\ x.timers = left
  <2>1. x = [s EXCEPT !.timers = left, !.tasks = Append(@, t)]
    BY <1>2 DEF Defer, EngineRec
  <2> HIDE DEF x, y, refs, left, t
  <2>2. /\ x \in EngineRec /\ x.r = s.r /\ x.ios = s.ios /\ x.timers = left /\ x.answers = s.answers
        /\ x.tasks = Append(s.tasks, t)
    <3>1. s.tasks \in Seq(TaskRec) /\ Append(s.tasks, t) \in Seq(TaskRec)
      BY <1>2, <1>4, Typed2, ContentsAppend
    <3> DEFINE q == Append(s.tasks, t)
    <3>2. x = [s EXCEPT !.timers = left, !.tasks = q] /\ q \in Seq(TaskRec)
      BY <2>1, <3>1
    <3> HIDE DEF q
    <3>3. /\ x \in EngineRec /\ x.r = s.r /\ x.ios = s.ios /\ x.timers = left /\ x.answers = s.answers
          /\ x.tasks = q
      BY ONLY <1>2, <1>7, <3>2 DEF EngineRec
    <3> QED
      BY <3>3 DEF q
  <2>3. /\ y.r.running = s.r.running /\ y.r.pub_sent = s.r.pub_sent /\ y.r.io = s.r.io
        /\ y.r.ready = s.r.ready /\ y.r.cmd_queue = s.r.cmd_queue /\ y.r.buf = s.r.buf
        /\ y.r.attached = s.r.attached
    BY <1>2, <1>6 DEF EngineRec
  <2> QED
    BY <1>6, <1>7, <2>2, <2>3 DEF Alike
<1> HIDE DEF x, y, left, refs, t, n
<1>9. Counted(x, n)
  <2>1. Counted(y, n) /\ y.timers = left + 1 /\ y.r.refs = refs + 1
    <3>1. Counted(y, n)
      BY <1>5, GoodParts
    <3> QED
      BY <1>2, <1>6, <1>7, <3>1 DEF left
  <2>2. y.tasks \in Seq(TaskRec)
    BY <1>6, Typed2
  <2>3. Cardinality(Owning(y.tasks)) \in Nat
    BY <2>2, OwningType
  <2>4. x.r.refs = n + x.timers + Cardinality(Owning(x.tasks))
    BY <1>1, <1>7, <1>8, <2>1, <2>3 DEF Counted, Alike
  <2>5. x.r.refs > 0
    BY <1>3, <1>7, <1>8, <1>6
  <2> QED
    BY <2>4, <2>5 DEF Counted
<1>10. SubsOK(x, app)
  <2>1. SubsOK(y, app)
    BY <1>5, GoodParts
  <2>2. Live(x) = Live(y)
    BY <1>8, AlikeKeeps
  <2> QED
    BY <1>8, <2>1, <2>2 DEF SubsOK, Alike
<1>11. Fine(x, app, spent, n)
  <2>1. y.r.refs = 0 => x.r.refs = 0
    BY <1>2, <1>6, Typed2
  <2> QED
    BY <1>5, <1>8, <1>9, <1>10, <2>1, GoodParts, AlikeFine
<1>12. Retries(x)
  <2>1. t \in Contents(x.tasks)
    BY <1>6, <1>8 DEF Alike
  <2> QED
    BY <1>4, <2>1 DEF Retries
<1>13. \A cmd \in Commands : PlaceOK(x, app, cmd)
  BY <1>5, <1>8, GoodParts, AlikeKeeps
<1>14. Good(x, app, spent, n)
  BY <1>11, <1>12, <1>13 DEF Good
<1> QED
  BY <1>1, <1>14, Here, Arrived DEF IInv, n
(* The server                                                              *)
LEMMA ServeStep ==
    ASSUME Ordinary, IInv, NEW i \in 1 .. Len(ios), Serve(i)
    PROVE  IInv'
<1> DEFINE s == Engine
           n == Outside(app)
           word == Head(ios[i].up)
           old == ios[i].proto
<1>1. /\ s \in EngineRec /\ n \in Nat /\ Good(s, app, spent, n) /\ i \in DOMAIN s.ios /\ i # NoIo
      /\ s.ios = ios /\ s.r = r /\ Connected(s)
  <2>1. ios \in Seq(IoRec)
    BY Here, Typed2
  <2>2. DOMAIN ios = 1 .. Len(ios)
    BY <2>1
  <2>3. Connected(Engine)
    BY Here, GoodParts
  <2> QED
    BY <2>2, <2>3, Here DEF NoIo
<1>2. Open(i) /\ ios[i].up # <<>> /\ app' = app
  BY DEF Serve
<1>3. s.r.io = i /\ Live(s) /\ s.ios[s.r.io].up # <<>>
  <2>1. IoOK(s, i)
    BY <1>1 DEF Connected
  <2>2. s.r.io = i
    BY <1>1, <1>2, <2>1 DEF IoOK, Open
  <2> QED
    BY <1>1, <1>2, <2>2 DEF Live, Connected, Open
<1>4. PICK frame, proto :
          /\ Says(i, frame, proto) /\ SaysOK(word, frame, old, proto, spent')
          /\ spent' \in SpentRec
          /\ spent.refused => spent'.refused
  <2>1. spent \in SpentRec
    BY Here
  <2>2. CASE word = "HELLO" /\ Says(i, word, "resp3") /\ UNCHANGED spent
    BY <2>1, <2>2 DEF SaysOK
  <2>3. CASE /\ word = "HELLO" /\ Says(i, "error", "refused")
             /\ spent' = [spent EXCEPT !.refused = TRUE]
    <3>1. spent' \in SpentRec /\ spent'.refused
      BY <2>1, <2>3 DEF SpentRec
    <3> QED
      BY <2>3, <3>1 DEF SaysOK
  <2>4. CASE word \notin NoWait \cup {"HELLO"} /\ Says(i, word, old) /\ UNCHANGED spent
    BY <2>1, <2>4 DEF SaysOK
  <2>5. CASE word \in NoWait /\ Says(i, Confirmation(i), old) /\ UNCHANGED spent
    BY <2>1, <2>5 DEF SaysOK, Confirmation
  <2>6. CASE Loss /\ Says(i, "garbage", IF word = "HELLO" THEN "refused" ELSE old)
    <3>1. spent' \in SpentRec /\ spent'.refused = spent.refused
      BY <2>1, <2>6 DEF SpentRec, Loss
    <3> QED
      BY <2>6, <3>1 DEF SaysOK
  <2> QED
    BY <2>2, <2>3, <2>4, <2>5, <2>6 DEF Serve
<1> DEFINE x == Said(s, i, frame, proto)
<1>5. Become(x)
  <2>1. UNCHANGED <<r, tasks, timers, answers>>
    BY DEF Serve
  <2>2. x = [s EXCEPT !.ios = ios']
    BY <1>1, <1>4 DEF Says, Said, Engine
  <2> QED
    BY <2>1, <2>2 DEF Become, Engine
<1>6. Good(x, app, spent', n)
  <2>1. Good(s, app, spent', n)
    BY <1>1, <1>4, SpentMore
  <2>2. SaysOK(Head(s.ios[s.r.io].up), frame, s.ios[s.r.io].proto, proto, spent')
    BY <1>1, <1>3, <1>4
  <2> HIDE DEF s, n
  <2>3. Good(Said(s, s.r.io, frame, proto), app, spent', n)
    BY <1>1, <1>3, <2>1, <2>2, SaidGood
  <2> QED
    BY <1>3, <2>3
<1> HIDE DEF x
<1> QED
  BY <1>2, <1>4, <1>5, <1>6, Here, Arrived DEF IInv, n

(* A task of the reactor                                                   *)
LEMMA PerformStep ==
    ASSUME Ordinary, IInv, Perform
    PROVE  IInv'
<1> DEFINE s == Engine
           n == Outside(app)
           t == Head(tasks)
           x == CASE t.fn = "connect"          -> Free(ConnectImpl(Rest, TRUE))
                  [] t.fn = "attach_cmd"       -> AttachCmd(Rest, t.arg)
                  [] t.fn = "perform_callback" -> PerformCallback(Rest, t.arg, t.reply)
                  [] t.fn = "continue"         -> OnDataContinue(Rest)
                  [] t.fn = "closed"           -> OnClosed(Rest, t.arg)
                  [] t.fn = "ready"            -> OnReady(Rest, t.arg)
                  [] t.fn = "data"             -> OnData(Rest, t.arg)
                  [] t.fn = "timeout"          -> OnTimeout(Rest, t.arg)
<1>1. /\ s \in EngineRec /\ n \in Nat /\ Good(s, app, spent, n) /\ s.tasks = tasks /\ Rest = Popped(s)
      /\ app.system \in BOOLEAN /\ app.subscribed \in BOOLEAN
  BY Here DEF Rest, Popped
<1>2. s.tasks # <<>> /\ Become(x) /\ app' = app /\ spent' = spent
  <2>1. ~Unresolved
    BY Zenon, Seldom DEF Unresolved
  <2> QED
    BY <1>1, <2>1 DEF Perform
<1>3. Head(s.tasks) = t /\ t.fn \in Fns
  <2>1. t \in TaskRec
    BY <1>1, <1>2, PoppedIs
  <2> QED
    BY <1>1, <2>1 DEF TaskRec
<1> HIDE DEF s, n, t
<1>4. Good(x, app, spent, n)
  <2>1. CASE t.fn = "connect"
    BY <1>1, <1>2, <1>3, <2>1, ConnectGood
  <2>2. CASE t.fn = "attach_cmd"
    BY <1>1, <1>2, <1>3, <2>2, AttachGood
  <2>3. CASE t.fn = "perform_callback"
    BY <1>1, <1>2, <1>3, <2>3, CallbackGood
  <2>4. CASE t.fn = "continue"
    BY <1>1, <1>2, <1>3, <2>4, ContinueGood
  <2>5. CASE t.fn = "closed"
    BY <1>1, <1>2, <1>3, <2>5, ClosedGood
  <2>6. CASE t.fn = "ready"
    BY <1>1, <1>2, <1>3, <2>6, ReadyGood
  <2>7. CASE t.fn = "data"
    BY <1>1, <1>2, <1>3, <2>7, DataGood
  <2>8. CASE t.fn = "timeout"
    BY <1>1, <1>2, <1>3, <2>8, TimeoutGood
  <2> QED
    BY <1>3, <2>1, <2>2, <2>3, <2>4, <2>5, <2>6, <2>7, <2>8 DEF Fns
<1> HIDE DEF x
<1> QED
  BY <1>2, <1>4, Here, Arrived DEF IInv, n
LEMMA InitInv == Init => IInv
<1> SUFFICES ASSUME Init PROVE IInv
  OBVIOUS
<1> DEFINE s == Engine
           t == Task("connect", NoIo, "none")
<1>1. /\ s.r = [refs |-> 3, running |-> TRUE, attached |-> FALSE, pub_sent |-> FALSE,
                io |-> NoIo, ready |-> FALSE, cmd_queue |-> <<>>, buf |-> <<>>]
      /\ s.ios = <<>> /\ s.tasks = <<t>> /\ s.timers = 0 /\ s.answers = [cmd \in Commands |-> <<>>]
  BY DEF Init, Engine
<1>2. /\ app.held = 2 /\ app.sent = {} /\ app.calls = {} /\ app.system = FALSE /\ app \in AppRec
      /\ spent \in SpentRec
  BY DEF Init, AppRec, SpentRec
<1>3. /\ t \in TaskRec /\ t.fn = "connect" /\ t.arg = NoIo /\ TaskOK(t, s.ios, spent)
  BY DEF Task, TaskRec, Fns, TaskOK, NoIo
<1>4. s \in EngineRec
  <2>1. s.r \in RRec
    BY <1>1 DEF RRec, NoIo
  <2>2. s.tasks \in Seq(TaskRec) /\ s.ios \in Seq(IoRec) /\ s.timers \in Nat
    BY <1>1, <1>3
  <2>3. s.answers \in [Commands -> Seq(Frames \cup {"none"})]
    <3>1. <<>> \in Seq(Frames \cup {"none"})
      OBVIOUS
    <3> QED
      BY <1>1, <3>1
  <2> QED
    BY <2>1, <2>2, <2>3 DEF Engine, EngineRec, RRec
<1>5. /\ Contents(s.tasks) = {t} /\ DOMAIN s.tasks = {1} /\ s.tasks[1] = t
  BY <1>1 DEF Contents
<1>6. Cardinality(Owning(s.tasks)) = 1
  <2>1. Owning(s.tasks) = {1}
    BY <1>3, <1>5 DEF Owning, OwningTasks
  <2> QED
    BY <2>1, FS_Singleton
<1>7. /\ DOMAIN s.ios = {} /\ DOMAIN s.r.cmd_queue = {} /\ Contents(s.r.buf) = {}
      /\ \A cmd \in Commands : DOMAIN s.answers[cmd] = {}
  <2>1. DOMAIN <<>> = {}
    OBVIOUS
  <2> QED
    BY <1>1, <2>1 DEF Contents
<1> HIDE DEF s, t
<1>8. /\ s.r.refs = 3 /\ s.r.running /\ ~s.r.attached /\ ~s.r.pub_sent /\ s.r.io = NoIo /\ ~s.r.ready
      /\ s.r.cmd_queue = <<>> /\ s.r.buf = <<>> /\ ~Live(s)
  BY <1>1 DEF Live
<1>9. Outside(app) = 2
  BY <1>2 DEF Outside
<1>10. Typed(s, spent) /\ Counted(s, 2)
  BY <1>1, <1>3, <1>4, <1>5, <1>6, <1>8 DEF Typed, Counted
<1>11. Connected(s) /\ AllTold(s)
  BY <1>3, <1>5, <1>7, <1>8 DEF Connected, AllTold
<1>12. LockOK(s, spent, FALSE)
  BY <1>7, <1>8 DEF LockOK, StepOK, GreetOK, SentOK, FramesOK
<1>13. QueueOK(s) /\ AnswersOK(s, spent)
  BY <1>7, <1>8 DEF QueueOK, AnswersOK
<1>14. SubsOK(s, app)
  BY <1>2, <1>7, <1>8 DEF SubsOK, Wants, LastIs
<1>15. ReadersOK(s) /\ ReadyOK(s) /\ DyingOK(s) /\ Retries(s)
  BY <1>3, <1>5, <1>7, <1>8 DEF ReadersOK, ReadyOK, DyingOK, Dying, Retries, Readers, Reads, Single
<1>16. ASSUME NEW cmd \in Commands PROVE PlaceOK(s, app, cmd)
  <2>1. InTasks(s, cmd) = {} /\ InQueue(s, cmd) = {} /\ Answered(s, cmd) = {}
    BY <1>3, <1>5, <1>7 DEF InTasks, InQueue, Answered, Carries
  <2> QED
    BY <1>2, <2>1 DEF PlaceOK, Single
<1>17. AppOK(app)
  BY <1>2 DEF AppOK
<1> QED
  BY <1>2, <1>9, <1>10, <1>11, <1>12, <1>13, <1>14, <1>15, <1>16, <1>17
     DEF IInv, Good, Fine, Core, Base, s

LEMMA NextInv ==
    ASSUME Ordinary, IInv, [Next]_vars
    PROVE  IInv'
<1>1. CASE UNCHANGED vars
  <2>1. Engine' = Engine /\ app' = app /\ spent' = spent
    BY <1>1 DEF vars, Engine
  <2> QED
    BY <2>1 DEF IInv
<1>2. CASE Next
  <2>1. ASSUME NEW cmd \in Commands, Send(cmd) \/ SendRemote(cmd) \/ SendOnMaster(cmd) PROVE IInv'
    BY <2>1, SendStep, SendRemoteStep, SendOnMasterStep
  <2>2. CASE FreeEngine \/ EngineAttach \/ EngineDetach \/ Toggle
    BY <2>2, FreeEngineStep, EngineAttachStep, EngineDetachStep, ToggleStep
  <2>3. ASSUME NEW i \in 1 .. Len(ios) PROVE PollReady(i) => IInv'
    <3> SUFFICES ASSUME PollReady(i) PROVE IInv'
      OBVIOUS
    <3>1. /\ "ready" \in Events /\ Due("ready", i) /\ ios[i].st = "connecting"
          /\ Become(Defer(Engine, "ready", i, "none")) /\ app' = app /\ spent' = spent
      BY DEF PollReady, Events
    <3> QED
      BY <3>1, EventStep, Here
  <2>4. ASSUME NEW i \in 1 .. Len(ios) PROVE PollData(i) => IInv'
    <3> SUFFICES ASSUME PollData(i) PROVE IInv'
      OBVIOUS
    <3>1. /\ "data" \in Events /\ Due("data", i)
          /\ Become(Defer(Engine, "data", i, "none")) /\ app' = app /\ spent' = spent
      BY DEF PollData, Events
    <3> QED
      BY <3>1, EventStep, Here
  <2>5. ASSUME NEW i \in 1 .. Len(ios) PROVE PollTimeout(i) => IInv'
    <3> SUFFICES ASSUME PollTimeout(i) PROVE IInv'
      OBVIOUS
    <3>1. /\ "timeout" \in Events /\ Due("timeout", i)
          /\ Become(Defer(Engine, "timeout", i, "none")) /\ app' = app
          /\ spent' = [spent EXCEPT !.timeouts = @ + 1]
      BY DEF PollTimeout, Events
    <3>2. spent' \in SpentRec /\ spent'.refused = spent.refused
      BY <3>1, Here DEF SpentRec
    <3> QED
      BY <3>1, <3>2, EventStep
  <2>6. ASSUME NEW i \in 1 .. Len(ios) PROVE PollLost(i) \/ Serve(i) => IInv'
    BY PollLostStep, ServeStep
  <2>7. CASE TimerFires \/ Perform
    BY <2>7, TimerFiresStep, PerformStep
  <2> QED
    BY <1>2, <2>1, <2>2, <2>3, <2>4, <2>5, <2>6, <2>7 DEF Next
<1> QED
  BY <1>1, <1>2

(* The engine's invariant holds in every reachable state.                  *)
THEOREM Invariance == ASSUME Ordinary PROVE Spec => []IInv
<1>1. Init => IInv
  BY InitInv
<1>2. IInv /\ [Next]_vars => IInv'
  BY NextInv
<1> QED
  BY <1>1, <1>2, PTL DEF Spec
-----------------------------------------------------------------------------
(* What the invariant says of the properties.                              *)

LEMMA HoldsRefs == IInv => RefsHeld
<1> SUFFICES ASSUME IInv PROVE RefsHeld
  OBVIOUS
<1> DEFINE s == Engine
           n == Outside(app)
<1>1. /\ s \in EngineRec /\ Typed(s, spent) /\ Counted(s, n) /\ Connected(s)
      /\ s.r = r /\ s.ios = ios /\ s.tasks = tasks /\ s.timers = timers /\ s.answers = answers
  BY Here, GoodParts
<1>2. /\ r \in RRec /\ ios \in Seq(IoRec) /\ tasks \in Seq(TaskRec) /\ timers \in Nat
      /\ answers \in [Commands -> Seq(Frames \cup {"none"})]
  BY <1>1 DEF EngineRec, RRec
<1>3. DOMAIN ios = 1 .. Len(ios) /\ Len(ios) \in Nat /\ DOMAIN tasks = 1 .. Len(tasks)
  BY <1>2
<1>4. app.held \in 0 .. 2 /\ app.calls \subseteq app.sent /\ app.sent \subseteq Commands
  BY Here
<1>5. TypeOK
  <2>1. r.io \in 0 .. Len(ios)
    BY <1>1, <1>3 DEF Connected, NoIo
  <2>2. r \in [refs : Nat, running : BOOLEAN, attached : BOOLEAN, pub_sent : BOOLEAN,
               io : 0 .. Len(ios), ready : BOOLEAN, cmd_queue : Seq(Words), buf : Seq(Frames)]
    BY <1>2, <2>1 DEF RRec
  <2>3. ASSUME NEW k \in DOMAIN tasks
        PROVE  /\ tasks[k].reply \in Frames \cup {"none"}
               /\ IF tasks[k].fn \in {"attach_cmd", "perform_callback"} THEN tasks[k].arg \in Words
                  ELSE tasks[k].arg \in 0 .. Len(ios)
    <3>1. tasks[k] \in TaskRec /\ tasks[k] \in Contents(tasks)
      BY <1>2, <1>3, ContentsIn
    <3>2. TaskOK(tasks[k], ios, spent)
      BY <1>1, <3>1 DEF Typed
    <3> QED
      BY <1>3, <3>1, <3>2 DEF TaskRec, TaskOK, Fns, Words, NoIo
  <2> QED
    BY <1>2, <1>4, <2>2, <2>3 DEF TypeOK, IoRec
<1>6. r.refs = app.held + (IF app.system THEN 1 ELSE 0) + timers
               + Cardinality({k \in 1 .. Len(tasks) : tasks[k].fn \in OwningTasks})
  <2>1. Owning(tasks) = {k \in 1 .. Len(tasks) : tasks[k].fn \in OwningTasks}
    BY <1>3 DEF Owning
  <2> QED
    BY <1>1, <2>1, Here DEF Counted
<1>7. ASSUME r.refs = 0
      PROVE  /\ r.cmd_queue = <<>> /\ app.calls = {}
             /\ \A i \in 1 .. Len(ios) : ~ios[i].owned
             /\ \A k \in 1 .. Len(tasks) : tasks[k].fn = "closed" => tasks[k].arg # NoIo
  <2>1. r.cmd_queue = <<>> /\ r.io = NoIo
    BY <1>1, <1>7 DEF Counted
  <2>2. app.held = 0 /\ ~app.system
    <3>1. Cardinality(Owning(s.tasks)) \in Nat
      BY <1>1, Typed2, OwningType
    <3> QED
      BY <1>1, <1>2, <1>7, <3>1, Here DEF Counted
  <2>3. app.calls = {}
    BY <2>2, Here
  <2>4. ASSUME NEW i \in 1 .. Len(ios) PROVE ~ios[i].owned
    <3>1. IoOK(s, i) /\ s.r.io = NoIo /\ i # NoIo
      BY <1>1, <1>3, <2>1 DEF Connected, NoIo
    <3>2. ios[i].owned = (s.r.io = i)
      BY <1>1, <3>1 DEF IoOK
    <3> QED
      BY <3>1, <3>2
  <2>5. ASSUME NEW k \in 1 .. Len(tasks), tasks[k].fn = "closed" PROVE tasks[k].arg # NoIo
    <3>1. tasks[k] \in Contents(tasks)
      BY <1>2, ContentsIn
    <3> QED
      BY <1>1, <1>3, <2>5, <3>1 DEF Typed, TaskOK, NoIo
  <2> QED
    BY <2>1, <2>3, <2>4, <2>5
<1> QED
  BY <1>5, <1>6, <1>7 DEF RefsHeld

LEMMA HoldsStep == IInv => LockStep
<1> SUFFICES ASSUME IInv, NEW i \in 1 .. Len(ios), Open(i), ios[i].owned
             PROVE  /\ r.io = i /\ r.ready
                    /\ LET way == Stream(Engine, i)
                           waited == {k \in DOMAIN way : Waited(way[k])}
                       IN  ios[i].proto # "refused" /\ "garbage" \notin Contents(way) =>
                             IF r.pub_sent THEN \E k \in waited : waited = {k} /\ way[k] = Head(r.cmd_queue)
                             ELSE waited = {}
                    /\ ios[i].proto = "none" => ios[i].up # <<>> /\ Head(ios[i].up) = "HELLO"
  BY DEF LockStep
<1> DEFINE s == Engine
           q == r.cmd_queue
           way == Stream(s, i)
           waited == {k \in DOMAIN way : Waited(way[k])}
<1>1. /\ s \in EngineRec /\ Connected(s) /\ LockOK(s, spent, FALSE) /\ s.r = r /\ s.ios = ios
  BY Here, GoodParts
<1>2. i \in DOMAIN ios /\ i # NoIo
  <2>1. ios \in Seq(IoRec)
    BY <1>1, Typed2
  <2> QED
    BY <2>1 DEF NoIo
<1>3. r.io = i /\ r.ready /\ Live(s) /\ way = Way(s)
  <2>1. r.io = i
    BY <1>1, <1>2 DEF Connected, IoOK
  <2> QED
    BY <1>1, <1>2, <2>1 DEF Connected, Live, Open, Way
<1>4. way \in Seq(Frames)
  BY <1>1, <1>2, WayType
<1> HIDE DEF way, s
<1>5. DOMAIN way = 1 .. Len(way)
  BY <1>4
<1>6. ios[i].proto = "none" => ios[i].up # <<>> /\ Head(ios[i].up) = "HELLO"
  <2>1. SUFFICES ASSUME ios[i].proto = "none" PROVE ios[i].up = <<"HELLO">>
    OBVIOUS
  <2> QED
    BY <1>1, <1>3, <2>1 DEF LockOK, GreetOK
<1>7. ASSUME ios[i].proto # "refused", "garbage" \notin Contents(way)
      PROVE  IF r.pub_sent THEN \E k \in waited : waited = {k} /\ way[k] = Head(q) ELSE waited = {}
  <2>1. ~Dying(s)
    BY <1>1, <1>3, <1>7 DEF Dying
  <2>2. InStep(way, q, r.pub_sent)
    BY <1>1, <1>2, <1>3, <2>1 DEF LockOK, StepOK
  <2>3. ASSUME NEW k \in waited PROVE k \in Nat /\ Comes(way, k)
    <3>1. \A j \in 1 .. k : way[j] # "garbage"
      BY <1>5, <1>7, <2>3 DEF Contents
    <3> QED
      BY <1>5, <2>3, <3>1 DEF Comes
  <2>4. CASE ~r.pub_sent
    BY <2>2, <2>3, <2>4 DEF InStep
  <2>5. CASE r.pub_sent
    <3>1. PICK k \in waited : TRUE
      BY <1>1, <1>3, <1>7, <2>1, <2>5 DEF LockOK, SentOK
    <3>2. \A j \in waited : j = k
      BY <2>2, <2>3, <3>1 DEF InStep
    <3>3. Replies(way[k], q)
      BY <2>2, <2>3, <3>1 DEF InStep
    <3>4. way[k] = Head(q)
      <4>1. ASSUME way[k] = "error", Greets(q) PROVE FALSE
        <5>1. Len(way) = 1 /\ way[1] = "HELLO"
          BY <1>1, <1>3, <1>7, <4>1 DEF LockOK, GreetOK
        <5> QED
          BY <1>5, <3>1, <4>1, <5>1
      <4> QED
        BY <3>3, <4>1 DEF Replies, Greets
    <3> QED
      BY <2>5, <3>1, <3>2, <3>4
  <2> QED
    BY <2>4, <2>5
<1> QED
  BY <1>3, <1>6, <1>7 DEF way, s

LEMMA HoldsAnswer == IInv => OwnAnswer
<1> SUFFICES ASSUME IInv PROVE OwnAnswer
  OBVIOUS
<1>1. /\ Engine \in EngineRec /\ Counted(Engine, Outside(app)) /\ AnswersOK(Engine, spent)
      /\ \A cmd \in Commands : PlaceOK(Engine, app, cmd)
      /\ Engine.r = r /\ Engine.answers = answers
  BY Here, GoodParts
<1>2. ASSUME NEW cmd \in Commands
      PROVE  answers[cmd] \in {<<>>, <<cmd>>} \/ (answers[cmd] = <<"none">> /\ ~r.running)
  <2> DEFINE q == answers[cmd]
  <2>1. q \in Seq(Frames \cup {"none"}) /\ Single(DOMAIN q)
    <3>1. PlaceOK(Engine, app, cmd)
      BY <1>1
    <3>2. answers \in [Commands -> Seq(Frames \cup {"none"})]
      BY <1>1, Typed2
    <3> QED
      BY <1>1, <3>1, <3>2 DEF PlaceOK, Answered
  <2>2. \A k \in DOMAIN q : q[k] = cmd \/ (q[k] = "none" /\ ~r.running)
    BY <1>1 DEF AnswersOK
  <2> HIDE DEF q
  <2>3. DOMAIN q = 1 .. Len(q) /\ Len(q) \in Nat
    BY <2>1
  <2>4. Len(q) = 0 \/ Len(q) = 1
    <3>1. SUFFICES ASSUME Len(q) >= 2 PROVE FALSE
      BY <2>3
    <3>2. 1 \in DOMAIN q /\ 2 \in DOMAIN q
      BY <2>3, <3>1
    <3> QED
      BY <2>1, <3>2 DEF Single
  <2>5. CASE Len(q) = 0
    BY <2>1, <2>5, EmptySeq DEF q
  <2>6. CASE Len(q) = 1
    <3>1. q = <<q[1]>> /\ 1 \in DOMAIN q
      BY <2>1, <2>3, <2>6
    <3> QED
      BY <2>2, <3>1 DEF q
  <2> QED
    BY <2>4, <2>5, <2>6
<1>3. ~r.running => spent.refused \/ r.refs = 0
  BY <1>1 DEF AnswersOK
<1> QED
  BY <1>2, <1>3 DEF OwnAnswer

LEMMA HoldsQuiet == IInv => Settled
<1> SUFFICES ASSUME IInv, Quiet
             PROVE  /\ r.running \/ r.refs = 0 => \A cmd \in app.sent : answers[cmd] # <<>>
                    /\ {i \in 1 .. Len(ios) : Open(i)} = IF r.running THEN {r.io} ELSE {}
                    /\ r.running => /\ ios[r.io].proto = "resp3" /\ r.cmd_queue = <<>>
                                    /\ ios[r.io].subs = (app.system /\ app.subscribed)
  BY DEF Settled
<1> DEFINE s == Engine
<1>1. /\ s \in EngineRec /\ Typed(s, spent) /\ Counted(s, Outside(app)) /\ Connected(s)
      /\ LockOK(s, spent, FALSE) /\ QueueOK(s) /\ SubsOK(s, app) /\ ReadersOK(s) /\ DyingOK(s) /\ Retries(s)
      /\ \A cmd \in Commands : PlaceOK(s, app, cmd)
      /\ s.r = r /\ s.ios = ios /\ s.tasks = tasks /\ s.timers = timers /\ s.answers = answers
  BY Here, GoodParts
<1>2. /\ tasks = <<>> /\ timers = 0 /\ app.calls = {} /\ DOMAIN s.tasks = {} /\ Contents(s.tasks) = {}
      /\ \A i \in 1 .. Len(ios) : ios[i].st = "gone" \/ (Open(i) /\ ios[i].up = <<>> /\ ios[i].down = <<>>)
  BY <1>1 DEF Quiet, Contents
<1>3. ios \in Seq(IoRec) /\ DOMAIN ios = 1 .. Len(ios) /\ Len(ios) \in Nat
  <2>1. ios \in Seq(IoRec)
    BY <1>1, Typed2
  <2> QED
    BY <2>1
<1> HIDE DEF s
<1>4. ASSUME NEW i \in 1 .. Len(ios), Open(i) PROVE r.running /\ r.io = i
  BY <1>1, <1>3, <1>4 DEF Connected, IoOK, Open
<1>5. ASSUME r.running
      PROVE  /\ r.io \in 1 .. Len(ios) /\ Open(r.io) /\ r.cmd_queue = <<>> /\ ios[r.io].proto = "resp3"
             /\ ios[r.io].subs = (app.system /\ app.subscribed)
  <2> DEFINE i == r.io
  <2>1. i # NoIo
    BY <1>1, <1>2, <1>5 DEF Retries
  <2>2. i \in 1 .. Len(ios) /\ i \in DOMAIN ios
    BY <1>1, <1>3, <2>1 DEF Connected
  <2>3. Open(i) /\ ios[i].up = <<>> /\ ios[i].down = <<>>
    BY <1>1, <1>2, <2>2 DEF Connected, IoOK
  <2>4. Live(s) /\ r.ready
    BY <1>1, <2>1, <2>2, <2>3 DEF Connected, Live, Open
  <2>5. r.buf = <<>>
    BY <1>1, <1>2, <2>4 DEF ReadersOK, Continues
  <2>6. DOMAIN Way(s) = {} /\ Contents(Way(s)) = {}
    <3>1. Way(s) = (<<>> \o <<>>) \o <<>>
      BY <1>1, <2>3, <2>5 DEF Way, Stream
    <3>2. (<<>> \o <<>>) \o <<>> = <<>> /\ DOMAIN <<>> = {}
      OBVIOUS
    <3> QED
      BY <3>1, <3>2 DEF Contents
  <2>7. ~Dying(s)
    BY <1>1, <1>2 DEF DyingOK
  <2>8. ~r.pub_sent
    BY <1>1, <2>4, <2>6, <2>7 DEF LockOK, SentOK
  <2>9. r.cmd_queue = <<>>
    BY <1>1, <2>1, <2>4, <2>8 DEF QueueOK
  <2>10. ~Greets(r.cmd_queue)
    BY <2>9 DEF Greets
  <2>11. ios[i].proto = "resp3"
    <3>1. ios[i].proto # "none"
      BY <1>1, <2>4, <2>10 DEF LockOK, GreetOK
    <3>2. ios[i].proto # "refused"
      BY <1>1, <2>4, <2>7, <2>10 DEF Dying
    <3>3. ios[i].proto \in {"none", "resp3", "refused"}
      <4>1. ios[i] \in IoRec
        BY <1>1, <2>2, IoType
      <4> QED
        BY <4>1 DEF IoRec
    <3> QED
      BY <3>1, <3>2, <3>3
  <2>12. ios[i].subs = Wants(app)
    <3>1. Silent(<<>>)
      BY DEF Silent
    <3> QED
      BY <1>1, <1>5, <2>3, <2>4, <2>9, <3>1 DEF SubsOK
  <2> QED
    BY <2>2, <2>3, <2>9, <2>11, <2>12 DEF Wants
<1>6. ASSUME r.running \/ r.refs = 0, NEW cmd \in app.sent PROVE answers[cmd] # <<>>
  <2>1. r.cmd_queue = <<>>
    BY <1>1, <1>5, <1>6 DEF Counted
  <2>2. cmd \in Commands
    BY Here
  <2>3. InTasks(s, cmd) = {} /\ InQueue(s, cmd) = {}
    BY <1>1, <1>2, <2>1 DEF InTasks, InQueue
  <2>4. Answered(s, cmd) # {}
    BY <1>1, <1>2, <2>2, <2>3 DEF PlaceOK
  <2> QED
    BY <1>1, <2>4 DEF Answered
<1>7. {i \in 1 .. Len(ios) : Open(i)} = IF r.running THEN {r.io} ELSE {}
  BY <1>4, <1>5
<1> QED
  BY <1>5, <1>6, <1>7
-----------------------------------------------------------------------------
(* The theorems.                                                           *)

(* The reference count is what its holders add up to, whoever frees the    *)
(* engine while commands, timers and connections come and go; once it is   *)
(* zero nothing refers to the engine (fio___redis_free).                   *)
THEOREM RefsAreHeld == ASSUME Ordinary PROVE Spec => []RefsHeld
BY Invariance, HoldsRefs, PTL

(* The engine and its server agree on what is on the wire: the handshake   *)
(* first, then one command at a time, whose reply is for the head of the   *)
(* queue (fio___redis_send_next_cmd, fio___redis_on_pub_message).          *)
THEOREM WireInStep == ASSUME Ordinary PROVE Spec => []LockStep
BY Invariance, HoldsStep, PTL

(* Each callback is called once, with the reply to its own command, across *)
(* lost connections, or with none when the engine has stopped.             *)
THEOREM AnswersAreOwn == ASSUME Ordinary PROVE Spec => []OwnAnswer
BY Invariance, HoldsAnswer, PTL

(* When nothing moves any more, nothing is owed: every command has its     *)
(* answer, an engine that runs is connected, and the server has the        *)
(* subscriptions of the pub/sub system.                                    *)
THEOREM QuietIsSettled == ASSUME Ordinary PROVE Spec => []Settled
BY Invariance, HoldsQuiet, PTL
=============================================================================
