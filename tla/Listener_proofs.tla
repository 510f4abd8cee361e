-------------------------- MODULE Listener_proofs ---------------------------
(***************************************************************************)
(* A listening socket that is not stopped by hand while the reactor runs:  *)
(* who holds the listener is counted, it ends once, and neither its socket *)
(* nor the duplicate that accepts outlives what they should - for any      *)
(* number of connections, with and without another queue that accepts.     *)
(***************************************************************************)
EXTENDS Listener, FiniteSetTheorems, SequenceTheorems, TLAPS

Faults == {"stale", "freed", "dup"}

Shape ==
    [mem : {"none", "live", "freed"}, refs : -1 .. 1, fd : BOOLEAN, l_io : BOOLEAN,
     hooks : SUBSET {"start", "exit"},
     io : {"none", "open", "closing", "destroying", "gone"},
     io_refs : Nat, io_fd : BOOLEAN, suspended : BOOLEAN, armed : BOOLEAN,
     tasks : Seq(Task), async : Nat, frame : {"none", "stop", "close", "exit"},
     closes : Nat, faults : SUBSET Faults]

PlacesOf(q, S) == {i \in 1 .. Len(q) : q[i] \in S}
Count(q, S) == Cardinality(PlacesOf(q, S))
One(b) == IF b THEN 1 ELSE 0

(* The tasks that own a reference to the IO object, and the one that makes *)
(* it.  `h` is the task in the reactor's hand.                             *)
Owning == {"close", "data", "accept"}
Attaching == {"attach"}
Holding(o, h, S) == Count(o.tasks, S) + One(h \in S)

AliveIn(o) == o.io \in {"open", "closing"}

(* An IO object that lives has a reference for being open and one for each *)
(* task, here or in the other queue; the listener lives as long.           *)
Counted(o, h) ==
    /\ o.io \in {"none", "open", "closing", "gone"}
    /\ AliveIn(o) =>
           /\ o.io_refs = One(o.io = "open") + Holding(o, h, Owning) + o.async
           /\ o.io_refs > 0 /\ o.mem = "live" /\ o.frame = "none"
    /\ ~AliveIn(o) => Holding(o, h, Owning) = 0 /\ o.async = 0
    /\ o.l_io = AliveIn(o) /\ o.io_fd = AliveIn(o) /\ o.closes = One(o.io = "gone")
    /\ o.io = "none" => ~o.armed

(* The life of the listener, for each place of its memory.                 *)
Lived(o) ==
    /\ o.mem = "none" => o.hooks = {} /\ ~o.fd /\ o.refs = 0 /\ o.frame = "none" /\ o.io = "none"
    /\ o.mem = "live" /\ o.frame = "none" =>
           "exit" \in o.hooks /\ o.fd /\ o.refs = One(AliveIn(o))
    /\ o.mem = "live" /\ o.frame # "none" => o.hooks = {} /\ ~o.fd
    /\ o.mem = "freed" => o.hooks = {} /\ ~o.fd /\ o.frame = "none"

(* It is attached once, and only while it has never been.                  *)
Attached(o, h) ==
    /\ Holding(o, h, Attaching) <= 1
    /\ Holding(o, h, Attaching) > 0 => o.mem = "live" /\ o.frame = "none" /\ o.io = "none"

Sound(o, h) ==
    /\ o \in Shape /\ o.frame # "close" /\ o.faults \subseteq {"stale"}
    /\ Counted(o, h) /\ Lived(o) /\ Attached(o, h)

(* What the phases of fio_io_start tell of it.                             *)
Resting == {"init", "idle", "exiting", "exited"}
Phased(o, p, e) ==
    /\ p \in {"init", "work", "shutdown", "forced", "idle", "exiting", "exited"}
    /\ p \in Resting => o.tasks = <<>> /\ ~AliveIn(o)
    /\ p = "init" => o.io = "none"
    /\ p = "forced" => o.io # "open"
    /\ Count(o.tasks, Attaching) > 0 => p = "work"
    /\ o.frame # "none" => p \in {"init", "idle", "exiting"}
    /\ o.frame = "stop" => e
    /\ o.frame = "exit" => p = "exiting"
    /\ o.mem = "freed" /\ p \notin {"exiting", "exited"} => e
    /\ p = "exiting" /\ o.mem = "live" => o.frame = "exit"
    /\ p = "exited" => o.mem # "live"

IInv == Sound(s, "none") /\ Phased(s, phase, stopped)

-----------------------------------------------------------------------------
(* Counting tasks in a queue.                                              *)

LEMMA CountType ==
    ASSUME NEW q \in Seq(Task), NEW S
    PROVE  /\ IsFiniteSet(PlacesOf(q, S)) /\ Count(q, S) \in Nat
           /\ Count(q, S) = 0 <=> PlacesOf(q, S) = {}
<1>1. Len(q) \in Nat
  BY LenProperties
<1>2. IsFiniteSet(1 .. Len(q))
  BY <1>1, FS_Interval
<1>3. IsFiniteSet(PlacesOf(q, S))
  BY <1>2, FS_Subset DEF PlacesOf
<1> QED
  BY <1>3, FS_CardinalityType, FS_EmptySet DEF Count

(* Two queues with the same tasks, but for one that the second has more.   *)
LEMMA CountMoved ==
    ASSUME NEW q \in Seq(Task), NEW S, NEW T, NEW d \in {0, 1},
           T = {i + d : i \in PlacesOf(q, S)}
    PROVE  IsFiniteSet(T) /\ Cardinality(T) = Count(q, S)
<1>1. IsFiniteSet(PlacesOf(q, S))
  BY CountType
<1> DEFINE f == [i \in PlacesOf(q, S) |-> i + d]
<1>2. \A i \in PlacesOf(q, S) : i \in Int
  BY LenProperties DEF PlacesOf
<1>3. f \in Bijection(PlacesOf(q, S), T)
  <2>1. f \in Injection(PlacesOf(q, S), T)
    BY <1>2 DEF Injection, IsInjective
  <2>2. f \in Surjection(PlacesOf(q, S), T)
    BY DEF Surjection
  <2> QED
    BY <2>1, <2>2 DEF Bijection
<1> QED
  BY <1>1, <1>3, FS_Bijection DEF Count, ExistsBijection

LEMMA CountAppend ==
    ASSUME NEW q \in Seq(Task), NEW t \in Task
    PROVE  /\ Append(q, t) \in Seq(Task)
           /\ \A S : Count(Append(q, t), S) = Count(q, S) + One(t \in S)
<1>1. /\ Append(q, t) \in Seq(Task) /\ Len(q) \in Nat
      /\ Len(Append(q, t)) = Len(q) + 1
      /\ Append(q, t)[Len(q) + 1] = t
      /\ \A i \in 1 .. Len(q) : Append(q, t)[i] = q[i]
  BY AppendProperties, LenProperties
<1>2. ASSUME NEW S
      PROVE  Count(Append(q, t), S) = Count(q, S) + One(t \in S)
  <2>1. /\ IsFiniteSet(PlacesOf(q, S)) /\ Count(q, S) \in Nat
        /\ Len(q) + 1 \notin PlacesOf(q, S)
    BY <1>1, CountType DEF PlacesOf
  <2>2. CASE t \in S
    <3>1. PlacesOf(Append(q, t), S) = PlacesOf(q, S) \cup {Len(q) + 1}
      BY <1>1, <2>2 DEF PlacesOf
    <3> QED
      BY <2>1, <2>2, <3>1, FS_AddElement DEF Count, One
  <2>3. CASE t \notin S
    <3>1. PlacesOf(Append(q, t), S) = PlacesOf(q, S)
      BY <1>1, <2>3 DEF PlacesOf
    <3> QED
      BY <2>1, <2>3, <3>1 DEF Count, One
  <2> QED
    BY <2>2, <2>3
<1> QED
  BY <1>1, <1>2

LEMMA CountTail ==
    ASSUME NEW q \in Seq(Task), q # <<>>
    PROVE  /\ Tail(q) \in Seq(Task) /\ Head(q) \in Task
           /\ \A S : Count(q, S) = Count(Tail(q), S) + One(Head(q) \in S)
<1>1. /\ Tail(q) \in Seq(Task) /\ Head(q) \in Task /\ Head(q) = q[1]
      /\ Len(q) \in Nat \ {0} /\ Len(Tail(q)) = Len(q) - 1
      /\ \A i \in 1 .. Len(Tail(q)) : Tail(q)[i] = q[i + 1]
  BY HeadTailProperties, EmptySeq, LenProperties
<1>2. ASSUME NEW S
      PROVE  Count(q, S) = Count(Tail(q), S) + One(Head(q) \in S)
  <2> DEFINE T == {i + 1 : i \in PlacesOf(Tail(q), S)}
  <2>1. IsFiniteSet(T) /\ Cardinality(T) = Count(Tail(q), S)
    BY <1>1, CountMoved
  <2>2. 1 \notin T
    BY <1>1 DEF PlacesOf
  <2>3. \A j : j \in T <=> j \in PlacesOf(q, S) /\ j # 1
    <3>1. \A i \in 1 .. Len(q) - 1 : i + 1 \in 2 .. Len(q)
      BY <1>1
    <3>2. ASSUME NEW j \in 2 .. Len(q)
          PROVE  j - 1 \in 1 .. Len(q) - 1 /\ (j - 1) + 1 = j
      BY <1>1
    <3>3. ASSUME NEW j \in T
          PROVE  j \in PlacesOf(q, S) /\ j # 1
      BY <1>1, <3>1 DEF PlacesOf
    <3>4. ASSUME NEW j \in PlacesOf(q, S), j # 1
          PROVE  j \in T
      <4>1. j \in 2 .. Len(q) /\ q[j] \in S
        BY <1>1, <3>4 DEF PlacesOf
      <4>2. PICK i : i = j - 1
        OBVIOUS
      <4>3. i \in 1 .. Len(Tail(q)) /\ i + 1 = j /\ Tail(q)[i] = q[j]
        BY <1>1, <3>2, <4>1, <4>2
      <4> QED
        BY <4>1, <4>3 DEF PlacesOf
    <3> QED
      BY <3>3, <3>4
  <2> HIDE DEF T
  <2>4. CASE Head(q) \in S
    <3>1. PlacesOf(q, S) = T \cup {1}
      BY <1>1, <2>3, <2>4 DEF PlacesOf
    <3> QED
      BY <2>1, <2>2, <2>4, <3>1, FS_AddElement DEF Count, One
  <2>5. CASE Head(q) \notin S
    <3>1. PlacesOf(q, S) = T
      BY <1>1, <2>3, <2>5 DEF PlacesOf
    <3> QED
      BY <2>1, <2>5, <3>1, CountType, <1>1 DEF Count, One
  <2> QED
    BY <2>4, <2>5
<1> QED
  BY <1>1, <1>2

LEMMA HoldingType ==
    ASSUME NEW o \in Shape, NEW h, NEW S
    PROVE  /\ Count(o.tasks, S) \in Nat /\ One(h \in S) \in 0 .. 1
           /\ Holding(o, h, S) = Count(o.tasks, S) + One(h \in S)
           /\ Holding(o, h, S) \in Nat
<1>1. o.tasks \in Seq(Task)
  BY DEF Shape
<1>2. Count(o.tasks, S) \in Nat
  BY <1>1, CountType
<1>3. One(h \in S) \in 0 .. 1
  BY DEF One
<1> QED
  BY <1>2, <1>3 DEF Holding

LEMMA HoldingBoth ==
    ASSUME NEW o \in Shape, NEW h
    PROVE  /\ Holding(o, h, Owning) = Count(o.tasks, Owning) + One(h \in Owning)
           /\ Holding(o, h, Attaching) = Count(o.tasks, Attaching) + One(h \in Attaching)
           /\ Holding(o, h, Owning) \in Nat /\ Holding(o, h, Attaching) \in Nat
           /\ Count(o.tasks, Owning) \in Nat /\ Count(o.tasks, Attaching) \in Nat
           /\ One(h \in Owning) \in 0 .. 1 /\ One(h \in Attaching) \in 0 .. 1
BY HoldingType

LEMMA Hands ==
    /\ \A t \in Task : t \notin Owning => One(t \in Owning) = 0
    /\ \A t \in Task : t \in Owning => One(t \in Owning) = 1 /\ One(t \in Attaching) = 0
    /\ \A t \in Task : t \notin Attaching => One(t \in Attaching) = 0
    /\ One("attach" \in Attaching) = 1 /\ One("attach" \in Owning) = 0
    /\ One("none" \in Owning) = 0 /\ One("none" \in Attaching) = 0
BY DEF One, Task, Owning, Attaching

(* All but the tasks.                                                      *)
SameObject(o, d) ==
    /\ d.mem = o.mem /\ d.refs = o.refs /\ d.fd = o.fd /\ d.l_io = o.l_io
    /\ d.hooks = o.hooks /\ d.io = o.io /\ d.io_fd = o.io_fd
    /\ d.frame = o.frame /\ d.closes = o.closes /\ d.faults = o.faults

(* What a task may change of what the phases tell.                         *)
Kept(o, d) ==
    /\ d.frame = o.frame /\ d.mem = o.mem /\ (d.io = "open" => o.io = "open")
    /\ Count(d.tasks, Attaching) <= Count(o.tasks, Attaching)

LEMMA PushShape ==
    ASSUME NEW o \in Shape, NEW t \in Task, NEW d, d = Push(o, t)
    PROVE  /\ d \in Shape /\ SameObject(o, d) /\ d.io_refs = o.io_refs /\ d.async = o.async
           /\ d.armed = o.armed /\ d.suspended = o.suspended
           /\ \A S : Count(d.tasks, S) = Count(o.tasks, S) + One(t \in S)
<1>1. PICK q : q = Append(o.tasks, t)
  OBVIOUS
<1>2. q \in Seq(Task) /\ \A S : Count(q, S) = Count(o.tasks, S) + One(t \in S)
  BY <1>1, CountAppend DEF Shape
<1>3. d = [o EXCEPT !.tasks = q]
  BY <1>1 DEF Push
<1> QED
  BY <1>2, <1>3 DEF Shape, SameObject

(* A task that owns nothing.                                               *)
LEMMA PushSound ==
    ASSUME NEW o, NEW h, Sound(o, h), NEW t \in Task, t \notin Owning, t \notin Attaching,
           NEW d, d = Push(o, t)
    PROVE  Sound(d, h) /\ Kept(o, d) /\ d.io = o.io /\ d.async = o.async
<1>1. /\ o \in Shape /\ d \in Shape /\ SameObject(o, d) /\ d.io_refs = o.io_refs
      /\ d.async = o.async /\ d.armed = o.armed
      /\ \A S : Count(d.tasks, S) = Count(o.tasks, S) + One(t \in S)
  BY PushShape DEF Sound
<1>2. /\ One(t \in Owning) = 0 /\ One(t \in Attaching) = 0
  BY Hands
<1>3. /\ Count(d.tasks, Owning) = Count(o.tasks, Owning)
      /\ Count(d.tasks, Attaching) = Count(o.tasks, Attaching)
  BY <1>1, <1>2, HoldingType
<1>4. Holding(d, h, Owning) = Holding(o, h, Owning) /\ Holding(d, h, Attaching) = Holding(o, h, Attaching)
  BY <1>3 DEF Holding
<1>5. Counted(d, h)
  BY <1>1, <1>4 DEF Sound, Counted, SameObject, AliveIn
<1>6. Lived(d)
  BY <1>1 DEF Sound, Lived, SameObject, AliveIn
<1>7. Attached(d, h)
  BY <1>1, <1>4 DEF Sound, Attached, SameObject
<1>8. Count(d.tasks, Attaching) <= Count(o.tasks, Attaching)
  BY <1>1, <1>3, HoldingType
<1> QED
  BY <1>1, <1>5, <1>6, <1>7, <1>8 DEF Sound, SameObject, Kept

(* A task that takes over the reference in the reactor's hand.             *)
LEMMA PassSound ==
    ASSUME NEW o, NEW h, Sound(o, h), h \in Owning, NEW t \in Owning,
           NEW d, d = Push(o, t)
    PROVE  Sound(d, "none") /\ Kept(o, d)
<1>1. /\ o \in Shape /\ d \in Shape /\ SameObject(o, d) /\ d.io_refs = o.io_refs
      /\ d.async = o.async /\ d.armed = o.armed
      /\ \A S : Count(d.tasks, S) = Count(o.tasks, S) + One(t \in S)
  BY PushShape DEF Sound, Owning, Task
<1>2. t \in Task /\ h \in Task
  BY DEF Owning, Task
<1>3. /\ Count(d.tasks, Owning) = Count(o.tasks, Owning) + 1
      /\ Count(d.tasks, Attaching) = Count(o.tasks, Attaching) + 0
  BY <1>1, <1>2, Hands
<1>4. /\ Holding(d, "none", Owning) = Holding(o, h, Owning)
      /\ Holding(d, "none", Attaching) = Holding(o, h, Attaching)
  BY <1>1, <1>2, <1>3, Hands, HoldingType
<1>5. Counted(d, "none")
  BY <1>1, <1>4 DEF Sound, Counted, SameObject, AliveIn
<1>6. Lived(d)
  BY <1>1 DEF Sound, Lived, SameObject, AliveIn
<1>7. Attached(d, "none")
  BY <1>1, <1>4 DEF Sound, Attached, SameObject
<1>8. Count(d.tasks, Attaching) <= Count(o.tasks, Attaching)
  BY <1>1, <1>3, HoldingType
<1> QED
  BY <1>1, <1>5, <1>6, <1>7, <1>8 DEF Sound, SameObject, Kept

(* The task at the head of the queue is taken in hand.                     *)
LEMMA PopSound ==
    ASSUME NEW o, Sound(o, "none"), o.tasks # <<>>, NEW d, d = [o EXCEPT !.tasks = Tail(@)]
    PROVE  /\ Sound(d, Head(o.tasks)) /\ Head(o.tasks) \in Task /\ d \in Shape
           /\ SameObject(o, d) /\ d.async = o.async /\ d.armed = o.armed
           /\ Count(o.tasks, Attaching)
                = Count(d.tasks, Attaching) + One(Head(o.tasks) \in Attaching)
<1>1. PICK q : q = Tail(o.tasks)
  OBVIOUS
<1>2. PICK t : t = Head(o.tasks)
  OBVIOUS
<1>3. /\ o \in Shape /\ q \in Seq(Task) /\ t \in Task
      /\ \A S : Count(o.tasks, S) = Count(q, S) + One(t \in S)
  BY <1>1, <1>2, CountTail DEF Sound, Shape
<1>4. d = [o EXCEPT !.tasks = q]
  BY <1>1
<1>5. /\ d \in Shape /\ SameObject(o, d) /\ d.io_refs = o.io_refs /\ d.async = o.async
      /\ d.armed = o.armed /\ d.tasks = q
  BY <1>3, <1>4 DEF Shape, SameObject
<1>6. /\ Count(o.tasks, Owning) = Count(d.tasks, Owning) + One(t \in Owning)
      /\ Count(o.tasks, Attaching) = Count(d.tasks, Attaching) + One(t \in Attaching)
  BY <1>3, <1>5
<1>7. /\ Holding(d, t, Owning) = Holding(o, "none", Owning)
      /\ Holding(d, t, Attaching) = Holding(o, "none", Attaching)
  <2>1. /\ Holding(d, t, Owning) = Count(d.tasks, Owning) + One(t \in Owning)
        /\ Holding(d, t, Attaching) = Count(d.tasks, Attaching) + One(t \in Attaching)
    BY <1>5, HoldingBoth
  <2>2. /\ Holding(o, "none", Owning) = Count(o.tasks, Owning) + 0
        /\ Holding(o, "none", Attaching) = Count(o.tasks, Attaching) + 0
        /\ Count(o.tasks, Owning) \in Nat /\ Count(o.tasks, Attaching) \in Nat
    BY <1>3, HoldingBoth, Hands
  <2> QED
    BY <1>6, <2>1, <2>2
<1>8. Counted(d, t)
  BY <1>5, <1>7 DEF Sound, Counted, SameObject, AliveIn
<1>9. Lived(d)
  BY <1>5 DEF Sound, Lived, SameObject, AliveIn
<1>10. Attached(d, t)
  BY <1>5, <1>7 DEF Sound, Attached, SameObject
<1>11. Sound(d, t)
  BY <1>5, <1>8, <1>9, <1>10 DEF Sound, SameObject
<1> QED
  BY <1>2, <1>3, <1>5, <1>11

-----------------------------------------------------------------------------
(* The functions of the source.                                            *)

LEMMA ResumedSound ==
    ASSUME NEW o, NEW h, Sound(o, h), NEW b \in BOOLEAN,
           NEW d, d = [o EXCEPT !.suspended = b]
    PROVE  Sound(d, h) /\ Kept(o, d) /\ d.tasks = o.tasks /\ d.io = o.io /\ d.async = o.async
           /\ SameObject(o, d)
<1>1. /\ o \in Shape /\ d \in Shape /\ SameObject(o, d) /\ d.io_refs = o.io_refs
      /\ d.async = o.async /\ d.armed = o.armed /\ d.tasks = o.tasks
  BY DEF Sound, Shape, SameObject
<1>2. \A S : Holding(d, h, S) = Holding(o, h, S)
  BY <1>1 DEF Holding
<1>3. Counted(d, h)
  BY <1>1, <1>2 DEF Sound, Counted, SameObject, AliveIn
<1>4. Lived(d)
  BY <1>1 DEF Sound, Lived, SameObject, AliveIn
<1>5. Attached(d, h)
  BY <1>1, <1>2 DEF Sound, Attached, SameObject
<1>6. Kept(o, d)
  BY <1>1, HoldingType DEF Kept, SameObject
<1> QED
  BY <1>1, <1>3, <1>4, <1>5, <1>6 DEF Sound, SameObject

LEMMA ArmedSound ==
    ASSUME NEW o, NEW h, Sound(o, h), NEW b \in BOOLEAN, b => o.io # "none",
           NEW d, d = [o EXCEPT !.armed = b]
    PROVE  Sound(d, h) /\ Kept(o, d) /\ d.tasks = o.tasks /\ d.io = o.io /\ d.async = o.async
           /\ SameObject(o, d)
<1>1. /\ o \in Shape /\ d \in Shape /\ SameObject(o, d) /\ d.io_refs = o.io_refs
      /\ d.async = o.async /\ d.armed = b /\ d.tasks = o.tasks
  BY DEF Sound, Shape, SameObject
<1>2. \A S : Holding(d, h, S) = Holding(o, h, S)
  BY <1>1 DEF Holding
<1>3. Counted(d, h)
  BY <1>1, <1>2 DEF Sound, Counted, SameObject, AliveIn
<1>4. Lived(d)
  BY <1>1 DEF Sound, Lived, SameObject, AliveIn
<1>5. Attached(d, h)
  BY <1>1, <1>2 DEF Sound, Attached, SameObject
<1>6. Kept(o, d)
  BY <1>1, HoldingType DEF Kept, SameObject
<1> QED
  BY <1>1, <1>3, <1>4, <1>5, <1>6 DEF Sound, SameObject

LEMMA MonitorInSound ==
    ASSUME NEW o, NEW h, Sound(o, h)
    PROVE  Sound(MonitorIn(o), h) /\ Kept(o, MonitorIn(o))
<1>1. CASE o.io = "open" /\ ~o.suspended
  <2>1. MonitorIn(o) = [o EXCEPT !.armed = TRUE]
    BY <1>1 DEF MonitorIn
  <2> QED
    BY <1>1, <2>1, ArmedSound
<1>2. CASE ~(o.io = "open" /\ ~o.suspended)
  <2>1. MonitorIn(o) = o /\ Count(o.tasks, Attaching) \in Nat
    BY <1>2, HoldingType DEF MonitorIn, Sound
  <2> QED
    BY <2>1 DEF Kept
<1> QED
  BY <1>1, <1>2

(* The reference of being open passes to the task that closes.             *)
LEMMA CloseIOSound ==
    ASSUME NEW o, NEW h, Sound(o, h), h \notin Attaching
    PROVE  /\ Sound(CloseIO(o), h) /\ Kept(o, CloseIO(o)) /\ CloseIO(o).io # "open"
<1>1. CASE o.io = "open"
  <2>1. PICK m : m = [o EXCEPT !.io = "closing"]
    OBVIOUS
  <2>2. PICK d : d = Push(m, "close")
    OBVIOUS
  <2>3. CloseIO(o) = d
    BY <1>1, <2>1, <2>2 DEF CloseIO
  <2>4. /\ o \in Shape /\ m \in Shape /\ m.io = "closing" /\ m.tasks = o.tasks
        /\ m.mem = o.mem /\ m.refs = o.refs /\ m.fd = o.fd /\ m.l_io = o.l_io
        /\ m.hooks = o.hooks /\ m.io_fd = o.io_fd /\ m.frame = o.frame
        /\ m.closes = o.closes /\ m.faults = o.faults
        /\ m.io_refs = o.io_refs /\ m.async = o.async
    BY <2>1 DEF Sound, Shape
  <2>5. "close" \in Task /\ One("close" \in Owning) = 1 /\ One("close" \in Attaching) = 0
    BY DEF Task, Owning, Attaching, One
  <2>6. /\ d \in Shape /\ SameObject(m, d) /\ d.io_refs = m.io_refs /\ d.async = m.async
        /\ \A S : Count(d.tasks, S) = Count(m.tasks, S) + One("close" \in S)
    BY <2>2, <2>4, <2>5, PushShape
  <2>7. /\ d.io = "closing" /\ d.mem = o.mem /\ d.refs = o.refs /\ d.fd = o.fd
        /\ d.l_io = o.l_io /\ d.hooks = o.hooks /\ d.io_fd = o.io_fd /\ d.frame = o.frame
        /\ d.closes = o.closes /\ d.faults = o.faults
        /\ d.io_refs = o.io_refs /\ d.async = o.async
    BY <2>4, <2>6 DEF SameObject
  <2>8. /\ Count(d.tasks, Owning) = Count(o.tasks, Owning) + 1
        /\ Count(d.tasks, Attaching) = Count(o.tasks, Attaching)
    BY <2>4, <2>5, <2>6, HoldingType
  <2>9. /\ Holding(d, h, Owning) = Holding(o, h, Owning) + 1 /\ Holding(o, h, Owning) \in Nat
        /\ Holding(d, h, Attaching) = Holding(o, h, Attaching) /\ o.async \in Nat
    <3>1. /\ Holding(d, h, Owning) = Count(d.tasks, Owning) + One(h \in Owning)
          /\ Holding(d, h, Attaching) = Count(d.tasks, Attaching) + One(h \in Attaching)
      BY <2>6, HoldingBoth
    <3>2. /\ Holding(o, h, Owning) = Count(o.tasks, Owning) + One(h \in Owning)
          /\ Holding(o, h, Attaching) = Count(o.tasks, Attaching) + One(h \in Attaching)
          /\ Count(o.tasks, Owning) \in Nat /\ Count(o.tasks, Attaching) \in Nat
          /\ One(h \in Owning) \in 0 .. 1 /\ Holding(o, h, Owning) \in Nat
      BY <2>4, HoldingBoth
    <3>3. o.async \in Nat
      BY <2>4 DEF Shape
    <3> QED
      BY <2>8, <3>1, <3>2, <3>3
  <2>10. Counted(d, h)
    <3>1. /\ o.io_refs = 1 + Holding(o, h, Owning) + o.async
          /\ o.io_refs > 0 /\ o.mem = "live" /\ o.frame = "none"
          /\ o.l_io = TRUE /\ o.io_fd = TRUE /\ o.closes = 0
      BY <1>1 DEF Sound, Counted, AliveIn, One
    <3>2. d.io_refs = 0 + Holding(d, h, Owning) + d.async
      BY <2>7, <2>9, <3>1
    <3> QED
      BY <2>7, <3>1, <3>2 DEF Counted, AliveIn, One
  <2>11. Lived(d)
    BY <1>1, <2>7 DEF Sound, Lived, AliveIn
  <2>12. Attached(d, h)
    BY <1>1, <2>7, <2>9 DEF Sound, Attached
  <2>13. Count(o.tasks, Attaching) \in Nat
    BY <2>4, HoldingType
  <2> QED
    BY <2>3, <2>6, <2>7, <2>8, <2>10, <2>11, <2>12, <2>13 DEF Sound, Kept
<1>2. CASE o.io # "open"
  <2>1. CloseIO(o) = o /\ Count(o.tasks, Attaching) \in Nat
    BY <1>2, HoldingType DEF CloseIO, Sound
  <2> QED
    BY <1>2, <2>1 DEF Kept
<1> QED
  BY <1>1, <1>2

(* The reference in the reactor's hand is given back, the last one with    *)
(* the IO object and its hold on the listener.                             *)
LEMMA Free2Sound ==
    ASSUME NEW o, NEW h, Sound(o, h), h \in Owning
    PROVE  Sound(Free2(o), "none") /\ Kept(o, Free2(o))
<1>1. /\ o \in Shape /\ h \in Task /\ o.async \in Nat /\ o.io_refs \in Nat /\ o.closes \in Nat
      /\ One(h \in Owning) = 1 /\ One(h \in Attaching) = 0
  BY Hands DEF Sound, Owning, Task, Shape
<1>2. /\ Holding(o, h, Owning) = Count(o.tasks, Owning) + 1
      /\ Holding(o, h, Attaching) = Count(o.tasks, Attaching)
      /\ Count(o.tasks, Owning) \in Nat /\ Count(o.tasks, Attaching) \in Nat
  BY <1>1, HoldingBoth
<1>3. AliveIn(o)
  BY <1>1, <1>2 DEF Sound, Counted
<1>4. /\ o.io_refs = One(o.io = "open") + Count(o.tasks, Owning) + 1 + o.async
      /\ o.mem = "live" /\ o.frame = "none" /\ o.refs = 1 /\ o.fd /\ "exit" \in o.hooks
      /\ o.l_io /\ o.io_fd /\ o.closes = 0 /\ One(o.io = "open") \in 0 .. 1
      /\ Count(o.tasks, Attaching) = 0
  <2>1. /\ o.io_refs = One(o.io = "open") + Holding(o, h, Owning) + o.async
        /\ o.mem = "live" /\ o.frame = "none" /\ o.l_io = TRUE /\ o.io_fd = TRUE
        /\ o.closes = One(o.io = "gone")
    BY <1>3 DEF Sound, Counted
  <2>2. o.fd = TRUE /\ "exit" \in o.hooks /\ o.refs = One(AliveIn(o))
    BY <1>1, <2>1 DEF Sound, Lived, Shape
  <2>3. One(o.io = "open") \in 0 .. 1 /\ One(AliveIn(o)) = 1 /\ One(o.io = "gone") = 0
    BY <1>3 DEF One, AliveIn
  <2>4. o.io_refs = One(o.io = "open") + Count(o.tasks, Owning) + 1 + o.async
    BY <1>1, <1>2, <2>1, <2>3
  <2>5. Count(o.tasks, Attaching) = 0
    BY <1>2, <1>3 DEF Sound, Attached, AliveIn
  <2> QED
    BY <2>1, <2>2, <2>3, <2>4, <2>5
<1>5. CASE o.io_refs > 1
  <2>1. PICK n \in Nat : n = o.io_refs - 1
    BY <1>1, <1>5
  <2>2. PICK d : d = [o EXCEPT !.io_refs = n]
    OBVIOUS
  <2>3. Free2(o) = d
    BY <1>5, <2>1, <2>2 DEF Free2
  <2>4. /\ d \in Shape /\ SameObject(o, d) /\ d.io_refs = n /\ d.async = o.async
        /\ d.armed = o.armed /\ d.tasks = o.tasks
    BY <1>1, <2>2 DEF Shape, SameObject
  <2>5. /\ Holding(d, "none", Owning) = Count(o.tasks, Owning)
        /\ Holding(d, "none", Attaching) = 0
    BY <1>2, <1>4, <2>4, HoldingBoth, Hands
  <2>6. d.io_refs = One(d.io = "open") + Holding(d, "none", Owning) + d.async
    BY <1>1, <1>2, <1>4, <2>1, <2>4, <2>5 DEF SameObject
  <2>7. d.io_refs > 0 /\ AliveIn(d)
    BY <1>1, <1>3, <1>5, <2>1, <2>4 DEF SameObject, AliveIn
  <2>8. Counted(d, "none")
    BY <1>4, <2>4, <2>6, <2>7 DEF Sound, Counted, SameObject, AliveIn
  <2>9. Lived(d)
    BY <2>4 DEF Sound, Lived, SameObject, AliveIn
  <2>10. Attached(d, "none")
    BY <2>5 DEF Attached
  <2> QED
    BY <1>4, <2>3, <2>4, <2>8, <2>9, <2>10 DEF Sound, SameObject, Kept
<1>6. CASE ~(o.io_refs > 1)
  <2>1. o.io = "closing" /\ Count(o.tasks, Owning) = 0 /\ o.async = 0
    BY <1>1, <1>2, <1>3, <1>4, <1>6 DEF One, AliveIn
  <2>2. PICK a : a = [o EXCEPT !.io = "destroying", !.io_refs = 0,
                               !.closes = @ + 1, !.l_io = FALSE]
    OBVIOUS
  <2>3. /\ a.l_io = FALSE /\ a.mem = "live" /\ a.refs = 1 /\ a.frame = o.frame
    BY <1>1, <1>4, <2>2 DEF Shape
  <2>4. PICK b : b = [a EXCEPT !.l_io = FALSE, !.refs = 0]
    OBVIOUS
  <2>5. ListenFree(a, "close") = b
    <3>1. a.refs - 1 = 0 /\ a.refs # 0 /\ a.mem # "freed"
      BY <2>3
    <3>2. [a EXCEPT !.l_io = FALSE, !.refs = a.refs - 1] = b
      BY <2>4, <3>1
    <3> QED
      BY <2>3, <3>1, <3>2, Zenon DEF ListenFree
  <2>6. b.frame = o.frame
    BY <1>1, <2>2, <2>3, <2>4 DEF Shape
  <2>7. PICK d : d = Destroyed(b)
    OBVIOUS
  <2>8. Free2(o) = d
    BY <1>6, <2>2, <2>5, <2>6, <2>7 DEF Free2, Destroy
  <2>9. /\ d \in Shape /\ d.mem = o.mem /\ d.refs = 0 /\ d.fd = o.fd /\ d.l_io = FALSE
        /\ d.hooks = o.hooks /\ d.io = "gone" /\ d.io_fd = FALSE /\ d.frame = o.frame
        /\ d.closes = 1 /\ d.faults = o.faults /\ d.async = o.async /\ d.tasks = o.tasks
    <3>1. a = [o EXCEPT !.io = "destroying", !.io_refs = 0, !.closes = 1, !.l_io = FALSE]
      BY <1>4, <2>2
    <3>2. /\ a \in Shape /\ a.mem = o.mem /\ a.fd = o.fd /\ a.hooks = o.hooks
          /\ a.frame = o.frame /\ a.closes = 1 /\ a.faults = o.faults
          /\ a.async = o.async /\ a.tasks = o.tasks
      BY <1>1, <3>1 DEF Shape
    <3>3. /\ b \in Shape /\ b.mem = a.mem /\ b.refs = 0 /\ b.fd = a.fd /\ b.l_io = FALSE
          /\ b.hooks = a.hooks /\ b.frame = a.frame /\ b.closes = 1 /\ b.faults = a.faults
          /\ b.async = a.async /\ b.tasks = a.tasks
      <4>1. 0 \in -1 .. 1
        OBVIOUS
      <4> QED
        BY <2>4, <3>2, <4>1 DEF Shape
    <3>4. d = [b EXCEPT !.io = "gone", !.io_fd = FALSE]
      BY <2>7 DEF Destroyed
    <3> QED
      BY <3>2, <3>3, <3>4 DEF Shape
  <2>10. /\ Holding(d, "none", Owning) = 0 /\ Holding(d, "none", Attaching) = 0
    BY <1>4, <2>1, <2>9, HoldingBoth, Hands
  <2>11. Counted(d, "none")
    <3>1. AliveIn(d) = FALSE /\ One(d.io = "gone") = 1 /\ d.async = 0
      BY <2>1, <2>9 DEF AliveIn, One
    <3> QED
      BY <2>9, <2>10, <3>1 DEF Counted
  <2>12. Lived(d)
    BY <1>4, <2>9 DEF Lived, AliveIn, One
  <2>13. Attached(d, "none")
    BY <2>10 DEF Attached
  <2> QED
    BY <1>4, <2>8, <2>9, <2>11, <2>12, <2>13 DEF Sound, Kept
<1> QED
  BY <1>5, <1>6

(* What is left of the listener when the last reference goes, until the    *)

(* queue has been performed.                                               *)
LEMMA ListenFreeSound ==
    ASSUME NEW o, Sound(o, "none"), ~AliveIn(o), o.mem = "live", o.frame = "none",
           Count(o.tasks, Attaching) = 0, NEW caller \in {"stop", "exit"},
           NEW d, d = ListenFree(o, caller)
    PROVE  /\ Sound(d, "none") /\ d.frame = caller /\ d.tasks = o.tasks /\ d.io = o.io
           /\ d.mem = "live"
<1>1. o \in Shape /\ o.refs = 0 /\ o.l_io = FALSE
  BY DEF Sound, Counted, Lived, One
<1> DEFINE n == o.refs - 1
<1>2. d = [[o EXCEPT !.l_io = FALSE, !.refs = n] EXCEPT !.hooks = {}, !.fd = FALSE,
                                                        !.frame = caller]
  BY <1>1, Zenon DEF ListenFree
<1>3. /\ d \in Shape /\ d.mem = "live" /\ d.refs = -1 /\ d.fd = FALSE /\ d.l_io = FALSE
      /\ d.hooks = {} /\ d.io = o.io /\ d.io_refs = o.io_refs /\ d.io_fd = o.io_fd
      /\ d.frame = caller /\ d.closes = o.closes /\ d.faults = o.faults
      /\ d.async = o.async /\ d.tasks = o.tasks /\ d.armed = o.armed
  <2>1. n = -1 /\ n \in -1 .. 1
    BY <1>1
  <2> HIDE DEF n
  <2>2. PICK c : c = [o EXCEPT !.l_io = FALSE, !.refs = n]
    OBVIOUS
  <2>3. /\ c \in Shape /\ c.mem = "live" /\ c.refs = n /\ c.l_io = FALSE
        /\ c.io = o.io /\ c.io_refs = o.io_refs /\ c.io_fd = o.io_fd
        /\ c.closes = o.closes /\ c.faults = o.faults
        /\ c.async = o.async /\ c.tasks = o.tasks /\ c.armed = o.armed
    BY <1>1, <2>1, <2>2 DEF Shape
  <2>4. PICK g \in SUBSET {"start", "exit"} : g = {}
    OBVIOUS
  <2>5. PICK a \in {"none", "stop", "close", "exit"} : a = caller
    OBVIOUS
  <2>6. /\ d \in Shape /\ d.mem = "live" /\ d.refs = n /\ d.fd = FALSE /\ d.l_io = FALSE
        /\ d.hooks = g /\ d.io = o.io /\ d.io_refs = o.io_refs /\ d.io_fd = o.io_fd
        /\ d.frame = a /\ d.closes = o.closes /\ d.faults = o.faults
        /\ d.async = o.async /\ d.tasks = o.tasks /\ d.armed = o.armed
    <3>1. PICK e : e = [c EXCEPT !.hooks = g, !.fd = FALSE]
      OBVIOUS
    <3>2. d = [e EXCEPT !.frame = a]
      BY <1>2, <2>2, <2>4, <2>5, <3>1
    <3>3. /\ e \in Shape /\ e.mem = "live" /\ e.refs = n /\ e.fd = FALSE /\ e.l_io = FALSE
          /\ e.hooks = g /\ e.io = o.io /\ e.io_refs = o.io_refs /\ e.io_fd = o.io_fd
          /\ e.closes = o.closes /\ e.faults = o.faults
          /\ e.async = o.async /\ e.tasks = o.tasks /\ e.armed = o.armed
      BY <2>3, <3>1 DEF Shape
    <3> QED
      BY <3>2, <3>3 DEF Shape
  <2> QED
    BY <2>1, <2>4, <2>5, <2>6
<1>4. /\ Holding(d, "none", Owning) = Holding(o, "none", Owning)
      /\ Holding(d, "none", Attaching) = 0
  <2>1. Holding(d, "none", Attaching) = 0 + 0
    BY <1>3, HoldingBoth, Hands
  <2> QED
    BY <1>3, <2>1 DEF Holding
<1>5. Counted(d, "none")
  <2>1. AliveIn(d) = FALSE /\ AliveIn(o) = FALSE
    BY <1>3 DEF AliveIn
  <2> QED
    BY <1>3, <1>4, <2>1 DEF Sound, Counted
<1>6. Lived(d)
  BY <1>3 DEF Lived
<1>7. Attached(d, "none")
  BY <1>4 DEF Attached
<1> QED
  BY <1>3, <1>5, <1>6, <1>7 DEF Sound

(* An event of the socket: its task owns a reference, if the IO is there.  *)
LEMMA PollSound ==
    ASSUME NEW o, NEW h, Sound(o, h), h \notin Attaching
    PROVE  Sound(Poll(o), h) /\ Kept(o, Poll(o)) /\ Poll(o).io = o.io
<1>1. /\ o \in Shape /\ Count(o.tasks, Attaching) \in Nat /\ o.io_refs \in Nat
  BY HoldingType DEF Sound, Shape
<1>2. CASE backlog = 0 \/ ~Monitored(o)
  BY <1>1, <1>2 DEF Poll, Kept
<1>3. CASE backlog # 0 /\ Monitored(o)
  <2>1. PICK e : e = [o EXCEPT !.armed = FALSE]
    OBVIOUS
  <2>2. Sound(e, h) /\ Kept(o, e) /\ e.tasks = o.tasks /\ e.io = o.io /\ SameObject(o, e)
    BY <2>1, ArmedSound
  <2>3. o.io # "none"
    BY <1>3 DEF Monitored, Sound, Counted
  <2>4. CASE o.io = "gone"
    <3>1. PICK d : d = [e EXCEPT !.faults = @ \cup {"stale"}]
      OBVIOUS
    <3>2. Poll(o) = d
      BY <1>3, <2>1, <2>4, <3>1 DEF Poll
    <3>3. /\ d \in Shape /\ d.mem = e.mem /\ d.refs = e.refs /\ d.fd = e.fd /\ d.l_io = e.l_io
          /\ d.hooks = e.hooks /\ d.io = e.io /\ d.io_refs = e.io_refs /\ d.io_fd = e.io_fd
          /\ d.frame = e.frame /\ d.closes = e.closes /\ d.faults = e.faults \cup {"stale"}
          /\ d.async = e.async /\ d.tasks = e.tasks /\ d.armed = e.armed
      BY <2>2, <3>1 DEF Sound, Shape, Faults
    <3>4. Counted(d, h)
      BY <2>2, <3>3 DEF Sound, Counted, AliveIn, Holding
    <3>5. Lived(d)
      BY <2>2, <3>3 DEF Sound, Lived, AliveIn
    <3>6. Attached(d, h)
      BY <2>2, <3>3 DEF Sound, Attached, Holding
    <3> QED
      BY <2>2, <3>2, <3>3, <3>4, <3>5, <3>6 DEF Sound, Kept
  <2>5. CASE o.io # "gone"
    <3>1. AliveIn(o)
      BY <2>3, <2>5 DEF Sound, Counted, AliveIn
    <3>2. PICK n \in Nat : n = e.io_refs + 1
      BY <2>2 DEF Sound, Shape
    <3>3. PICK m : m = [e EXCEPT !.io_refs = n]
      OBVIOUS
    <3>4. PICK d : d = Push(m, "data")
      OBVIOUS
    <3>5. Poll(o) = d
      BY <1>3, <2>1, <2>5, <3>2, <3>3, <3>4 DEF Poll, Dup2
    <3>6. /\ e \in Shape /\ m \in Shape /\ SameObject(e, m) /\ m.io_refs = n
          /\ m.tasks = e.tasks /\ m.async = e.async /\ m.armed = e.armed
      BY <2>2, <3>3 DEF Sound, Shape, SameObject
    <3>7. "data" \in Task /\ One("data" \in Owning) = 1 /\ One("data" \in Attaching) = 0
      BY DEF Task, Owning, Attaching, One
    <3>8. /\ d \in Shape /\ SameObject(m, d) /\ d.io_refs = n /\ d.async = e.async
          /\ d.armed = e.armed
          /\ Count(d.tasks, Owning) = Count(e.tasks, Owning) + 1
          /\ Count(d.tasks, Attaching) = Count(e.tasks, Attaching) + 0
      BY <3>4, <3>6, <3>7, PushShape
    <3>9. SameObject(e, d)
      BY <3>6, <3>8 DEF SameObject
    <3>10. /\ Holding(d, h, Owning) = Holding(e, h, Owning) + 1 /\ Holding(e, h, Owning) \in Nat
           /\ Holding(d, h, Attaching) = Holding(e, h, Attaching)
           /\ Count(d.tasks, Attaching) = Count(e.tasks, Attaching)
           /\ Count(e.tasks, Attaching) \in Nat
      <4>1. /\ Holding(d, h, Owning) = Count(d.tasks, Owning) + One(h \in Owning)
            /\ Holding(d, h, Attaching) = Count(d.tasks, Attaching) + One(h \in Attaching)
        BY <3>8, HoldingBoth
      <4>2. /\ Holding(e, h, Owning) = Count(e.tasks, Owning) + One(h \in Owning)
            /\ Holding(e, h, Attaching) = Count(e.tasks, Attaching) + One(h \in Attaching)
            /\ Count(e.tasks, Owning) \in Nat /\ Count(e.tasks, Attaching) \in Nat
            /\ One(h \in Owning) \in 0 .. 1 /\ Holding(e, h, Owning) \in Nat
        BY <3>6, HoldingBoth
      <4> QED
        BY <3>8, <4>1, <4>2
    <3>11. /\ e.io_refs = One(e.io = "open") + Holding(e, h, Owning) + e.async
           /\ e.io_refs > 0 /\ AliveIn(e) /\ e.async \in Nat /\ One(e.io = "open") \in 0 .. 1
      BY <2>2, <3>1, <3>6 DEF Sound, Counted, AliveIn, Shape, One
    <3>12. d.io_refs = One(d.io = "open") + Holding(d, h, Owning) + d.async /\ d.io_refs > 0
      <4>1. d.io = e.io
        BY <3>9 DEF SameObject
      <4> QED
        BY <3>2, <3>8, <3>10, <3>11, <4>1
    <3>13. Counted(d, h)
      BY <2>2, <3>8, <3>9, <3>11, <3>12 DEF Sound, Counted, SameObject, AliveIn
    <3>14. Lived(d)
      BY <2>2, <3>9 DEF Sound, Lived, SameObject, AliveIn
    <3>15. Attached(d, h)
      BY <2>2, <3>9, <3>10 DEF Sound, Attached, SameObject
    <3> QED
      BY <1>1, <2>2, <3>5, <3>8, <3>9, <3>10, <3>13, <3>14, <3>15 DEF Sound, SameObject, Kept
  <2> QED
    BY <2>4, <2>5
<1> QED
  BY <1>2, <1>3

(* A task that makes nothing and owns nothing is over.                     *)
LEMMA DropSound ==
    ASSUME NEW o, NEW h, Sound(o, h), h \notin Owning, h \notin Attaching
    PROVE  Sound(o, "none")
<1>1. One(h \in Owning) = One("none" \in Owning) /\ One(h \in Attaching) = One("none" \in Attaching)
  BY DEF One, Owning, Attaching
<1>2. /\ Holding(o, "none", Owning) = Holding(o, h, Owning)
      /\ Holding(o, "none", Attaching) = Holding(o, h, Attaching)
  BY <1>1 DEF Holding
<1>3. Counted(o, "none")
  BY <1>2 DEF Sound, Counted
<1>4. Attached(o, "none")
  BY <1>2 DEF Sound, Attached
<1> QED
  BY <1>3, <1>4 DEF Sound

(* The reference in the reactor's hand goes to the other queue.            *)
LEMMA AwaySound ==
    ASSUME NEW o, NEW h, Sound(o, h), h \in Owning, NEW d, d = [o EXCEPT !.async = @ + 1]
    PROVE  Sound(d, "none") /\ Kept(o, d)
<1>1. /\ o \in Shape /\ h \in Task /\ o.async \in Nat
      /\ One(h \in Owning) = 1 /\ One(h \in Attaching) = 0
  BY Hands DEF Sound, Owning, Task, Shape
<1>2. PICK n \in Nat : n = o.async + 1
  BY <1>1
<1>3. d = [o EXCEPT !.async = n]
  BY <1>2
<1>4. /\ d \in Shape /\ SameObject(o, d) /\ d.io_refs = o.io_refs /\ d.async = n
      /\ d.armed = o.armed /\ d.tasks = o.tasks
  BY <1>1, <1>3 DEF Shape, SameObject
<1>5. /\ Holding(o, h, Owning) = Count(o.tasks, Owning) + 1
      /\ Holding(o, h, Attaching) = Count(o.tasks, Attaching)
      /\ Count(o.tasks, Owning) \in Nat /\ Count(o.tasks, Attaching) \in Nat
      /\ Holding(d, "none", Owning) = Count(o.tasks, Owning)
      /\ Holding(d, "none", Attaching) = Count(o.tasks, Attaching)
  <2>1. /\ Holding(o, h, Owning) = Count(o.tasks, Owning) + One(h \in Owning)
        /\ Holding(o, h, Attaching) = Count(o.tasks, Attaching) + One(h \in Attaching)
        /\ Count(o.tasks, Owning) \in Nat /\ Count(o.tasks, Attaching) \in Nat
    BY <1>1, HoldingBoth
  <2>2. /\ Holding(d, "none", Owning) = Count(d.tasks, Owning) + 0
        /\ Holding(d, "none", Attaching) = Count(d.tasks, Attaching) + 0
    BY <1>4, HoldingBoth, Hands
  <2> QED
    BY <1>1, <1>4, <2>1, <2>2
<1>6. AliveIn(o)
  BY <1>1, <1>5 DEF Sound, Counted
<1>7. One(o.io = "open") \in 0 .. 1
  BY DEF One
<1>8. Counted(d, "none")
  <2>1. o.io_refs = One(o.io = "open") + Holding(o, h, Owning) + o.async
    BY <1>6 DEF Sound, Counted
  <2>2. d.io_refs = One(d.io = "open") + Holding(d, "none", Owning) + d.async
    <3>1. d.io = o.io
      BY <1>4 DEF SameObject
    <3> QED
      BY <1>1, <1>2, <1>4, <1>5, <1>7, <2>1, <3>1
  <2> QED
    BY <1>4, <1>6, <2>2 DEF Sound, Counted, SameObject, AliveIn
<1>9. Lived(d)
  BY <1>4 DEF Sound, Lived, SameObject, AliveIn
<1>10. Attached(d, "none")
  BY <1>4, <1>5 DEF Sound, Attached, SameObject
<1> QED
  BY <1>4, <1>5, <1>8, <1>9, <1>10 DEF Sound, SameObject, Kept

(* ... and is back.                                                        *)
LEMMA BackSound ==
    ASSUME NEW o, Sound(o, "none"), o.async > 0,
           NEW m, m = [o EXCEPT !.async = @ - 1], NEW d, d = Push(m, "accept")
    PROVE  Sound(d, "none") /\ Kept(o, d) /\ AliveIn(o)
<1>1. o \in Shape /\ o.async \in Nat
  BY DEF Sound, Shape
<1>2. PICK n \in Nat : n = o.async - 1
  BY <1>1
<1>3. m = [o EXCEPT !.async = n]
  BY <1>2
<1>4. /\ m \in Shape /\ SameObject(o, m) /\ m.io_refs = o.io_refs /\ m.async = n
      /\ m.armed = o.armed /\ m.tasks = o.tasks
  BY <1>1, <1>3 DEF Shape, SameObject
<1>5. /\ d \in Shape /\ SameObject(m, d) /\ d.io_refs = m.io_refs /\ d.async = n
      /\ d.armed = m.armed
      /\ Count(d.tasks, Owning) = Count(o.tasks, Owning) + One("accept" \in Owning)
      /\ Count(d.tasks, Attaching) = Count(o.tasks, Attaching) + One("accept" \in Attaching)
  <2>1. "accept" \in Task
    BY DEF Task
  <2>2. /\ d \in Shape /\ SameObject(m, d) /\ d.io_refs = m.io_refs
        /\ d.async = m.async /\ d.armed = m.armed
        /\ \A S : Count(d.tasks, S) = Count(m.tasks, S) + One("accept" \in S)
    <3>1. m \in Shape /\ d = Push(m, "accept")
      BY <1>4
    <3> QED
      BY ONLY <2>1, <3>1, PushShape
  <2> QED
    BY <1>4, <2>2
<1>6. "accept" \in Task /\ One("accept" \in Owning) = 1 /\ One("accept" \in Attaching) = 0
  BY DEF Task, Owning, Attaching, One
<1>7. /\ Holding(o, "none", Owning) = Count(o.tasks, Owning)
      /\ Holding(o, "none", Attaching) = Count(o.tasks, Attaching)
      /\ Count(o.tasks, Owning) \in Nat /\ Count(o.tasks, Attaching) \in Nat
      /\ Holding(d, "none", Owning) = Count(d.tasks, Owning)
      /\ Holding(d, "none", Attaching) = Count(d.tasks, Attaching)
      /\ Count(d.tasks, Owning) \in Nat /\ Count(d.tasks, Attaching) \in Nat
  BY <1>1, <1>5, HoldingBoth, Hands
<1>8. AliveIn(o)
  BY <1>1 DEF Sound, Counted
<1>9. One(o.io = "open") \in 0 .. 1
  BY DEF One
<1>10. SameObject(o, d) /\ d.io_refs = o.io_refs /\ d.armed = o.armed
  BY <1>4, <1>5 DEF SameObject
<1>11. Counted(d, "none")
  <2>1. o.io_refs = One(o.io = "open") + Holding(o, "none", Owning) + o.async
    BY <1>8 DEF Sound, Counted
  <2>2. d.io_refs = One(d.io = "open") + Holding(d, "none", Owning) + d.async
    <3>1. d.io = o.io
      BY <1>10 DEF SameObject
    <3> QED
      BY <1>1, <1>2, <1>5, <1>6, <1>7, <1>9, <1>10, <2>1, <3>1
  <2> QED
    BY <1>8, <1>10, <2>2 DEF Sound, Counted, SameObject, AliveIn
<1>12. Lived(d)
  BY <1>10 DEF Sound, Lived, SameObject, AliveIn
<1>13. Count(d.tasks, Attaching) = Count(o.tasks, Attaching)
  BY <1>5, <1>6, <1>7
<1>14. Attached(d, "none")
  BY <1>7, <1>10, <1>13 DEF Sound, Attached, SameObject
<1>15. Count(d.tasks, Attaching) <= Count(o.tasks, Attaching)
  BY <1>7, <1>13
<1> QED
  BY <1>5, <1>8, <1>10, <1>11, <1>12, <1>14, <1>15 DEF Sound, SameObject, Kept

(* A listener that has no IO object is going to be attached.               *)
LEMMA AttachPushSound ==
    ASSUME NEW o, Sound(o, "none"), o.mem = "live", o.frame = "none", o.io = "none",
           Count(o.tasks, Attaching) = 0, NEW d, d = Push(o, "attach")
    PROVE  /\ Sound(d, "none") /\ d.mem = "live" /\ d.frame = "none" /\ d.io = "none"
           /\ Count(d.tasks, Attaching) = 1
<1>1. "attach" \in Task /\ One("attach" \in Owning) = 0 /\ One("attach" \in Attaching) = 1
  BY Hands DEF Task
<1>2. /\ o \in Shape /\ d \in Shape /\ SameObject(o, d) /\ d.io_refs = o.io_refs
      /\ d.async = o.async /\ d.armed = o.armed
      /\ Count(d.tasks, Owning) = Count(o.tasks, Owning) + One("attach" \in Owning)
      /\ Count(d.tasks, Attaching) = Count(o.tasks, Attaching) + One("attach" \in Attaching)
  BY <1>1, PushShape DEF Sound
<1>3. /\ Holding(o, "none", Owning) = Count(o.tasks, Owning) + 0
      /\ Holding(d, "none", Owning) = Count(d.tasks, Owning) + 0
      /\ Holding(d, "none", Attaching) = Count(d.tasks, Attaching) + 0
      /\ Count(o.tasks, Owning) \in Nat /\ Count(o.tasks, Attaching) \in Nat
      /\ Count(d.tasks, Owning) \in Nat /\ Count(d.tasks, Attaching) \in Nat
  BY <1>2, HoldingBoth, Hands
<1>4. /\ Holding(d, "none", Owning) = Holding(o, "none", Owning)
      /\ Holding(d, "none", Attaching) = 1 /\ Count(d.tasks, Attaching) = 1
  BY <1>1, <1>2, <1>3
<1>5. Counted(d, "none")
  BY <1>2, <1>4 DEF Sound, Counted, SameObject, AliveIn
<1>6. Lived(d)
  BY <1>2 DEF Sound, Lived, SameObject, AliveIn
<1>7. Attached(d, "none")
  BY <1>2, <1>4 DEF Attached, SameObject
<1> QED
  BY <1>2, <1>4, <1>5, <1>6, <1>7 DEF Sound, SameObject

(* The task that attaches finds the listener as it was when it was queued. *)
LEMMA AttachSound ==
    ASSUME NEW o, Sound(o, "attach")
    PROVE  /\ o.mem = "live" /\ o.frame = "none" /\ o.fd
           /\ Count(o.tasks, Attaching) = 0
           /\ \A d : d = [o EXCEPT !.refs = @ + 1, !.l_io = TRUE, !.io = "open",
                                   !.io_refs = 1, !.io_fd = TRUE, !.armed = TRUE]
                     => /\ Sound(d, "none") /\ d.tasks = o.tasks
                        /\ d.frame = o.frame /\ d.mem = o.mem
<1>1. o \in Shape
  BY DEF Sound
<1>2. /\ Holding(o, "attach", Owning) = Count(o.tasks, Owning) + 0
      /\ Holding(o, "attach", Attaching) = Count(o.tasks, Attaching) + 1
      /\ Count(o.tasks, Owning) \in Nat /\ Count(o.tasks, Attaching) \in Nat
  BY <1>1, HoldingBoth, Hands
<1>3. /\ Count(o.tasks, Attaching) = 0
      /\ o.mem = "live" /\ o.frame = "none" /\ o.io = "none"
  BY <1>2 DEF Sound, Attached
<1>4. o.fd = TRUE /\ o.refs = 0 /\ "exit" \in o.hooks
  BY <1>1, <1>3 DEF Sound, Lived, Shape, One, AliveIn
<1>5. Count(o.tasks, Owning) = 0 /\ o.async = 0 /\ o.closes = 0
  BY <1>2, <1>3 DEF Sound, Counted, AliveIn, One
<1>6. ASSUME NEW d, d = [o EXCEPT !.refs = @ + 1, !.l_io = TRUE, !.io = "open",
                                  !.io_refs = 1, !.io_fd = TRUE, !.armed = TRUE]
      PROVE  Sound(d, "none") /\ d.tasks = o.tasks /\ d.frame = o.frame /\ d.mem = o.mem
  <2>1. PICK n \in -1 .. 1 : n = 1
    OBVIOUS
  <2>2. PICK k \in Nat : k = 1
    OBVIOUS
  <2>3. o.refs + 1 = n
    BY <1>4, <2>1
  <2>4. d = [o EXCEPT !.refs = n, !.l_io = TRUE, !.io = "open",
                      !.io_refs = k, !.io_fd = TRUE, !.armed = TRUE]
    BY <1>6, <2>2, <2>3
  <2>5. /\ d \in Shape /\ d.mem = o.mem /\ d.refs = n /\ d.fd = o.fd /\ d.l_io = TRUE
        /\ d.hooks = o.hooks /\ d.io = "open" /\ d.io_refs = k /\ d.io_fd = TRUE
        /\ d.frame = o.frame /\ d.closes = o.closes /\ d.faults = o.faults
        /\ d.async = o.async /\ d.tasks = o.tasks /\ d.armed = TRUE
    BY <1>1, <2>4 DEF Shape
  <2>6. Holding(d, "none", Owning) = 0 /\ Holding(d, "none", Attaching) = 0
    <3>1. /\ Holding(d, "none", Owning) = Count(d.tasks, Owning) + 0
          /\ Holding(d, "none", Attaching) = Count(d.tasks, Attaching) + 0
      BY <2>5, HoldingBoth, Hands
    <3> QED
      BY <1>3, <1>5, <2>5, <3>1
  <2>7. Counted(d, "none")
    <3>1. /\ AliveIn(d) = TRUE /\ One(d.io = "open") = 1 /\ One(d.io = "gone") = 0
      BY <2>5 DEF AliveIn, One
    <3>2. d.io_refs = One(d.io = "open") + Holding(d, "none", Owning) + d.async /\ d.io_refs > 0
      BY <1>5, <2>2, <2>5, <2>6, <3>1
    <3> QED
      BY <1>3, <1>5, <2>5, <3>1, <3>2 DEF Counted
  <2>8. Lived(d)
    BY <1>3, <1>4, <2>1, <2>5 DEF Lived, AliveIn, One
  <2>9. Attached(d, "none")
    BY <2>6 DEF Attached
  <2> QED
    BY <2>5, <2>7, <2>8, <2>9 DEF Sound
<1> QED
  BY <1>3, <1>4, <1>6
-----------------------------------------------------------------------------
(* What the phases tell, across a task.                                    *)

LEMMA KeptTrans ==
    ASSUME NEW a \in Shape, NEW b \in Shape, NEW c \in Shape, Kept(a, b), Kept(b, c)
    PROVE  Kept(a, c)
<1>1. /\ Count(a.tasks, Attaching) \in Nat /\ Count(b.tasks, Attaching) \in Nat
      /\ Count(c.tasks, Attaching) \in Nat
  BY HoldingType
<1>2. Count(c.tasks, Attaching) <= Count(a.tasks, Attaching)
  BY <1>1 DEF Kept
<1> QED
  BY <1>2 DEF Kept

LEMMA PhasedKept ==
    ASSUME NEW o \in Shape, NEW d \in Shape, NEW p, NEW e, Phased(o, p, e),
           p \notin Resting, Kept(o, d)
    PROVE  Phased(d, p, e)
<1>1. Count(o.tasks, Attaching) \in Nat /\ Count(d.tasks, Attaching) \in Nat
  BY HoldingType
<1>2. Count(d.tasks, Attaching) > 0 => Count(o.tasks, Attaching) > 0
  BY <1>1 DEF Kept
<1>3. p \notin {"init", "idle", "exiting", "exited"}
  BY DEF Resting
<1>4. d.frame = o.frame /\ d.mem = o.mem /\ (d.io = "open" => o.io = "open")
  BY DEF Kept
<1> QED
  BY <1>2, <1>3, <1>4 DEF Phased, Resting

(* A step of a phase that works.                                           *)
LEMMA StepKept ==
    ASSUME IInv, phase \notin Resting, Sound(s', "none"), Kept(s, s'),
           phase' = phase, stopped' = stopped
    PROVE  IInv'
<1>1. s \in Shape /\ s' \in Shape /\ Phased(s, phase, stopped)
  BY DEF IInv, Sound
<1>2. Phased(s', phase, stopped)
  BY <1>1, PhasedKept
<1> QED
  BY <1>2 DEF IInv

(* The reactor takes a task in hand.                                       *)
LEMMA Taken ==
    ASSUME IInv, NEW t \in Task, Run(t)
    PROVE  /\ Sound(Rest, t) /\ Kept(s, Rest) /\ s \in Shape /\ Rest \in Shape
           /\ SameObject(s, Rest) /\ Rest.async = s.async /\ phase \notin Resting
           /\ Count(s.tasks, Attaching) = Count(Rest.tasks, Attaching) + One(t \in Attaching)
<1>1. Sound(s, "none") /\ s.tasks # <<>> /\ Head(s.tasks) = t /\ s \in Shape
  BY DEF IInv, Run, Sound
<1>2. PICK r : r = [s EXCEPT !.tasks = Tail(@)]
  OBVIOUS
<1>3. Rest = r
  BY <1>2 DEF Rest
<1>4. /\ Sound(r, t) /\ r \in Shape /\ SameObject(s, r) /\ r.async = s.async
      /\ Count(s.tasks, Attaching) = Count(r.tasks, Attaching) + One(t \in Attaching)
  BY <1>1, <1>2, PopSound
<1>5. /\ Count(r.tasks, Attaching) \in Nat /\ One(t \in Attaching) \in 0 .. 1
  BY <1>4, HoldingType
<1>6. Count(r.tasks, Attaching) <= Count(s.tasks, Attaching)
  BY <1>4, <1>5
<1>7. Kept(s, r)
  BY <1>4, <1>6 DEF SameObject, Kept
<1>8. phase \notin Resting
  BY <1>1 DEF IInv, Phased
<1> QED
  BY <1>1, <1>3, <1>4, <1>7, <1>8

(* ... and ends it.                                                        *)
LEMMA TaskDone ==
    ASSUME IInv, NEW t \in Task, Run(t), Sound(s', "none"), Kept(Rest, s'),
           phase' = phase, stopped' = stopped
    PROVE  IInv'
<1>1. /\ Kept(s, Rest) /\ s \in Shape /\ Rest \in Shape /\ phase \notin Resting
  BY Taken
<1>2. s' \in Shape
  BY DEF Sound
<1>3. Kept(s, s')
  BY <1>1, <1>2, KeptTrans
<1> QED
  BY <1>1, <1>3, StepKept

(* A task that owns a reference finds the IO object and the listener.      *)
LEMMA OwnerLives ==
    ASSUME NEW o, NEW h \in Owning, Sound(o, h)
    PROVE  AliveIn(o) /\ o.mem = "live"
<1>1. o \in Shape /\ h \in Task /\ One(h \in Owning) = 1
  BY Hands DEF Sound, Owning, Task
<1>2. Holding(o, h, Owning) = Count(o.tasks, Owning) + 1 /\ Count(o.tasks, Owning) \in Nat
  BY <1>1, HoldingBoth
<1> QED
  BY <1>1, <1>2 DEF Sound, Counted

-----------------------------------------------------------------------------
(* Every step preserves the invariant.                                     *)

LEMMA RunAttachStep ==
    ASSUME IInv, RunAttach
    PROVE  IInv'
<1>1. "attach" \in Task /\ Run("attach") /\ One("attach" \in Attaching) = 1
  BY Hands DEF Task, RunAttach
<1>2. PICK r : r = Rest
  OBVIOUS
<1>3. /\ Sound(r, "attach") /\ s \in Shape /\ r \in Shape /\ SameObject(s, r)
      /\ phase \notin Resting
      /\ Count(s.tasks, Attaching) = Count(r.tasks, Attaching) + 1
  BY <1>1, <1>2, Taken
<1>4. /\ r.mem = "live" /\ r.frame = "none" /\ r.fd
      /\ Count(r.tasks, Attaching) = 0
      /\ \A d : d = [r EXCEPT !.refs = @ + 1, !.l_io = TRUE, !.io = "open",
                              !.io_refs = 1, !.io_fd = TRUE, !.armed = TRUE]
                => /\ Sound(d, "none") /\ d.tasks = r.tasks
                   /\ d.frame = r.frame /\ d.mem = r.mem
  BY <1>3, AttachSound
<1>5. s.mem = "live" /\ s.fd
  BY <1>3, <1>4 DEF SameObject
<1>6. s' = [r EXCEPT !.refs = @ + 1, !.l_io = TRUE, !.io = "open",
                     !.io_refs = 1, !.io_fd = TRUE, !.armed = TRUE]
  BY <1>2, <1>5 DEF RunAttach
<1>7. /\ Sound(s', "none") /\ s'.tasks = r.tasks /\ s'.frame = "none" /\ s'.mem = "live"
  BY <1>4, <1>6
<1>8. phase = "work"
  <2>1. Count(s.tasks, Attaching) > 0
    BY <1>3, <1>4
  <2> QED
    BY <2>1 DEF IInv, Phased
<1>9. Count(s'.tasks, Attaching) = 0
  BY <1>4, <1>7
<1>10. Phased(s', "work", stopped)
  BY <1>7, <1>9 DEF Phased, Resting
<1>11. phase' = "work" /\ stopped' = stopped
  BY <1>8 DEF RunAttach
<1> QED
  BY <1>7, <1>10, <1>11 DEF IInv

LEMMA RunCloseStep ==
    ASSUME IInv, RunClose
    PROVE  IInv'
<1>1. "close" \in Task /\ "close" \in Owning /\ Run("close")
  BY DEF Task, Owning, RunClose
<1>2. Sound(Rest, "close")
  BY <1>1, Taken
<1>3. s' = Free2(Rest) /\ phase' = phase /\ stopped' = stopped
  BY DEF RunClose
<1>4. Sound(Free2(Rest), "none") /\ Kept(Rest, Free2(Rest))
  BY <1>1, <1>2, Free2Sound
<1> QED
  BY <1>1, <1>3, <1>4, TaskDone

LEMMA RunDataStep ==
    ASSUME IInv, RunData
    PROVE  IInv'
<1>1. "data" \in Task /\ "data" \in Owning /\ Run("data") /\ "accept" \in Owning
  BY DEF Task, Owning, RunData
<1>2. PICK r : r = Rest
  OBVIOUS
<1>3. Sound(r, "data") /\ SameObject(s, r)
  BY <1>1, <1>2, Taken
<1>4. s.mem = "live"
  BY <1>1, <1>3, OwnerLives DEF SameObject
<1>5. phase' = phase /\ stopped' = stopped
  BY DEF RunData
<1>6. CASE Async \/ phase # "work"
  <2>1. PICK o : o = [r EXCEPT !.suspended = TRUE]
    OBVIOUS
  <2>2. Sound(o, "data") /\ Kept(r, o)
    BY <1>3, <2>1, ResumedSound
  <2>3. s' = IF phase = "work" THEN [o EXCEPT !.async = @ + 1] ELSE Push(o, "accept")
    BY <1>2, <1>4, <1>6, <2>1 DEF RunData
  <2>4. Sound(s', "none") /\ Kept(o, s')
    <3>1. CASE phase = "work"
      <4>1. s' = [o EXCEPT !.async = @ + 1]
        BY <2>3, <3>1
      <4> QED
        BY <1>1, <2>2, <4>1, AwaySound
    <3>2. CASE phase # "work"
      <4>1. s' = Push(o, "accept")
        BY <2>3, <3>2
      <4> QED
        BY <1>1, <2>2, <4>1, PassSound
    <3> QED
      BY <3>1, <3>2
  <2>5. r \in Shape /\ o \in Shape /\ s' \in Shape
    BY <1>3, <2>2, <2>4 DEF Sound
  <2>6. Kept(r, s')
    BY <2>2, <2>4, <2>5, KeptTrans
  <2> QED
    BY <1>1, <1>2, <1>5, <2>4, <2>6, TaskDone
<1>7. CASE ~(Async \/ phase # "work")
  <2>1. s' = AcceptAll(r)
    BY <1>2, <1>4, <1>7 DEF RunData
  <2>2. PICK f : f = Free2(r)
    OBVIOUS
  <2>3. Sound(f, "none") /\ Kept(r, f)
    BY <1>1, <1>3, <2>2, Free2Sound
  <2>4. s' = MonitorIn(f)
    BY <2>1, <2>2 DEF AcceptAll
  <2>5. Sound(s', "none") /\ Kept(f, s')
    BY <2>3, <2>4, MonitorInSound
  <2>6. r \in Shape /\ f \in Shape /\ s' \in Shape
    BY <1>3, <2>3, <2>5 DEF Sound
  <2>7. Kept(r, s')
    BY <2>3, <2>5, <2>6, KeptTrans
  <2> QED
    BY <1>1, <1>2, <1>5, <2>5, <2>7, TaskDone
<1> QED
  BY <1>6, <1>7

LEMMA RunAcceptStep ==
    ASSUME IInv, RunAccept
    PROVE  IInv'
<1>1. "accept" \in Task /\ "accept" \in Owning /\ Run("accept") /\ "unsuspend" \in Task
      /\ "unsuspend" \notin Owning /\ "unsuspend" \notin Attaching
  BY DEF Task, Owning, Attaching, RunAccept
<1>2. PICK r : r = Rest
  OBVIOUS
<1>3. Sound(r, "accept")
  BY <1>1, <1>2, Taken
<1>4. PICK o : o = [r EXCEPT !.suspended = FALSE]
  OBVIOUS
<1>5. Sound(o, "accept") /\ Kept(r, o)
  BY <1>3, <1>4, ResumedSound
<1>6. PICK d : d = Push(o, "unsuspend")
  OBVIOUS
<1>7. Sound(d, "accept") /\ Kept(o, d)
  BY <1>1, <1>5, <1>6, PushSound
<1>8. s' = Free2(d) /\ phase' = phase /\ stopped' = stopped
  BY <1>2, <1>4, <1>6 DEF RunAccept
<1>9. Sound(s', "none") /\ Kept(d, s')
  BY <1>1, <1>7, <1>8, Free2Sound
<1>10. r \in Shape /\ o \in Shape /\ d \in Shape /\ s' \in Shape
  BY <1>3, <1>5, <1>7, <1>9 DEF Sound
<1>11. Kept(r, s')
  BY <1>5, <1>7, <1>9, <1>10, KeptTrans
<1> QED
  BY <1>1, <1>2, <1>8, <1>9, <1>11, TaskDone

LEMMA RunUnsuspendStep ==
    ASSUME IInv, RunUnsuspend
    PROVE  IInv'
<1>1. "unsuspend" \in Task /\ Run("unsuspend")
      /\ "unsuspend" \notin Owning /\ "unsuspend" \notin Attaching
  BY DEF Task, Owning, Attaching, RunUnsuspend
<1>2. Sound(Rest, "unsuspend") /\ Kept(s, Rest)
  BY <1>1, Taken
<1>3. s' = (IF stop THEN CloseIO(Rest) ELSE MonitorIn(Rest)) /\ phase' = phase /\ stopped' = stopped
  BY DEF RunUnsuspend
<1>4. Sound(s', "unsuspend") /\ Kept(Rest, s')
  BY <1>1, <1>2, <1>3, CloseIOSound, MonitorInSound
<1>5. Sound(s', "none")
  BY <1>1, <1>4, DropSound
<1> QED
  BY <1>1, <1>3, <1>4, <1>5, TaskDone

(* The tasks that poll.                                                    *)
LEMMA PolledStep ==
    ASSUME IInv, NEW t \in {"work", "shutdown"}, Run(t),
           s' = Rest \/ s' = Push(Poll(Rest), t), phase' = phase, stopped' = stopped
    PROVE  IInv'
<1>1. t \in Task /\ t \notin Owning /\ t \notin Attaching
  BY DEF Task, Owning, Attaching
<1>2. Sound(Rest, t) /\ Rest \in Shape
  BY <1>1, Taken
<1>3. Kept(Rest, Rest)
  BY <1>2, HoldingType DEF Kept
<1>4. CASE s' = Rest
  BY <1>1, <1>2, <1>3, <1>4, DropSound, TaskDone
<1>5. CASE s' = Push(Poll(Rest), t)
  <2>1. PICK o : o = Poll(Rest)
    OBVIOUS
  <2>2. Sound(o, t) /\ Kept(Rest, o)
    BY <1>1, <1>2, <2>1, PollSound
  <2>3. Sound(s', t) /\ Kept(o, s')
    BY <1>1, <1>5, <2>1, <2>2, PushSound
  <2>4. Sound(s', "none")
    BY <1>1, <2>3, DropSound
  <2>5. o \in Shape /\ s' \in Shape
    BY <2>2, <2>3 DEF Sound
  <2>6. Kept(Rest, s')
    BY <1>2, <2>2, <2>3, <2>5, KeptTrans
  <2> QED
    BY <1>1, <2>4, <2>6, TaskDone
<1> QED
  BY <1>4, <1>5
LEMMA RunWorkStep ==
    ASSUME IInv, RunWork
    PROVE  IInv'
<1>1. /\ Run("work") /\ phase' = phase /\ stopped' = stopped
      /\ s' = Rest \/ s' = Push(Poll(Rest), "work")
  BY DEF RunWork
<1> QED
  BY <1>1, PolledStep

LEMMA RunShutdownStep ==
    ASSUME IInv, RunShutdown
    PROVE  IInv'
<1>1. /\ Run("shutdown") /\ phase' = phase /\ stopped' = stopped
      /\ s' = Rest \/ s' = Push(Poll(Rest), "shutdown")
  BY DEF RunShutdown
<1> QED
  BY <1>1, PolledStep

LEMMA ShutdownOverStep ==
    ASSUME IInv, ShutdownOver
    PROVE  IInv'
<1>1. Run("shutdown") /\ phase' = phase /\ stopped' = stopped /\ s' = Rest
  BY DEF ShutdownOver
<1> QED
  BY <1>1, PolledStep

LEMMA AsyncAcceptStep ==
    ASSUME IInv, AsyncAccept
    PROVE  IInv'
<1>1. Sound(s, "none") /\ s.async > 0 /\ phase' = phase /\ stopped' = stopped
  BY DEF IInv, AsyncAccept
<1>2. PICK m : m = [s EXCEPT !.async = @ - 1]
  OBVIOUS
<1>3. s' = Push(m, "accept")
  BY <1>2 DEF AsyncAccept
<1>4. Sound(s', "none") /\ Kept(s, s') /\ AliveIn(s)
  BY <1>1, <1>2, <1>3, BackSound
<1>5. phase \notin Resting
  BY <1>4 DEF IInv, Phased
<1> QED
  BY <1>1, <1>4, <1>5, StepKept

(* The queue is empty: nothing is going to be attached.                    *)
LEMMA CountEmpty ==
    ASSUME NEW o \in Shape, o.tasks = <<>>
    PROVE  Count(o.tasks, Attaching) = 0 /\ Count(o.tasks, Owning) = 0
<1>1. \A S : PlacesOf(o.tasks, S) = {}
  BY DEF PlacesOf
<1> QED
  BY <1>1, FS_EmptySet DEF Count

LEMMA ShutdownStep ==
    ASSUME IInv, Shutdown
    PROVE  IInv'
<1>1. /\ Sound(s, "none") /\ s \in Shape /\ s.tasks = <<>> /\ s.frame = "none"
      /\ phase = "work" /\ phase' = "shutdown" /\ stopped' = stopped
  BY DEF IInv, Sound, Shutdown
<1>2. PICK o : o = IF s.suspended THEN s ELSE CloseIO(s)
  OBVIOUS
<1>3. "none" \notin Attaching /\ "shutdown" \in Task
      /\ "shutdown" \notin Owning /\ "shutdown" \notin Attaching
  BY DEF Attaching, Owning, Task
<1>4. Kept(s, s)
  <2>1. PICK n \in Nat : n = Count(s.tasks, Attaching)
    BY <1>1, HoldingType
  <2>2. n <= n
    OBVIOUS
  <2> QED
    BY <2>1, <2>2 DEF Kept
<1>5. Sound(o, "none") /\ Kept(s, o)
  BY <1>1, <1>2, <1>3, <1>4, CloseIOSound
<1>6. s' = Push(o, "shutdown")
  BY <1>2 DEF Shutdown
<1>7. Sound(s', "none") /\ Kept(o, s')
  BY <1>3, <1>5, <1>6, PushSound
<1>8. o \in Shape /\ s' \in Shape
  BY <1>5, <1>7 DEF Sound
<1>9. Kept(s, s')
  BY <1>1, <1>5, <1>7, <1>8, KeptTrans
<1>10. Count(s'.tasks, Attaching) <= 0 /\ Count(s'.tasks, Attaching) \in Nat
  BY <1>1, <1>8, <1>9, CountEmpty, HoldingType DEF Kept
<1>11. ~(Count(s'.tasks, Attaching) > 0)
  BY <1>10
<1>12. s'.frame = "none" /\ s'.mem = s.mem
  BY <1>1, <1>9 DEF Kept
<1>13. s.mem = "freed" => stopped
  BY <1>1 DEF IInv, Phased
<1>14. Phased(s', "shutdown", stopped)
  BY <1>11, <1>12, <1>13 DEF Phased, Resting
<1> QED
  BY <1>1, <1>7, <1>14 DEF IInv

LEMMA ForceCloseStep ==
    ASSUME IInv, ForceClose
    PROVE  IInv'
<1>1. /\ Sound(s, "none") /\ s \in Shape /\ s.tasks = <<>> /\ s.frame = "none"
      /\ phase = "shutdown" /\ phase' = "forced" /\ stopped' = stopped
  BY DEF IInv, Sound, ForceClose
<1>2. s' = CloseIO(s)
  BY DEF ForceClose, CloseIO
<1>3. Sound(s', "none") /\ Kept(s, s') /\ s'.io # "open"
  <2>1. "none" \notin Attaching
    BY DEF Attaching
  <2> QED
    BY <1>1, <1>2, <2>1, CloseIOSound
<1>4. s' \in Shape
  BY <1>3 DEF Sound
<1>5. Count(s'.tasks, Attaching) <= 0 /\ Count(s'.tasks, Attaching) \in Nat
  BY <1>1, <1>3, <1>4, CountEmpty, HoldingType DEF Kept
<1>6. ~(Count(s'.tasks, Attaching) > 0)
  BY <1>5
<1>7. s'.frame = "none" /\ s'.mem = s.mem
  BY <1>1, <1>3 DEF Kept
<1>8. s.mem = "freed" => stopped
  BY <1>1 DEF IInv, Phased
<1>9. Phased(s', "forced", stopped)
  BY <1>3, <1>6, <1>7, <1>8 DEF Phased, Resting
<1> QED
  BY <1>1, <1>3, <1>9 DEF IInv

(* fio_io_start returns when the IO object has no reference left.          *)
LEMMA ReturnStep ==
    ASSUME IInv, Return
    PROVE  IInv'
<1>1. /\ Sound(s, "none") /\ s \in Shape /\ s.tasks = <<>> /\ s.frame = "none" /\ s.async = 0
      /\ phase = "forced" /\ phase' = "idle" /\ stopped' = stopped /\ s' = s
  BY DEF IInv, Sound, Return
<1>2. Count(s.tasks, Attaching) = 0 /\ Count(s.tasks, Owning) = 0
  BY <1>1, CountEmpty
<1>3. s.io # "open" /\ (s.mem = "freed" => stopped)
  BY <1>1 DEF IInv, Phased
<1>4. ~AliveIn(s)
  <2>1. Holding(s, "none", Owning) = 0 + 0
    BY <1>1, <1>2, HoldingBoth, Hands
  <2>2. One(s.io = "open") = 0
    BY <1>3 DEF One
  <2>3. AliveIn(s) => s.io_refs = 0 + 0 + 0 /\ s.io_refs > 0
    BY <1>1, <2>1, <2>2 DEF Sound, Counted
  <2> QED
    BY <2>3
<1>5. Phased(s, "idle", stopped)
  BY <1>1, <1>2, <1>3, <1>4 DEF Phased, Resting
<1> QED
  BY <1>1, <1>5 DEF IInv

LEMMA ListenStep ==
    ASSUME IInv, Listen
    PROVE  IInv'
<1>1. /\ Sound(s, "none") /\ s \in Shape /\ s.mem = "none" /\ phase \in {"init", "work"}
      /\ Phased(s, phase, stopped) /\ phase' = phase /\ stopped' = stopped
  BY DEF IInv, Sound, Listen
<1>2. /\ s.refs = 0 /\ s.frame = "none" /\ s.io = "none"
  BY <1>1 DEF Sound, Lived
<1>3. PICK l : l = [s EXCEPT !.mem = "live", !.fd = TRUE]
  OBVIOUS
<1>4. s' = IF phase = "work" THEN Push([l EXCEPT !.hooks = {"exit"}], "attach")
           ELSE [l EXCEPT !.hooks = {"start", "exit"}]
  BY <1>3 DEF Listen
<1>5. Count(s.tasks, Attaching) = 0
  <2>1. Holding(s, "none", Attaching) = Count(s.tasks, Attaching) + 0
        /\ Count(s.tasks, Attaching) \in Nat /\ Holding(s, "none", Attaching) \in Nat
    BY <1>1, HoldingBoth, Hands
  <2>2. ~(Holding(s, "none", Attaching) > 0)
    BY <1>1 DEF Sound, Attached
  <2> QED
    BY <2>1, <2>2
<1>6. ASSUME NEW H \in SUBSET {"start", "exit"}, "exit" \in H,
             NEW d, d = [l EXCEPT !.hooks = H]
      PROVE  /\ Sound(d, "none") /\ d.mem = "live" /\ d.frame = "none" /\ d.io = "none"
             /\ d.tasks = s.tasks /\ Count(d.tasks, Attaching) = 0
  <2>1. /\ l \in Shape /\ l.mem = "live" /\ l.refs = s.refs /\ l.fd = TRUE /\ l.l_io = s.l_io
        /\ l.io = s.io /\ l.io_refs = s.io_refs /\ l.io_fd = s.io_fd
        /\ l.frame = s.frame /\ l.closes = s.closes /\ l.faults = s.faults
        /\ l.async = s.async /\ l.tasks = s.tasks /\ l.armed = s.armed
    BY <1>1, <1>3 DEF Shape
  <2>2. /\ d \in Shape /\ d.mem = "live" /\ d.refs = s.refs /\ d.fd = TRUE /\ d.l_io = s.l_io
        /\ d.hooks = H /\ d.io = s.io /\ d.io_refs = s.io_refs /\ d.io_fd = s.io_fd
        /\ d.frame = s.frame /\ d.closes = s.closes /\ d.faults = s.faults
        /\ d.async = s.async /\ d.tasks = s.tasks /\ d.armed = s.armed
    BY <1>6, <2>1 DEF Shape
  <2>3. Counted(d, "none")
    <3>1. ~AliveIn(s) /\ ~AliveIn(d)
      BY <1>2, <2>2 DEF AliveIn
    <3>2. Holding(d, "none", Owning) = Holding(s, "none", Owning)
      BY <2>2 DEF Holding
    <3> QED
      BY <1>1, <1>2, <2>2, <3>1, <3>2 DEF Sound, Counted, AliveIn
  <2>4. Lived(d)
    BY <1>2, <1>6, <2>2 DEF Lived, AliveIn, One
  <2>5. Attached(d, "none")
    <3>1. Holding(d, "none", Attaching) = Count(d.tasks, Attaching) + 0
      BY <2>2, HoldingBoth, Hands
    <3> QED
      BY <1>5, <2>2, <3>1 DEF Attached
  <2> QED
    BY <1>1, <1>2, <1>5, <2>2, <2>3, <2>4, <2>5 DEF Sound
<1>7. CASE phase = "work"
  <2>1. PICK H \in SUBSET {"start", "exit"} : H = {"exit"}
    OBVIOUS
  <2>2. PICK d : d = [l EXCEPT !.hooks = H]
    OBVIOUS
  <2>3. /\ Sound(d, "none") /\ d.mem = "live" /\ d.frame = "none" /\ d.io = "none"
        /\ Count(d.tasks, Attaching) = 0
    BY <1>6, <2>1, <2>2
  <2>4. s' = Push(d, "attach")
    BY <1>4, <1>7, <2>1, <2>2
  <2>5. Sound(s', "none") /\ s'.mem = "live" /\ s'.frame = "none"
    BY <2>3, <2>4, AttachPushSound
  <2>6. Phased(s', "work", stopped)
    BY <2>5 DEF Phased, Resting
  <2> QED
    BY <1>1, <1>7, <2>5, <2>6 DEF IInv
<1>8. CASE phase = "init"
  <2>1. PICK H \in SUBSET {"start", "exit"} : H = {"start", "exit"}
    OBVIOUS
  <2>2. s' = [l EXCEPT !.hooks = H]
    BY <1>4, <1>8, <2>1
  <2>3. /\ Sound(s', "none") /\ s'.mem = "live" /\ s'.frame = "none" /\ s'.io = "none"
        /\ s'.tasks = s.tasks /\ Count(s'.tasks, Attaching) = 0
    BY <1>6, <2>1, <2>2
  <2>4. s.tasks = <<>>
    BY <1>1, <1>8 DEF Phased, Resting
  <2>5. ~(Count(s'.tasks, Attaching) > 0)
    BY <2>3
  <2>6. Phased(s', "init", stopped)
    BY <2>3, <2>4, <2>5 DEF Phased, Resting, AliveIn
  <2> QED
    BY <1>1, <1>8, <2>3, <2>6 DEF IInv
<1> QED
  BY <1>1, <1>7, <1>8

LEMMA ListenStopStep ==
    ASSUME StopWhileRunning = FALSE, IInv, ListenStop
    PROVE  IInv'
<1>1. /\ Sound(s, "none") /\ s \in Shape /\ Phased(s, phase, stopped)
      /\ s.mem = "live" /\ s.frame = "none" /\ phase \in {"init", "idle"}
      /\ stopped' = TRUE /\ phase' = phase /\ s' = ListenFree(s, "stop")
  BY DEF IInv, Sound, ListenStop
<1>2. s.tasks = <<>> /\ ~AliveIn(s)
  BY <1>1 DEF Phased, Resting
<1>3. Count(s.tasks, Attaching) = 0
  BY <1>1, <1>2, CountEmpty
<1>4. /\ Sound(s', "none") /\ s'.frame = "stop" /\ s'.tasks = s.tasks /\ s'.io = s.io
      /\ s'.mem = "live"
  <2>1. "stop" \in {"stop", "exit"}
    OBVIOUS
  <2> QED
    BY <1>1, <1>2, <1>3, <2>1, ListenFreeSound
<1>5. ~(Count(s'.tasks, Attaching) > 0)
  BY <1>3, <1>4
<1>6. ~AliveIn(s')
  BY <1>2, <1>4 DEF AliveIn
<1>7. phase = "init" => s'.io = "none"
  BY <1>1, <1>4 DEF Phased
<1>8. Phased(s', phase, TRUE)
  BY <1>1, <1>2, <1>4, <1>5, <1>6, <1>7 DEF Phased, Resting
<1> QED
  BY <1>1, <1>4, <1>8 DEF IInv

LEMMA StartStep ==
    ASSUME IInv, Start
    PROVE  IInv'
<1>1. /\ Sound(s, "none") /\ s \in Shape /\ Phased(s, phase, stopped)
      /\ s.frame = "none" /\ phase = "init" /\ phase' = "work" /\ stopped' = stopped
      /\ s' = [s EXCEPT !.tasks = IF "start" \in s.hooks THEN <<"attach", "work">>
                                  ELSE <<"work">>]
  BY DEF IInv, Sound, Start
<1>2. s.tasks = <<>> /\ s.io = "none" /\ (s.mem = "freed" => stopped)
  BY <1>1 DEF Phased, Resting
<1>3. "work" \in Task /\ "work" \notin Owning /\ "work" \notin Attaching
  BY DEF Task, Owning, Attaching
<1>4. PICK a : a = IF "start" \in s.hooks THEN Push(s, "attach") ELSE s
  OBVIOUS
<1>5. Sound(a, "none") /\ a.frame = "none" /\ a.mem = s.mem
  <2>1. CASE "start" \in s.hooks
    <3>1. s.mem = "live"
      BY <1>1, <2>1 DEF Sound, Lived, Shape
    <3>2. Count(s.tasks, Attaching) = 0
      BY <1>1, <1>2, CountEmpty
    <3>3. a = Push(s, "attach")
      BY <1>4, <2>1
    <3> QED
      BY <1>1, <1>2, <3>1, <3>2, <3>3, AttachPushSound
  <2>2. CASE "start" \notin s.hooks
    BY <1>1, <1>4, <2>2
  <2> QED
    BY <2>1, <2>2
<1>6. PICK d : d = Push(a, "work")
  OBVIOUS
<1>7. s' = d
  <2>1. CASE "start" \in s.hooks
    <3>1. a = [s EXCEPT !.tasks = Append(s.tasks, "attach")]
      BY <1>4, <2>1 DEF Push
    <3>2. Append(s.tasks, "attach") = <<"attach">>
      BY <1>2
    <3>3. a = [s EXCEPT !.tasks = <<"attach">>]
      BY <3>1, <3>2
    <3>4. a.tasks = <<"attach">>
      BY <1>1, <3>3 DEF Shape
    <3>5. Append(<<"attach">>, "work") = <<"attach", "work">>
      <4>1. <<"attach">> \in Seq(Task) /\ <<"attach", "work">> \in Seq(Task)
        BY DEF Task
      <4>2. PICK q \in Seq(Task) : q = Append(<<"attach">>, "work")
        BY <1>3, <4>1, AppendProperties
      <4>3. Len(q) = 2 /\ q[1] = "attach" /\ q[2] = "work"
        BY <1>3, <4>1, <4>2, AppendProperties
      <4>4. \A i \in 1 .. Len(q) : q[i] = <<"attach", "work">>[i]
        BY <4>3
      <4> QED
        BY <4>1, <4>2, <4>3, <4>4, SeqEqual
    <3>6. d = [a EXCEPT !.tasks = <<"attach", "work">>]
      BY <1>6, <3>4, <3>5 DEF Push
    <3>7. d = [s EXCEPT !.tasks = <<"attach", "work">>]
      BY <1>1, <3>3, <3>6 DEF Shape
    <3> QED
      BY <1>1, <2>1, <3>7
  <2>2. CASE "start" \notin s.hooks
    <3>1. d = [s EXCEPT !.tasks = Append(s.tasks, "work")]
      BY <1>4, <1>6, <2>2 DEF Push
    <3>2. Append(s.tasks, "work") = <<"work">>
      BY <1>2
    <3> QED
      BY <1>1, <2>2, <3>1, <3>2
  <2> QED
    BY <2>1, <2>2
<1>8. Sound(d, "none") /\ d.frame = "none" /\ d.mem = s.mem
  <2>1. Sound(d, "none") /\ Kept(a, d)
    BY <1>3, <1>5, <1>6, PushSound
  <2> QED
    BY <1>5, <2>1 DEF Kept
<1>9. Phased(d, "work", stopped)
  BY <1>2, <1>8 DEF Phased, Resting
<1> QED
  BY <1>1, <1>7, <1>8, <1>9 DEF IInv

LEMMA AtExitStep ==
    ASSUME IInv, AtExit
    PROVE  IInv'
<1>1. /\ Sound(s, "none") /\ s \in Shape /\ Phased(s, phase, stopped)
      /\ s.frame = "none" /\ phase = "idle" /\ phase' = "exiting" /\ stopped' = stopped
      /\ s' = IF "exit" \in s.hooks THEN ListenFree(s, "exit") ELSE s
  BY DEF IInv, Sound, AtExit
<1>2. s.tasks = <<>> /\ ~AliveIn(s)
  BY <1>1 DEF Phased, Resting
<1>3. Count(s.tasks, Attaching) = 0
  BY <1>1, <1>2, CountEmpty
<1>4. CASE "exit" \in s.hooks
  <2>1. s.mem = "live"
    BY <1>1, <1>4 DEF Sound, Lived, Shape
  <2>2. /\ Sound(s', "none") /\ s'.frame = "exit" /\ s'.tasks = s.tasks /\ s'.io = s.io
        /\ s'.mem = "live"
    <3>1. s' = ListenFree(s, "exit") /\ "exit" \in {"stop", "exit"}
      BY <1>1, <1>4
    <3> QED
      BY <1>1, <1>2, <1>3, <2>1, <3>1, ListenFreeSound
  <2>3. ~(Count(s'.tasks, Attaching) > 0) /\ ~AliveIn(s')
    BY <1>2, <1>3, <2>2 DEF AliveIn
  <2>4. Phased(s', "exiting", stopped)
    BY <1>2, <2>2, <2>3 DEF Phased, Resting
  <2> QED
    BY <1>1, <2>2, <2>4 DEF IInv
<1>5. CASE "exit" \notin s.hooks
  <2>1. s' = s /\ s.mem # "live"
    BY <1>1, <1>5 DEF Sound, Lived
  <2>2. Phased(s, "exiting", stopped)
    BY <1>1, <1>2, <1>3, <2>1 DEF Phased, Resting
  <2> QED
    BY <1>1, <2>1, <2>2 DEF IInv
<1> QED
  BY <1>4, <1>5

LEMMA ExitStep ==
    ASSUME IInv, Exit
    PROVE  IInv'
<1>1. /\ Sound(s, "none") /\ s \in Shape /\ Phased(s, phase, stopped)
      /\ s.frame = "none" /\ phase = "exiting" /\ phase' = "exited" /\ stopped' = stopped
      /\ s' = s
  BY DEF IInv, Sound, Exit
<1>2. s.tasks = <<>> /\ ~AliveIn(s) /\ s.mem # "live"
  BY <1>1 DEF Phased, Resting
<1>3. ~(Count(s.tasks, Attaching) > 0)
  BY <1>1, <1>2, CountEmpty
<1>4. Phased(s, "exited", stopped)
  BY <1>1, <1>2, <1>3 DEF Phased, Resting
<1> QED
  BY <1>1, <1>4 DEF IInv

LEMMA FrameEndsStep ==
    ASSUME IInv, FrameEnds
    PROVE  IInv'
<1>1. /\ Sound(s, "none") /\ s \in Shape /\ Phased(s, phase, stopped)
      /\ s.frame \in {"stop", "exit"} /\ s.tasks = <<>>
      /\ phase' = phase /\ stopped' = stopped
  BY DEF IInv, Sound, Shape, FrameEnds
<1>2. s.mem = "live" /\ ~AliveIn(s) /\ s.hooks = {} /\ s.fd = FALSE
  BY <1>1 DEF Sound, Lived, Counted, Shape
<1>3. s' = [s EXCEPT !.mem = "freed", !.frame = "none"]
  BY <1>1 DEF FrameEnds
<1>4. /\ s' \in Shape /\ s'.mem = "freed" /\ s'.refs = s.refs /\ s'.fd = FALSE
      /\ s'.l_io = s.l_io
      /\ s'.hooks = s.hooks /\ s'.io = s.io /\ s'.io_refs = s.io_refs /\ s'.io_fd = s.io_fd
      /\ s'.frame = "none" /\ s'.closes = s.closes /\ s'.faults = s.faults
      /\ s'.async = s.async /\ s'.tasks = s.tasks /\ s'.armed = s.armed
  BY <1>1, <1>2, <1>3 DEF Shape
<1>5. Count(s'.tasks, Attaching) = 0 /\ Count(s'.tasks, Owning) = 0
  BY <1>1, <1>4, CountEmpty
<1>6. Sound(s', "none")
  <2>1. Counted(s', "none")
    <3>1. Holding(s', "none", Owning) = Holding(s, "none", Owning) /\ ~AliveIn(s')
      BY <1>2, <1>4 DEF Holding, AliveIn
    <3> QED
      BY <1>1, <1>2, <1>4, <3>1 DEF Sound, Counted, AliveIn
  <2>2. Lived(s')
    BY <1>2, <1>4 DEF Lived
  <2>3. Attached(s', "none")
    <3>1. Holding(s', "none", Attaching) = 0 + 0
      BY <1>4, <1>5, HoldingBoth, Hands
    <3> QED
      BY <3>1 DEF Attached
  <2> QED
    BY <1>1, <1>4, <2>1, <2>2, <2>3 DEF Sound
<1>7. Phased(s', phase, stopped)
  <2>1. ~(Count(s'.tasks, Attaching) > 0)
    BY <1>5
  <2>2. phase \in {"init", "idle", "exiting"} /\ (phase # "exiting" => stopped)
    BY <1>1 DEF Phased
  <2>3. ~AliveIn(s') /\ (phase = "init" => s'.io = "none")
    BY <1>1, <1>2, <1>4 DEF Phased, AliveIn
  <2> QED
    BY <1>1, <1>4, <2>1, <2>2, <2>3 DEF Phased, Resting
<1> QED
  BY <1>1, <1>6, <1>7 DEF IInv

-----------------------------------------------------------------------------
(* The invariant holds.                                                    *)

LEMMA InitInv ==
    ASSUME Init
    PROVE  IInv
<1>1. PICK z \in Nat : z = 0
  OBVIOUS
<1>2. PICK n \in -1 .. 1 : n = 0
  OBVIOUS
<1>3. PICK g \in SUBSET {"start", "exit"} : g = {}
  OBVIOUS
<1>4. PICK f \in SUBSET Faults : f = {}
  OBVIOUS
<1>5. PICK q \in Seq(Task) : q = <<>>
  BY EmptySeq
<1>6. s = [mem |-> "none", refs |-> n, fd |-> FALSE, l_io |-> FALSE, hooks |-> g,
           io |-> "none", io_refs |-> z, io_fd |-> FALSE, suspended |-> FALSE,
           armed |-> FALSE, tasks |-> q, async |-> z, frame |-> "none",
           closes |-> z, faults |-> f]
  BY <1>1, <1>2, <1>3, <1>4, <1>5 DEF Init
<1>7. s \in Shape
  BY <1>6 DEF Shape
<1>8. /\ s.mem = "none" /\ s.refs = 0 /\ s.fd = FALSE /\ s.l_io = FALSE /\ s.hooks = {}
      /\ s.io = "none" /\ s.io_fd = FALSE /\ s.armed = FALSE /\ s.tasks = <<>>
      /\ s.async = 0 /\ s.frame = "none" /\ s.closes = 0 /\ s.faults = {}
  BY <1>1, <1>2, <1>3, <1>4, <1>5, <1>6
<1>9. /\ Count(s.tasks, Attaching) = 0 /\ Count(s.tasks, Owning) = 0
  BY <1>7, <1>8, CountEmpty
<1>10. Holding(s, "none", Owning) = 0 /\ Holding(s, "none", Attaching) = 0
  <2>1. Holding(s, "none", Owning) = 0 + 0 /\ Holding(s, "none", Attaching) = 0 + 0
    BY <1>7, <1>9, HoldingBoth, Hands
  <2> QED
    BY <2>1
<1>11. AliveIn(s) = FALSE /\ One(s.io = "gone") = 0
  BY <1>8 DEF AliveIn, One
<1>12. Counted(s, "none")
  BY <1>8, <1>10, <1>11 DEF Counted
<1>13. Lived(s) /\ Attached(s, "none")
  BY <1>8, <1>10 DEF Lived, Attached
<1>14. Phased(s, "init", stopped)
  <2>1. ~(Count(s.tasks, Attaching) > 0)
    BY <1>9
  <2> QED
    BY <1>8, <1>11, <2>1 DEF Phased, Resting
<1>15. phase = "init"
  BY DEF Init
<1> QED
  BY <1>7, <1>8, <1>12, <1>13, <1>14, <1>15 DEF IInv, Sound

LEMMA Steps ==
    ASSUME StopWhileRunning = FALSE, IInv, [Next]_vars
    PROVE  IInv'
<1>1. CASE Reactor
  BY <1>1, RunAttachStep, RunCloseStep, RunDataStep, RunAcceptStep, RunUnsuspendStep,
     RunWorkStep, ShutdownStep, RunShutdownStep, ForceCloseStep, ReturnStep, FrameEndsStep
     DEF Reactor
<1>2. CASE AsyncAccept \/ Listen \/ ListenStop \/ Start \/ ShutdownOver \/ AtExit \/ Exit
  BY <1>2, AsyncAcceptStep, ListenStep, ListenStopStep, StartStep, ShutdownOverStep,
     AtExitStep, ExitStep
<1>3. CASE Stop \/ OthersEnd \/ Knock \/ UNCHANGED vars
  <2>1. s' = s /\ phase' = phase /\ stopped' = stopped
    BY <1>3 DEF Stop, OthersEnd, Knock, vars
  <2> QED
    BY <2>1 DEF IInv
<1> QED
  BY <1>1, <1>2, <1>3 DEF Next

(* What holds the listener is counted, it ends once, and its duplicate     *)
(* lives as long as it is needed, in every state that is reached.          *)
THEOREM Invariance ==
    ASSUME StopWhileRunning = FALSE
    PROVE  Spec => []IInv
<1>1. Init => IInv
  BY InitInv
<1>2. IInv /\ [Next]_vars => IInv'
  BY Steps
<1> QED
  BY <1>1, <1>2, PTL DEF Spec

(* The count of a listener in use is the number of IO objects that accept  *)
(* for it, on_close is called once, and a listener is not used after its   *)
(* end (402 io.h, fio___io_listen_free).                                   *)
THEOREM Listener_is_held ==
    ASSUME StopWhileRunning = FALSE
    PROVE  Spec => []ListenerHeld
<1>1. IInv => ListenerHeld
  <2> SUFFICES ASSUME IInv
               PROVE  ListenerHeld
    OBVIOUS
  <2>1. Sound(s, "none") /\ s \in Shape /\ Phased(s, phase, stopped)
    BY DEF IInv, Sound
  <2>2. TypeOK
    BY <2>1 DEF TypeOK, Shape, Phased, Faults
  <2>3. ListenerRefsOK
    <3>1. s.mem = "live" /\ s.frame = "none" => s.refs = One(AliveIn(s))
      BY <2>1 DEF Sound, Lived
    <3> QED
      BY <3>1 DEF ListenerRefsOK, IOAlive, AliveIn, One
  <2>4. EndsOnce
    <3>1. s.closes = One(s.io = "gone") /\ s.faults \subseteq {"stale"}
      BY <2>1 DEF Sound, Counted
    <3>2. One(s.io = "gone") <= 1
      BY DEF One
    <3> QED
      BY <3>1, <3>2 DEF EndsOnce
  <2> QED
    BY <2>2, <2>3, <2>4 DEF ListenerHeld
<1> QED
  BY <1>1, Invariance, PTL

(* No socket of a listener outlives fio_io_start, and nothing of it the    *)
(* process, whatever was suspended or away when the shutdown began.        *)
THEOREM Listener_goes ==
    ASSUME StopWhileRunning = FALSE
    PROVE  Spec => []ListenerGone
<1>1. IInv => ListenerGone
  <2> SUFFICES ASSUME IInv
               PROVE  ListenerGone
    OBVIOUS
  <2>1. Sound(s, "none") /\ s \in Shape /\ Phased(s, phase, stopped)
    BY DEF IInv, Sound
  <2>2. phase \in Resting => s.io_fd = FALSE
    BY <2>1 DEF Sound, Counted, Phased
  <2>3. ReactorClosesListener
    BY <2>1, <2>2 DEF ReactorClosesListener, Phased, Resting
  <2>4. phase = "exited" => s.mem \in {"none", "freed"} /\ s.fd = FALSE
    BY <2>1 DEF Sound, Shape, Lived, Phased
  <2>5. ExitFreesListener
    BY <2>2, <2>4 DEF ExitFreesListener, Resting
  <2> QED
    BY <2>3, <2>5 DEF ListenerGone
<1> QED
  BY <1>1, Invariance, PTL
=============================================================================
