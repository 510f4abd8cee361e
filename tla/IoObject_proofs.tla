--------------------------- MODULE IoObject_proofs --------------------------
(***************************************************************************)
(* One connection in its reactor: its references have owners, its flags    *)
(* tell the truth about the queue and the monitors, and it stays neither   *)
(* deaf nor stuck - for any number of calls of the API, of timeouts and of *)
(* packets, in any order with the events of the peer.                      *)
(***************************************************************************)
EXTENDS IoObject, FiniteSetTheorems, SequenceTheorems, TLAPS

Object ==
    [flags : SUBSET Flag, refs : Nat, tasks : Seq(AnyTask),
     armed : SUBSET {"in", "out"}, stream : Nat, closes : {0, 1}]

PlacesOf(q, S) == {i \in 1 .. Len(q) : q[i] \in S}
Count(q, S) == Cardinality(PlacesOf(q, S))

(* Tasks that will monitor the input again, or notice the output.          *)
Hearing == {"data", "unsuspend", "reattach"}
Sending == {"ready", "close"}

(* What holds of an object with `e` references outside its queue, between  *)
(* any two functions of 402 io types.h that change it.                     *)
Counted(o, e) ==
    o.refs = Count(o.tasks, RefTask) + One(Has(o, "OPEN")) + e

Scheduled(o) ==
    /\ Count(o.tasks, {"ready"}) = One(Has(o, "WRITE_SCHD"))
    /\ Has(o, "DATA_SCHD") => Count(o.tasks, {"data"}) > 0
    /\ Has(o, "TOUCH") => Count(o.tasks, {"touch"}) > 0

Monitored(o, p) ==
    /\ Has(o, "POLLIN_SET") => "in" \in o.armed \/ Count(o.tasks, {"data"}) > 0
    /\ Has(o, "POLLOUT_SET") /\ p = "open" =>
          "out" \in o.armed \/ Count(o.tasks, {"ready"}) > 0

Ended(o) ==
    /\ o.closes = One(o.refs = 0)
    /\ o.refs = 0 => /\ o.armed = {} /\ o.stream = 0
                     /\ ~Has(o, "POLLIN_SET") /\ ~Has(o, "POLLOUT_SET")

Sound(o, e, p) ==
    /\ o \in Object
    /\ Counted(o, e) /\ Scheduled(o) /\ Monitored(o, p) /\ Ended(o)
    /\ Has(o, "OPEN") \/ Has(o, "CLOSE")

Hears(o) ==
    o.refs > 0 /\ o.flags \cap (PreventOnData \cup ClosedAll) = {} =>
        "in" \in o.armed \/ Count(o.tasks, Hearing) > 0

Sends(o) ==
    o.stream > 0 /\ Has(o, "OPEN") =>
        "out" \in o.armed \/ Count(o.tasks, Sending) > 0

(* A change that takes away neither.                                       *)
Keeps(o, r) == (Hears(o) => Hears(r)) /\ (Sends(o) => Sends(r))

(* The references outside the queue: the other thread's, and that of the   *)
(* task whose callback runs.                                               *)
Outside == One(userRef) + One(running \notin {"none", "on_shutdown"})

Surroundings ==
    /\ attached \in BOOLEAN /\ userRef \in BOOLEAN /\ stop \in BOOLEAN
    /\ running \in Callback \cup {"none"}
    /\ phase \in {"work", "ending", "shutdown", "forced", "done"}
    /\ inbox \in BOOLEAN /\ room \in BOOLEAN /\ peer \in {"open", "half", "gone"}
    /\ calls \in 0 .. MaxCalls /\ timeouts \in 0 .. MaxTimeouts
    /\ lost \in Nat /\ abrupt \in BOOLEAN /\ fault \in BOOLEAN

IInv ==
    /\ Surroundings
    /\ Sound(io, Outside, peer)
    /\ running # "none" => Alive
    /\ attached => Hears(io) \/ running \in {"attach", "reattach", "data"}
    /\ peer = "open" => Sends(io)

-----------------------------------------------------------------------------
(* Counting tasks in a queue.                                              *)

LEMMA CountType ==
    ASSUME NEW q \in Seq(AnyTask), NEW S
    PROVE  /\ IsFiniteSet(PlacesOf(q, S)) /\ Count(q, S) \in Nat
           /\ Count(q, S) = 0 <=> PlacesOf(q, S) = {}
<1>1. Len(q) \in Nat
  BY LenProperties
<1>2. IsFiniteSet(1 .. Len(q))
  BY <1>1, FS_Interval
<1>3. IsFiniteSet(PlacesOf(q, S))
  BY <1>2, FS_Subset DEF PlacesOf
<1> QED
  BY <1>3, FS_CardinalityType, FS_EmptySet DEF Count

(* Two queues with the same tasks, but for one that the second has more.   *)
LEMMA CountMoved ==
    ASSUME NEW q \in Seq(AnyTask), NEW S, NEW T, NEW d \in {0, 1},
           T = {i + d : i \in PlacesOf(q, S)}
    PROVE  IsFiniteSet(T) /\ Cardinality(T) = Count(q, S)
<1>1. IsFiniteSet(PlacesOf(q, S))
  BY CountType
<1> DEFINE f == [i \in PlacesOf(q, S) |-> i + d]
<1>2. \A i \in PlacesOf(q, S) : i \in Int
  BY LenProperties DEF PlacesOf
<1>3. f \in Bijection(PlacesOf(q, S), T)
  <2>1. f \in Injection(PlacesOf(q, S), T)
    BY <1>2 DEF Injection, IsInjective
  <2>2. f \in Surjection(PlacesOf(q, S), T)
    BY DEF Surjection
  <2> QED
    BY <2>1, <2>2 DEF Bijection
<1> QED
  BY <1>1, <1>3, FS_Bijection DEF Count, ExistsBijection

LEMMA CountAppend ==
    ASSUME NEW q \in Seq(AnyTask), NEW t \in AnyTask
    PROVE  /\ Append(q, t) \in Seq(AnyTask)
           /\ \A S : Count(Append(q, t), S) = Count(q, S) + One(t \in S)
<1>1. /\ Append(q, t) \in Seq(AnyTask) /\ Len(q) \in Nat
      /\ Len(Append(q, t)) = Len(q) + 1
      /\ Append(q, t)[Len(q) + 1] = t
      /\ \A i \in 1 .. Len(q) : Append(q, t)[i] = q[i]
  BY AppendProperties, LenProperties
<1>2. ASSUME NEW S
      PROVE  Count(Append(q, t), S) = Count(q, S) + One(t \in S)
  <2>1. /\ IsFiniteSet(PlacesOf(q, S)) /\ Count(q, S) \in Nat
        /\ Len(q) + 1 \notin PlacesOf(q, S)
    BY <1>1, CountType DEF PlacesOf
  <2>2. CASE t \in S
    <3>1. PlacesOf(Append(q, t), S) = PlacesOf(q, S) \cup {Len(q) + 1}
      BY <1>1, <2>2 DEF PlacesOf
    <3> QED
      BY <2>1, <2>2, <3>1, FS_AddElement DEF Count, One
  <2>3. CASE t \notin S
    <3>1. PlacesOf(Append(q, t), S) = PlacesOf(q, S)
      BY <1>1, <2>3 DEF PlacesOf
    <3> QED
      BY <2>1, <2>3, <3>1 DEF Count, One
  <2> QED
    BY <2>2, <2>3
<1> QED
  BY <1>1, <1>2

LEMMA CountTail ==
    ASSUME NEW q \in Seq(AnyTask), q # <<>>
    PROVE  /\ Tail(q) \in Seq(AnyTask) /\ Head(q) \in AnyTask
           /\ \A S : Count(q, S) = Count(Tail(q), S) + One(Head(q) \in S)
<1>1. /\ Tail(q) \in Seq(AnyTask) /\ Head(q) \in AnyTask /\ Head(q) = q[1]
      /\ Len(q) \in Nat \ {0} /\ Len(Tail(q)) = Len(q) - 1
      /\ \A i \in 1 .. Len(Tail(q)) : Tail(q)[i] = q[i + 1]
  BY HeadTailProperties, EmptySeq, LenProperties
<1>2. ASSUME NEW S
      PROVE  Count(q, S) = Count(Tail(q), S) + One(Head(q) \in S)
  <2> DEFINE T == {i + 1 : i \in PlacesOf(Tail(q), S)}
  <2>1. IsFiniteSet(T) /\ Cardinality(T) = Count(Tail(q), S)
    BY <1>1, CountMoved
  <2>2. 1 \notin T
    BY <1>1 DEF PlacesOf
  <2>3. \A j : j \in T <=> j \in PlacesOf(q, S) /\ j # 1
    <3>1. \A i \in 1 .. Len(q) - 1 : i + 1 \in 2 .. Len(q)
      BY <1>1
    <3>2. ASSUME NEW j \in 2 .. Len(q)
          PROVE  j - 1 \in 1 .. Len(q) - 1 /\ (j - 1) + 1 = j
      BY <1>1
    <3>3. ASSUME NEW j \in T
          PROVE  j \in PlacesOf(q, S) /\ j # 1
      BY <1>1, <3>1 DEF PlacesOf
    <3>4. ASSUME NEW j \in PlacesOf(q, S), j # 1
          PROVE  j \in T
      <4>1. j \in 2 .. Len(q) /\ q[j] \in S
        BY <1>1, <3>4 DEF PlacesOf
      <4>2. PICK i : i = j - 1
        OBVIOUS
      <4>3. i \in 1 .. Len(Tail(q)) /\ i + 1 = j /\ Tail(q)[i] = q[j]
        BY <1>1, <3>2, <4>1, <4>2
      <4> QED
        BY <4>1, <4>3 DEF PlacesOf
    <3> QED
      BY <3>3, <3>4
  <2> HIDE DEF T
  <2>4. CASE Head(q) \in S
    <3>1. PlacesOf(q, S) = T \cup {1}
      BY <1>1, <2>3, <2>4 DEF PlacesOf
    <3> QED
      BY <2>1, <2>2, <2>4, <3>1, FS_AddElement DEF Count, One
  <2>5. CASE Head(q) \notin S
    <3>1. PlacesOf(q, S) = T
      BY <1>1, <2>3, <2>5 DEF PlacesOf
    <3> QED
      BY <2>1, <2>5, <3>1, CountType, <1>1 DEF Count, One
  <2> QED
    BY <2>4, <2>5
<1> QED
  BY <1>1, <1>2

(* A task that jumps the queue.                                            *)
LEMMA CountCons ==
    ASSUME NEW q \in Seq(AnyTask), NEW t \in AnyTask
    PROVE  /\ <<t>> \o q \in Seq(AnyTask)
           /\ \A S : Count(<<t>> \o q, S) = Count(q, S) + One(t \in S)
<1>1. <<t>> \in Seq(AnyTask) /\ <<t>> \o q \in Seq(AnyTask)
  BY ConcatProperties
<1>2. Len(<<t>> \o q) = 1 + Len(q) /\ Len(q) \in Nat
  BY <1>1, ConcatProperties, LenProperties
<1>3. <<t>> \o q # <<>>
  BY <1>1, <1>2, EmptySeq
<1>4. Head(<<t>> \o q) = t /\ Tail(<<t>> \o q) = q
  <2>1. /\ Head(<<t>> \o q) = t /\ Tail(<<t>> \o q) \in Seq(AnyTask)
        /\ Len(Tail(<<t>> \o q)) = Len(q)
        /\ \A i \in 1 .. Len(q) : Tail(<<t>> \o q)[i] = (<<t>> \o q)[i + 1]
    BY <1>1, <1>2, <1>3, HeadTailProperties, ConcatProperties
  <2>2. \A i \in 1 .. Len(q) : (<<t>> \o q)[i + 1] = q[i]
    BY <1>1, <1>2, ConcatProperties
  <2> QED
    BY <2>1, <2>2, SeqEqual
<1> QED
  BY <1>1, <1>3, <1>4, CountTail

-----------------------------------------------------------------------------
(* The functions of the object.                                            *)

(* A task more of a kind, for the kinds that matter.                       *)
LEMMA Pushed ==
    ASSUME NEW q \in Seq(AnyTask), NEW t \in RefTask, NEW r,
           r = Append(q, t) \/ r = <<t>> \o q
    PROVE  /\ r \in Seq(AnyTask)
           /\ Count(r, RefTask) = Count(q, RefTask) + 1
           /\ Count(r, {"ready"}) = Count(q, {"ready"}) + One(t = "ready")
           /\ \A S : Count(q, S) \in Nat /\ Count(r, S) \in Nat
           /\ \A S : Count(q, S) > 0 \/ t \in S => Count(r, S) > 0
<1>1. t \in AnyTask
  BY DEF AnyTask
<1>2. /\ r \in Seq(AnyTask)
      /\ \A S : Count(r, S) = Count(q, S) + One(t \in S)
  <2>1. CASE r = Append(q, t)
    BY <1>1, <2>1, CountAppend
  <2>2. CASE r = <<t>> \o q
    BY <1>1, <2>2, CountCons
  <2> QED
    BY <2>1, <2>2
<1>3. \A S : Count(q, S) \in Nat
  BY CountType
<1>4. One(t \in {"ready"}) = One(t = "ready")
  BY DEF One
<1>5. ASSUME NEW S
      PROVE  /\ Count(q, S) \in Nat /\ Count(r, S) \in Nat
             /\ Count(q, S) > 0 \/ t \in S => Count(r, S) > 0
  <2>1. Count(r, S) = Count(q, S) + One(t \in S) /\ Count(q, S) \in Nat
    BY <1>2, <1>3
  <2> QED
    BY <2>1 DEF One
<1>6. Count(r, RefTask) = Count(q, RefTask) + 1
  BY <1>2 DEF One
<1>7. Count(r, {"ready"}) = Count(q, {"ready"}) + One(t = "ready")
  BY <1>2, <1>4
<1> QED
  BY <1>2, <1>5, <1>6, <1>7

(* A queue that holds a task of a kind.                                    *)
LEMMA CountWithin ==
    ASSUME NEW q \in Seq(AnyTask), NEW S, NEW T, S \subseteq T
    PROVE  /\ Count(q, S) \in Nat /\ Count(q, T) \in Nat
           /\ Count(q, S) > 0 => Count(q, T) > 0
<1>1. PlacesOf(q, S) \subseteq PlacesOf(q, T)
  BY DEF PlacesOf
<1> QED
  BY <1>1, CountType

(* The kinds, and what is in them.                                         *)
LEMMA Kinds ==
    /\ {"ready", "data", "touch", "close", "free", "write"} \subseteq RefTask
    /\ {"attach", "reattach", "timeout"} \subseteq RefTask
    /\ RefTask \subseteq AnyTask /\ "unsuspend" \in AnyTask /\ "tick" \in AnyTask
    /\ "unsuspend" \notin RefTask /\ "tick" \notin RefTask
    /\ {"ready"} \subseteq Sending /\ {"close"} \subseteq Sending
    /\ {"data"} \subseteq Hearing
BY DEF RefTask, AnyTask, Callback, Sending, Hearing

LEMMA SoundTypes ==
    ASSUME NEW o, NEW e \in Nat, NEW p, Sound(o, e, p)
    PROVE  /\ o \in Object /\ o.flags \subseteq Flag /\ o.refs \in Nat
           /\ o.tasks \in Seq(AnyTask) /\ o.stream \in Nat
           /\ \A S : Count(o.tasks, S) \in Nat
           /\ e > 0 => o.refs > 0
           /\ Has(o, "OPEN") => o.refs > 0
           /\ Count(o.tasks, RefTask) > 0 => o.refs > 0
<1>1. o \in Object
  BY DEF Sound
<1>2. /\ o.flags \subseteq Flag /\ o.refs \in Nat
      /\ o.tasks \in Seq(AnyTask) /\ o.stream \in Nat
  BY <1>1 DEF Object
<1>3. \A S : Count(o.tasks, S) \in Nat
  BY <1>2, CountType
<1>4. Count(o.tasks, RefTask) \in Nat /\ One(Has(o, "OPEN")) \in {0, 1}
  BY <1>3 DEF One
<1>5. o.refs = Count(o.tasks, RefTask) + One(Has(o, "OPEN")) + e
  BY DEF Sound, Counted
<1>6. Has(o, "OPEN") => One(Has(o, "OPEN")) = 1
  BY DEF One
<1> QED
  BY <1>1, <1>2, <1>3, <1>4, <1>5, <1>6

(* What the smallest changes leave of an object.                           *)
LEMMA FlagFields ==
    ASSUME NEW o \in Object, NEW f \in SUBSET Flag, NEW d, d = [o EXCEPT !.flags = f]
    PROVE  /\ d \in Object /\ d.flags = f /\ d.refs = o.refs /\ d.tasks = o.tasks
           /\ d.armed = o.armed /\ d.stream = o.stream /\ d.closes = o.closes
BY DEF Object

LEMMA DeferFields ==
    ASSUME NEW o \in Object, NEW t \in AnyTask, NEW d, d = Defer(o, t)
    PROVE  /\ d \in Object /\ d.flags = o.flags /\ d.refs = o.refs + 1
           /\ d.tasks = Append(o.tasks, t) /\ Append(o.tasks, t) \in Seq(AnyTask)
           /\ d.armed = o.armed /\ d.stream = o.stream /\ d.closes = o.closes
<1>1. o.tasks \in Seq(AnyTask) /\ o.refs \in Nat
  BY DEF Object
<1>2. PICK n \in Nat : n = o.refs + 1
  BY <1>1
<1>3. PICK r \in Seq(AnyTask) : r = Append(o.tasks, t)
  BY <1>1, AppendProperties
<1>4. d = [o EXCEPT !.refs = n, !.tasks = r]
  BY <1>2, <1>3 DEF Defer
<1> QED
  BY <1>1, <1>2, <1>3, <1>4 DEF Object

(* A task that owns a reference was deferred.                              *)
LEMMA DeferSound ==
    ASSUME NEW o, NEW e \in Nat, NEW p, Sound(o, e, p), o.refs > 0,
           NEW t \in RefTask \ {"ready"}
    PROVE  /\ Sound(Defer(o, t), e, p) /\ Keeps(o, Defer(o, t))
           /\ Defer(o, t).refs > 0 /\ Count(Defer(o, t).tasks, {t}) > 0
           /\ t \in Hearing => Hears(Defer(o, t))
           /\ t \in Sending => Sends(Defer(o, t))
<1> DEFINE q == o.tasks
           r == Append(q, t)
           d == Defer(o, t)
<1>1. /\ o \in Object /\ q \in Seq(AnyTask) /\ o.refs \in Nat
      /\ \A S : Count(q, S) \in Nat
  BY SoundTypes
<1>2. /\ r \in Seq(AnyTask)
      /\ Count(r, RefTask) = Count(q, RefTask) + 1
      /\ Count(r, {"ready"}) = Count(q, {"ready"}) + One(t = "ready")
      /\ \A S : Count(q, S) \in Nat /\ Count(r, S) \in Nat
      /\ \A S : Count(q, S) > 0 \/ t \in S => Count(r, S) > 0
  <2>1. q \in Seq(AnyTask) /\ r = Append(q, t)
    BY <1>1
  <2> HIDE DEF q, r
  <2> QED
    BY <2>1, Pushed
<1>3. Count(r, {"ready"}) = Count(q, {"ready"})
  <2>1. Count(q, {"ready"}) \in Nat /\ One(t = "ready") = 0
    BY <1>2 DEF One
  <2> QED
    BY <1>2, <2>1
<1> HIDE DEF r, q
<1>4. /\ d \in Object /\ d.flags = o.flags /\ d.refs = o.refs + 1
      /\ d.tasks = r /\ d.armed = o.armed /\ d.stream = o.stream
      /\ d.closes = o.closes
  BY <1>1, DeferFields, Kinds DEF q, r
<1> HIDE DEF d
<1>5. o.tasks = q
  BY DEF q
<1>6. Counted(d, e)
  BY <1>1, <1>2, <1>4, <1>5 DEF Sound, Counted, Has, One
<1>7. Scheduled(d) /\ Monitored(d, p)
  <2>1. Scheduled(d)
    BY <1>2, <1>3, <1>4, <1>5 DEF Sound, Scheduled, Has
  <2>2. Monitored(d, p)
    BY <1>2, <1>3, <1>4, <1>5 DEF Sound, Monitored, Has
  <2> QED
    BY <2>1, <2>2
<1>8. Ended(d) /\ (Has(d, "OPEN") \/ Has(d, "CLOSE")) /\ d.refs > 0
  BY <1>1, <1>4 DEF Sound, Ended, Has, One
<1>9. /\ Keeps(o, d)
      /\ t \in Hearing => Hears(d)
      /\ t \in Sending => Sends(d)
  <2>2. /\ Count(q, Hearing) > 0 => Count(r, Hearing) > 0
        /\ Count(q, Sending) > 0 => Count(r, Sending) > 0
    BY <1>2
  <2>3. Hears(o) => Hears(d)
    BY <1>4, <1>5, <2>2 DEF Hears
  <2>4. Sends(o) => Sends(d)
    BY <1>4, <1>5, <2>2 DEF Sends, Has
  <2>5. t \in Hearing => Hears(d)
    BY <1>2, <1>4 DEF Hears
  <2>6. t \in Sending => Sends(d)
    BY <1>2, <1>4 DEF Sends
  <2> QED
    BY <2>3, <2>4, <2>5, <2>6 DEF Keeps
<1>10. Count(d.tasks, {t}) > 0
  BY <1>2, <1>4
<1> QED
  BY <1>4, <1>6, <1>7, <1>8, <1>9, <1>10 DEF Sound, d

(* on_ready is scheduled, once.                                            *)
LEMMA ReadySound ==
    ASSUME NEW o, NEW e \in Nat, NEW p, Sound(o, e, p), o.refs > 0
    PROVE  /\ Sound(ScheduleReady(o), e, p) /\ Keeps(o, ScheduleReady(o))
           /\ ScheduleReady(o).refs > 0 /\ Sends(ScheduleReady(o))
           /\ Count(ScheduleReady(o).tasks, {"ready"}) > 0
<1> DEFINE q == o.tasks
           r == Append(q, "ready")
           d == ScheduleReady(o)
<1>1. /\ o \in Object /\ q \in Seq(AnyTask) /\ o.refs \in Nat
      /\ o.flags \subseteq Flag
      /\ \A S : Count(q, S) \in Nat
  BY SoundTypes
<1>2. CASE Has(o, "WRITE_SCHD")
  <2>1. d = o
    BY <1>2 DEF ScheduleReady
  <2>2. Count(q, {"ready"}) > 0
    BY <1>2 DEF Sound, Scheduled, One
  <2>3. Count(q, Sending) > 0
    BY <1>1, <2>2, CountWithin, Kinds
  <2> HIDE DEF d
  <2>4. Sends(o) /\ Keeps(o, o)
    BY <2>3 DEF Sends, Keeps
  <2> QED
    BY <2>1, <2>2, <2>4 DEF d
<1>3. CASE ~Has(o, "WRITE_SCHD")
  <2>1. /\ r \in Seq(AnyTask)
        /\ Count(r, RefTask) = Count(q, RefTask) + 1
        /\ Count(r, {"ready"}) = Count(q, {"ready"}) + 1
        /\ \A S : Count(q, S) \in Nat /\ Count(r, S) \in Nat
        /\ \A S : Count(q, S) > 0 \/ "ready" \in S => Count(r, S) > 0
    <3>1. PICK x \in RefTask : x = "ready"
      BY Kinds
    <3>2. q \in Seq(AnyTask) /\ r = Append(q, x)
      BY <1>1, <3>1
    <3> HIDE DEF q, r
    <3>3. One(x = "ready") = 1
      BY <3>1 DEF One
    <3>4. /\ r \in Seq(AnyTask)
          /\ Count(r, RefTask) = Count(q, RefTask) + 1
          /\ Count(r, {"ready"}) = Count(q, {"ready"}) + One(x = "ready")
          /\ \A S : Count(q, S) \in Nat /\ Count(r, S) \in Nat
          /\ \A S : Count(q, S) > 0 \/ x \in S => Count(r, S) > 0
      BY <3>2, Pushed
    <3> QED
      BY <3>1, <3>3, <3>4
  <2>2. Count(q, {"ready"}) = 0
    BY <1>3 DEF Sound, Scheduled, One
  <2>3. Count(r, {"ready"}) = 1
    BY <2>1, <2>2
  <2> HIDE DEF r, q
  <2>4. /\ d \in Object /\ d.flags = o.flags \cup {"WRITE_SCHD"}
        /\ d.refs = o.refs + 1 /\ d.tasks = r /\ d.armed = o.armed
        /\ d.stream = o.stream /\ d.closes = o.closes
    <3>1. PICK f \in SUBSET Flag : f = o.flags \cup {"WRITE_SCHD"}
      BY <1>1 DEF Flag
    <3>2. PICK s : s = [o EXCEPT !.flags = f]
      OBVIOUS
    <3>3. d = Defer(s, "ready")
      BY <1>3, <3>1, <3>2 DEF ScheduleReady, Set
    <3>4. /\ s \in Object /\ s.flags = f /\ s.refs = o.refs /\ s.tasks = o.tasks
          /\ s.armed = o.armed /\ s.stream = o.stream /\ s.closes = o.closes
      BY <1>1, <3>2 DEF Object
    <3>5. PICK x \in AnyTask : x = "ready"
      BY Kinds
    <3> HIDE DEF d
    <3>6. d = Defer(s, x)
      BY <3>3, <3>5
    <3> QED
      BY <3>1, <3>4, <3>5, <3>6, DeferFields DEF q, r
  <2> HIDE DEF d
  <2>5. o.tasks = q
    BY DEF q
  <2>6. Counted(d, e)
    BY <1>1, <2>1, <2>4, <2>5 DEF Sound, Counted, Has, One
  <2>7. Scheduled(d) /\ Monitored(d, p)
    <3>1. Scheduled(d)
      BY <2>1, <2>3, <2>4, <2>5 DEF Sound, Scheduled, Has, One
    <3>2. Monitored(d, p)
      BY <2>1, <2>3, <2>4, <2>5 DEF Sound, Monitored, Has
    <3> QED
      BY <3>1, <3>2
  <2>8. Ended(d) /\ (Has(d, "OPEN") \/ Has(d, "CLOSE")) /\ d.refs > 0
    BY <1>1, <2>4 DEF Sound, Ended, Has, One
  <2>9. Keeps(o, d) /\ Sends(d)
    <3>2. /\ Count(q, Hearing) > 0 => Count(r, Hearing) > 0
          /\ Count(r, Sending) > 0
      BY <2>1 DEF Sending
    <3>3. o.flags \subseteq d.flags
      BY <2>4
    <3>4. Hears(o) => Hears(d)
      BY <2>4, <2>5, <3>2, <3>3 DEF Hears
    <3>5. Sends(d)
      BY <2>4, <3>2 DEF Sends
    <3> QED
      BY <3>4, <3>5 DEF Keeps
  <2>10. Count(d.tasks, {"ready"}) > 0
    BY <2>3, <2>4
  <2> QED
    BY <2>4, <2>6, <2>7, <2>8, <2>9, <2>10 DEF Sound, d
<1> QED
  BY <1>2, <1>3

(* Flags that stand for no reference, task or monitor come and go.         *)
LEMMA FlagsSound ==
    ASSUME NEW o, NEW e \in Nat, NEW p, Sound(o, e, p),
           NEW f \in SUBSET Flag, NEW d, d = [o EXCEPT !.flags = f],
           "OPEN" \in f <=> Has(o, "OPEN"),
           "WRITE_SCHD" \in f <=> Has(o, "WRITE_SCHD"),
           f \cap {"DATA_SCHD", "TOUCH", "POLLIN_SET", "POLLOUT_SET"} \subseteq o.flags,
           "OPEN" \in f \/ "CLOSE" \in f
    PROVE  /\ Sound(d, e, p) /\ d.flags = f /\ d.refs = o.refs /\ d.stream = o.stream
           /\ Sends(o) => Sends(d)
           /\ o.flags \cap (PreventOnData \cup ClosedAll) \subseteq f => Keeps(o, d)
<1>1. o \in Object
  BY DEF Sound
<1>2. /\ d \in Object /\ d.flags = f /\ d.refs = o.refs /\ d.tasks = o.tasks
      /\ d.armed = o.armed /\ d.stream = o.stream /\ d.closes = o.closes
  BY <1>1, FlagFields
<1>3. Counted(d, e) /\ Scheduled(d)
  BY <1>2 DEF Sound, Counted, Scheduled, Has, One
<1>4. Monitored(d, p) /\ Ended(d)
  BY <1>2 DEF Sound, Monitored, Ended, Has
<1>5. Sends(o) => Sends(d)
  BY <1>2 DEF Sends, Has
<1>6. ASSUME o.flags \cap (PreventOnData \cup ClosedAll) \subseteq f
      PROVE  Keeps(o, d)
  BY <1>2, <1>5, <1>6 DEF Keeps, Hears
<1> QED
  BY <1>2, <1>3, <1>4, <1>5, <1>6 DEF Sound, Has

(* fio___io_monitor_in leaves the object listening.                        *)
LEMMA MonitorInSound ==
    ASSUME NEW o, NEW e \in Nat, NEW p, Sound(o, e, p), o.refs > 0
    PROVE  /\ Sound(MonitorIn(o), e, p) /\ MonitorIn(o).refs > 0
           /\ Hears(MonitorIn(o)) /\ (Sends(o) => Sends(MonitorIn(o)))
<1> DEFINE d == MonitorIn(o)
<1>1. o \in Object
  BY DEF Sound
<1>2. CASE o.flags \cap (PreventOnData \cup ClosedAll) # {}
  <2>1. d = o
    BY <1>2 DEF MonitorIn
  <2> QED
    BY <1>2, <2>1 DEF Hears
<1>3. CASE o.flags \cap (PreventOnData \cup ClosedAll) = {} /\ Has(o, "POLLIN_SET")
  <2>1. d = o
    BY <1>3 DEF MonitorIn, Has
  <2>2. "in" \in o.armed \/ Count(o.tasks, {"data"}) > 0
    BY <1>3 DEF Sound, Monitored
  <2>3. o.tasks \in Seq(AnyTask) /\ {"data"} \subseteq Hearing
    BY <1>1, Kinds DEF Object
  <2>4. "in" \in o.armed \/ Count(o.tasks, Hearing) > 0
    BY <2>2, <2>3, CountWithin
  <2> QED
    BY <2>1, <2>4 DEF Hears
<1>4. CASE o.flags \cap (PreventOnData \cup ClosedAll \cup {"POLLIN_SET"}) = {}
  <2>1. PICK f \in SUBSET Flag : f = o.flags \cup {"POLLIN_SET"}
    BY <1>1 DEF Object, Flag
  <2>2. PICK a \in SUBSET {"in", "out"} : a = o.armed \cup {"in"}
    BY <1>1 DEF Object
  <2>3. d = [o EXCEPT !.flags = f, !.armed = a]
    BY <1>4, <2>1, <2>2, <1>1 DEF MonitorIn, Set, Object
  <2> HIDE DEF d
  <2>4. /\ d \in Object /\ d.flags = f /\ d.refs = o.refs /\ d.tasks = o.tasks
        /\ d.armed = a /\ d.stream = o.stream /\ d.closes = o.closes
    BY <1>1, <2>3 DEF Object
  <2>5. Counted(d, e) /\ Scheduled(d)
    BY <2>1, <2>4 DEF Sound, Counted, Scheduled, Has, One
  <2>6. Monitored(d, p)
    BY <2>1, <2>2, <2>4 DEF Sound, Monitored, Has
  <2>7. Ended(d)
    BY <2>4, <1>1 DEF Sound, Ended, Object
  <2>8. Hears(d) /\ (Sends(o) => Sends(d)) /\ (Has(d, "OPEN") \/ Has(d, "CLOSE"))
    BY <2>1, <2>2, <2>4 DEF Hears, Sends, Has, Sound
  <2> QED
    BY <2>4, <2>5, <2>6, <2>7, <2>8 DEF Sound, d
<1> QED
  BY <1>2, <1>3, <1>4 DEF Has

(* fio___io_monitor_out leaves it noticing that it can write.              *)
LEMMA MonitorOutSound ==
    ASSUME NEW o, NEW e \in Nat, NEW p, Sound(o, e, p), o.refs > 0
    PROVE  /\ Sound(MonitorOut(o), e, p) /\ MonitorOut(o).refs > 0
           /\ Keeps(o, MonitorOut(o))
           /\ p = "open" => Sends(MonitorOut(o))
<1> DEFINE d == MonitorOut(o)
<1>1. o \in Object
  BY DEF Sound
<1>2. CASE o.flags \cap {"WRITE_SCHD", "POLLOUT_SET"} # {}
  <2>1. d = o
    BY <1>2 DEF MonitorOut
  <2>2. p = "open" => "out" \in o.armed \/ Count(o.tasks, {"ready"}) > 0
    BY <1>2 DEF Sound, Scheduled, Monitored, Has, One
  <2>3. o.tasks \in Seq(AnyTask) /\ {"ready"} \subseteq Sending
    BY <1>1, Kinds DEF Object
  <2>4. p = "open" => "out" \in o.armed \/ Count(o.tasks, Sending) > 0
    BY <2>2, <2>3, CountWithin
  <2> HIDE DEF d
  <2>5. Keeps(o, d) /\ (p = "open" => Sends(d))
    BY <2>1, <2>4 DEF Keeps, Sends
  <2> QED
    BY <2>1, <2>5 DEF d
<1>3. CASE o.flags \cap {"WRITE_SCHD", "POLLOUT_SET"} = {}
  <2>1. PICK f \in SUBSET Flag : f = o.flags \cup {"POLLOUT_SET"}
    BY <1>1 DEF Object, Flag
  <2>2. PICK a \in SUBSET {"in", "out"} : a = o.armed \cup {"out"}
    BY <1>1 DEF Object
  <2>3. d = [o EXCEPT !.flags = f, !.armed = a]
    BY <1>3, <2>1, <2>2, <1>1 DEF MonitorOut, Set, Object
  <2> HIDE DEF d
  <2>4. /\ d \in Object /\ d.flags = f /\ d.refs = o.refs /\ d.tasks = o.tasks
        /\ d.armed = a /\ d.stream = o.stream /\ d.closes = o.closes
    BY <1>1, <2>3 DEF Object
  <2>5. Counted(d, e) /\ Scheduled(d)
    BY <2>1, <2>4 DEF Sound, Counted, Scheduled, Has, One
  <2>6. Monitored(d, p)
    BY <2>1, <2>2, <2>4 DEF Sound, Monitored, Has
  <2>7. Ended(d)
    BY <2>4, <1>1 DEF Sound, Ended, Object
  <2>8. Sends(d) /\ (Hears(o) => Hears(d)) /\ (Has(d, "OPEN") \/ Has(d, "CLOSE"))
    BY <2>1, <2>2, <2>4 DEF Hears, Sends, Has, Sound
  <2> QED
    BY <2>4, <2>5, <2>6, <2>7, <2>8 DEF Sound, Keeps, d
<1> QED
  BY <1>2, <1>3

(* fio___io_free2: a reference that was outside the queue is gone, and the *)
(* object with it when there is no other.                                  *)
LEMMA Free2Sound ==
    ASSUME NEW o, NEW e \in Nat, NEW p, Sound(o, e + 1, p)
    PROVE  Sound(Free2(o), e, p) /\ Keeps(o, Free2(o))
<1> DEFINE d == Free2(o)
<1>1. /\ o \in Object /\ o.refs \in Nat /\ o.refs > 0
      /\ \A S : Count(o.tasks, S) \in Nat
  BY SoundTypes
<1>2. o.refs = Count(o.tasks, RefTask) + One(Has(o, "OPEN")) + (e + 1)
  BY DEF Sound, Counted
<1>3. One(Has(o, "OPEN")) \in {0, 1} /\ Count(o.tasks, RefTask) \in Nat
  BY <1>1 DEF One
<1>4. CASE o.refs > 1
  <2>1. PICK n \in Nat : n = o.refs - 1
    BY <1>1, <1>4
  <2>2. d = [o EXCEPT !.refs = n]
    BY <1>4, <2>1 DEF Free2
  <2> HIDE DEF d
  <2>3. /\ d \in Object /\ d.flags = o.flags /\ d.refs = n /\ d.tasks = o.tasks
        /\ d.armed = o.armed /\ d.stream = o.stream /\ d.closes = o.closes
    BY <1>1, <2>2 DEF Object
  <2>4. Counted(d, e)
    BY <1>1, <1>2, <1>3, <2>1, <2>3 DEF Counted, Has
  <2>5. Scheduled(d) /\ Monitored(d, p)
    BY <2>3 DEF Sound, Scheduled, Monitored, Has
  <2>6. n > 0
    BY <1>1, <1>4, <2>1
  <2>7. Ended(d)
    BY <1>1, <2>3, <2>6 DEF Sound, Ended, One
  <2>8. Keeps(o, d) /\ (Has(d, "OPEN") \/ Has(d, "CLOSE"))
    BY <1>1, <2>3 DEF Keeps, Hears, Sends, Has, Sound
  <2> QED
    BY <2>3, <2>4, <2>5, <2>7, <2>8 DEF Sound, d
<1>5. CASE ~(o.refs > 1)
  <2>1. /\ e = 0 /\ Count(o.tasks, RefTask) = 0 /\ One(Has(o, "OPEN")) = 0
    BY <1>1, <1>2, <1>3, <1>5
  <2>2. ~Has(o, "OPEN")
    BY <2>1 DEF One
  <2>3. o.closes = 0
    BY <1>1 DEF Sound, Ended, One
  <2>4. PICK f \in SUBSET Flag : f = o.flags \ {"POLLIN_SET", "POLLOUT_SET"}
    BY <1>1 DEF Object
  <2>p. PICK s : s = [o EXCEPT !.flags = f]
    OBVIOUS
  <2>s. /\ s \in Object /\ s.flags = f /\ s.tasks = o.tasks /\ s.closes = 0
    BY <1>1, <2>3, <2>p DEF Object
  <2>5. d = [s EXCEPT !.refs = 0, !.closes = 1, !.armed = {}, !.stream = 0]
    <3>1. Unset(o, {"POLLIN_SET", "POLLOUT_SET"}) = s
      BY <2>4, <2>p DEF Unset
    <3>2. d = [s EXCEPT !.refs = 0, !.closes = s.closes + 1, !.armed = {}, !.stream = 0]
      BY <1>5, <3>1 DEF Free2
    <3> QED
      BY <2>s, <3>2
  <2> HIDE DEF d
  <2>6. /\ d \in Object /\ d.flags = f /\ d.refs = 0 /\ d.tasks = o.tasks
        /\ d.armed = {} /\ d.stream = 0 /\ d.closes = 1
    BY <2>s, <2>5 DEF Object
  <2>7. Counted(d, e)
    BY <2>1, <2>2, <2>4, <2>6 DEF Counted, Has, One
  <2>8. Scheduled(d) /\ Monitored(d, p) /\ Ended(d)
    BY <2>4, <2>6 DEF Sound, Scheduled, Monitored, Ended, Has, One
  <2>9. Keeps(o, d) /\ (Has(d, "OPEN") \/ Has(d, "CLOSE"))
    BY <2>4, <2>6 DEF Keeps, Hears, Sends, Has, Sound
  <2> QED
    BY <2>6, <2>7, <2>8, <2>9 DEF Sound, d
<1> QED
  BY <1>4, <1>5

(* fio___io_free_with_flush *)
LEMMA FreeWithFlushSound ==
    ASSUME NEW o, NEW e \in Nat, NEW p, Sound(o, e + 1, p)
    PROVE  Sound(FreeWithFlush(o), e, p) /\ Keeps(o, FreeWithFlush(o))
<1>1. e + 1 \in Nat /\ o \in Object /\ o.refs > 0
  BY SoundTypes
<1>2. CASE ~Has(o, "WRITE_DIRTY")
  <2>1. FreeWithFlush(o) = Free2(o)
    BY <1>2 DEF FreeWithFlush
  <2> QED
    BY <2>1, Free2Sound
<1>3. CASE Has(o, "WRITE_DIRTY")
  <2>1. PICK f \in SUBSET Flag : f = o.flags \ {"WRITE_DIRTY"}
    BY <1>1 DEF Object
  <2>2. PICK s : s = [o EXCEPT !.flags = f]
    OBVIOUS
  <2>3. Unset(o, {"WRITE_DIRTY"}) = s
    BY <2>1, <2>2 DEF Unset
  <2>4. Sound(s, e + 1, p) /\ Keeps(o, s) /\ s.refs > 0
    <3>1. "OPEN" \in f \/ "CLOSE" \in f
      BY <2>1 DEF Sound, Has
    <3>2. /\ "OPEN" \in f <=> Has(o, "OPEN")
          /\ "WRITE_SCHD" \in f <=> Has(o, "WRITE_SCHD")
          /\ f \cap {"DATA_SCHD", "TOUCH", "POLLIN_SET", "POLLOUT_SET"} \subseteq o.flags
          /\ o.flags \cap (PreventOnData \cup ClosedAll) \subseteq f
      BY <2>1 DEF Has, PreventOnData, ClosedAll
    <3> QED
      BY <1>1, <2>2, <3>1, <3>2, FlagsSound
  <2>5. PICK r : r = ScheduleReady(s)
    OBVIOUS
  <2>6. Sound(r, e + 1, p) /\ Keeps(s, r)
    BY <1>1, <2>4, <2>5, ReadySound
  <2>7. FreeWithFlush(o) = Free2(r)
    BY <1>3, <2>3, <2>5 DEF FreeWithFlush
  <2>8. Sound(Free2(r), e, p) /\ Keeps(r, Free2(r))
    BY <2>6, Free2Sound
  <2> QED
    BY <2>4, <2>6, <2>7, <2>8 DEF Keeps
<1> QED
  BY <1>2, <1>3

(* fio_io_free: what was outside is handed to a task.                      *)
LEMMA FreeLaterSound ==
    ASSUME NEW o, NEW e \in Nat, NEW p, Sound(o, e + 1, p)
    PROVE  /\ Sound(FreeLater(o), e, p) /\ Keeps(o, FreeLater(o))
           /\ FreeLater(o).refs > 0
<1> DEFINE q == o.tasks
           r == Append(q, "free")
           d == FreeLater(o)
<1>1. /\ o \in Object /\ q \in Seq(AnyTask) /\ o.refs \in Nat /\ o.refs > 0
      /\ e + 1 \in Nat
  BY SoundTypes
<1>2. d = [o EXCEPT !.tasks = r]
  BY DEF FreeLater
<1>3. o.tasks = q
  OBVIOUS
<1>4. PICK x \in RefTask : x = "free"
  BY Kinds
<1>5. r = Append(q, x)
  BY <1>4
<1> HIDE DEF d, r, q
<1>6. /\ r \in Seq(AnyTask)
      /\ Count(r, RefTask) = Count(q, RefTask) + 1
      /\ Count(r, {"ready"}) = Count(q, {"ready"}) + One(x = "ready")
      /\ \A S : Count(q, S) \in Nat /\ Count(r, S) \in Nat
      /\ \A S : Count(q, S) > 0 \/ x \in S => Count(r, S) > 0
  BY <1>1, <1>5, Pushed
<1>7. Count(r, {"ready"}) = Count(q, {"ready"})
  <2>1. One(x = "ready") = 0 /\ Count(q, {"ready"}) \in Nat
    BY <1>4, <1>6 DEF One
  <2> QED
    BY <1>6, <2>1
<1>8. /\ d \in Object /\ d.flags = o.flags /\ d.refs = o.refs /\ d.tasks = r
      /\ d.armed = o.armed /\ d.stream = o.stream /\ d.closes = o.closes
  BY <1>1, <1>2, <1>6 DEF Object
<1>9. Counted(d, e)
  <2>1. One(Has(o, "OPEN")) \in Nat /\ Count(q, RefTask) \in Nat
    BY <1>6 DEF One
  <2>2. o.refs = Count(q, RefTask) + One(Has(o, "OPEN")) + (e + 1)
    BY <1>3 DEF Sound, Counted
  <2>3. Has(d, "OPEN") = Has(o, "OPEN")
    BY <1>8 DEF Has
  <2> QED
    BY <1>6, <1>8, <2>1, <2>2, <2>3 DEF Counted
<1>10. Scheduled(d)
  BY <1>3, <1>6, <1>7, <1>8 DEF Sound, Scheduled, Has
<1>11. Monitored(d, p)
  BY <1>3, <1>6, <1>8 DEF Sound, Monitored, Has
<1>12. Ended(d) /\ (Has(d, "OPEN") \/ Has(d, "CLOSE")) /\ d.refs > 0
  BY <1>1, <1>8 DEF Sound, Ended, Has
<1>13. Keeps(o, d)
  <2>1. /\ Count(q, Hearing) > 0 => Count(r, Hearing) > 0
        /\ Count(q, Sending) > 0 => Count(r, Sending) > 0
    BY <1>6
  <2>2. Hears(o) => Hears(d)
    BY <1>3, <1>8, <2>1 DEF Hears
  <2>3. Sends(o) => Sends(d)
    BY <1>3, <1>8, <2>1 DEF Sends, Has
  <2> QED
    BY <2>2, <2>3 DEF Keeps
<1> QED
  BY <1>8, <1>9, <1>10, <1>11, <1>12, <1>13 DEF Sound, d

(* One plain flag set, or some of them reset.                              *)
LEMMA SetSound ==
    ASSUME NEW o, NEW e \in Nat, NEW p, Sound(o, e, p),
           NEW x \in PreventOnData \cup ClosedAll \cup {"WRITE_DIRTY"}
    PROVE  /\ Sound(Set(o, x), e, p) /\ Keeps(o, Set(o, x))
           /\ Has(Set(o, x), x) /\ Set(o, x).refs = o.refs
           /\ Set(o, x).stream = o.stream
           /\ \A y : Has(Set(o, x), y) <=> Has(o, y) \/ y = x
<1>1. o \in Object
  BY DEF Sound
<1>2. PICK f \in SUBSET Flag : f = o.flags \cup {x}
  BY <1>1 DEF Object, Flag, PreventOnData, ClosedAll
<1>3. PICK s : s = [o EXCEPT !.flags = f]
  OBVIOUS
<1>4. Set(o, x) = s
  BY <1>2, <1>3 DEF Set
<1>5. /\ "OPEN" \in f <=> Has(o, "OPEN")
      /\ "WRITE_SCHD" \in f <=> Has(o, "WRITE_SCHD")
      /\ f \cap {"DATA_SCHD", "TOUCH", "POLLIN_SET", "POLLOUT_SET"} \subseteq o.flags
      /\ o.flags \cap (PreventOnData \cup ClosedAll) \subseteq f
  BY <1>2 DEF Has, PreventOnData, ClosedAll
<1>6. "OPEN" \in f \/ "CLOSE" \in f
  BY <1>2 DEF Sound, Has
<1>7. /\ Sound(s, e, p) /\ s.flags = f /\ s.refs = o.refs /\ s.stream = o.stream
      /\ Keeps(o, s)
  BY <1>3, <1>5, <1>6, FlagsSound
<1> QED
  BY <1>2, <1>4, <1>7 DEF Has

LEMMA UnsetSound ==
    ASSUME NEW o, NEW e \in Nat, NEW p, Sound(o, e, p),
           NEW xs \in SUBSET (PreventOnData \cup {"TOUCH"})
    PROVE  /\ Sound(Unset(o, xs), e, p)
           /\ Unset(o, xs).refs = o.refs /\ Unset(o, xs).stream = o.stream
           /\ \A y : Has(Unset(o, xs), y) <=> Has(o, y) /\ y \notin xs
           /\ Sends(o) => Sends(Unset(o, xs))
           /\ xs \subseteq {"TOUCH"} => Keeps(o, Unset(o, xs))
<1>1. o \in Object
  BY DEF Sound
<1>2. PICK f \in SUBSET Flag : f = o.flags \ xs
  BY <1>1 DEF Object
<1>3. PICK s : s = [o EXCEPT !.flags = f]
  OBVIOUS
<1>4. Unset(o, xs) = s
  BY <1>2, <1>3 DEF Unset
<1>5. /\ "OPEN" \in f <=> Has(o, "OPEN")
      /\ "WRITE_SCHD" \in f <=> Has(o, "WRITE_SCHD")
      /\ f \cap {"DATA_SCHD", "TOUCH", "POLLIN_SET", "POLLOUT_SET"} \subseteq o.flags
  BY <1>2 DEF Has, PreventOnData
<1>6. "OPEN" \in f \/ "CLOSE" \in f
  BY <1>2 DEF Sound, Has, PreventOnData
<1>7. /\ Sound(s, e, p) /\ s.flags = f /\ s.refs = o.refs /\ s.stream = o.stream
      /\ Sends(o) => Sends(s)
      /\ o.flags \cap (PreventOnData \cup ClosedAll) \subseteq f => Keeps(o, s)
  BY <1>3, <1>5, <1>6, FlagsSound
<1>8. xs \subseteq {"TOUCH"} => o.flags \cap (PreventOnData \cup ClosedAll) \subseteq f
  BY <1>2 DEF PreventOnData, ClosedAll
<1> QED
  BY <1>2, <1>4, <1>7, <1>8 DEF Has

(* fio_io_close_now: OPEN's reference is handed to a task.                 *)
LEMMA CloseNowSound ==
    ASSUME NEW o, NEW e \in Nat, NEW p, Sound(o, e, p), o.refs > 0
    PROVE  /\ Sound(CloseNow(o), e, p) /\ CloseNow(o).refs > 0
           /\ Hears(CloseNow(o)) /\ Sends(CloseNow(o))
<1>1. PICK c : c = Set(o, "CLOSE")
  OBVIOUS
<1>2. /\ Sound(c, e, p) /\ Has(c, "CLOSE") /\ c.refs = o.refs
      /\ Has(c, "OPEN") <=> Has(o, "OPEN")
  <2>1. PICK x \in PreventOnData \cup ClosedAll \cup {"WRITE_DIRTY"} : x = "CLOSE"
    BY DEF ClosedAll
  <2> QED
    BY <1>1, <2>1, SetSound
<1>3. Hears(c)
  BY <1>2 DEF Hears, Has, ClosedAll
<1>4. CASE ~Has(o, "OPEN")
  <2>1. CloseNow(o) = c
    BY <1>1, <1>4 DEF CloseNow
  <2>2. Sends(c)
    BY <1>2, <1>4 DEF Sends
  <2> QED
    BY <1>2, <1>3, <2>1, <2>2
<1>5. CASE Has(o, "OPEN")
  <2>1. c \in Object
    BY <1>2 DEF Sound
  <2>2. PICK f \in SUBSET Flag : f = c.flags \ {"OPEN"}
    BY <2>1 DEF Object
  <2>3. PICK s : s = [c EXCEPT !.flags = f]
    OBVIOUS
  <2>4. CloseNow(o) = FreeLater(s)
    BY <1>1, <1>5, <2>2, <2>3 DEF CloseNow, Unset
  <2>5. /\ s \in Object /\ s.flags = f /\ s.refs = c.refs /\ s.tasks = c.tasks
        /\ s.armed = c.armed /\ s.stream = c.stream /\ s.closes = c.closes
    BY <2>1, <2>3, FlagFields
  <2>6. Counted(s, e + 1)
    <3>1. ~Has(s, "OPEN") /\ Has(c, "OPEN")
      BY <1>2, <1>5, <2>2, <2>5 DEF Has
    <3>2. One(Has(c, "OPEN")) = 1 /\ One(Has(s, "OPEN")) = 0
      BY <3>1 DEF One
    <3>3. Count(c.tasks, RefTask) \in Nat
      BY <1>2, SoundTypes
    <3>4. c.refs = Count(c.tasks, RefTask) + 1 + e
      BY <1>2, <3>2 DEF Sound, Counted
    <3>5. s.refs = Count(s.tasks, RefTask) + 0 + (e + 1)
      BY <2>5, <3>3, <3>4
    <3> QED
      BY <3>2, <3>5 DEF Counted
  <2>7. Scheduled(s) /\ Monitored(s, p) /\ Ended(s) /\ Has(s, "CLOSE")
    <3>1. \A y : Has(s, y) <=> Has(c, y) /\ y # "OPEN"
      BY <2>2, <2>5 DEF Has
    <3>2. Scheduled(s)
      BY <1>2, <2>5, <3>1 DEF Sound, Scheduled, One
    <3>3. Monitored(s, p)
      BY <1>2, <2>5, <3>1 DEF Sound, Monitored
    <3>4. Ended(s) /\ Has(s, "CLOSE")
      BY <1>2, <2>5, <3>1 DEF Sound, Ended
    <3> QED
      BY <3>2, <3>3, <3>4
  <2>8. Sound(s, e + 1, p)
    BY <2>5, <2>6, <2>7 DEF Sound
  <2>9. Hears(s) /\ Sends(s)
    BY <2>2, <2>5, <2>7 DEF Hears, Sends, Has, ClosedAll
  <2>10. /\ Sound(FreeLater(s), e, p) /\ Keeps(s, FreeLater(s))
         /\ FreeLater(s).refs > 0
    BY <2>8, FreeLaterSound
  <2> QED
    BY <2>4, <2>9, <2>10 DEF Keeps
<1> QED
  BY <1>4, <1>5

(* fio_io_close; whatever it finds, the object is closing afterwards.      *)
LEMMA CloseSound ==
    ASSUME NEW o, NEW e \in Nat, NEW p, Sound(o, e, p), o.refs > 0
    PROVE  /\ Sound(Close(o), e, p) /\ Close(o).refs > 0
           /\ Hears(Close(o)) /\ Keeps(o, Close(o))
<1>1. CASE Has(o, "OPEN") /\ ~Has(o, "CLOSE")
  <2>1. PICK c : c = Set(o, "CLOSE")
    OBVIOUS
  <2>2. /\ Sound(c, e, p) /\ Has(c, "CLOSE") /\ c.refs > 0 /\ Keeps(o, c)
    <3>1. PICK x \in PreventOnData \cup ClosedAll \cup {"WRITE_DIRTY"} : x = "CLOSE"
      BY DEF ClosedAll
    <3> QED
      BY <2>1, <3>1, SetSound
  <2>3. Hears(c)
    BY <2>2 DEF Hears, Has, ClosedAll
  <2>4. Close(o) = ScheduleReady(c)
    BY <1>1, <2>1 DEF Close
  <2>5. /\ Sound(ScheduleReady(c), e, p) /\ Keeps(c, ScheduleReady(c))
        /\ ScheduleReady(c).refs > 0
    BY <2>2, ReadySound
  <2> QED
    BY <2>2, <2>3, <2>4, <2>5 DEF Keeps
<1>2. CASE ~(Has(o, "OPEN") /\ ~Has(o, "CLOSE"))
  <2>1. Close(o) = o
    BY <1>2 DEF Close
  <2>2. Has(o, "CLOSE")
    BY <1>2 DEF Sound
  <2>3. Hears(o) /\ Keeps(o, o)
    BY <2>2 DEF Hears, Keeps, Has, ClosedAll
  <2> QED
    BY <2>1, <2>3
<1> QED
  BY <1>1, <1>2

(* A task was deferred together with the flag that stands for it.          *)
LEMMA FlagTaskSound ==
    ASSUME NEW o, NEW e \in Nat, NEW p, Sound(o, e, p), o.refs > 0,
           NEW t \in {"data", "touch"}, NEW x \in {"DATA_SCHD", "TOUCH"},
           t = "data" <=> x = "DATA_SCHD",
           NEW d \in Object, NEW r,
           r = Append(o.tasks, t) \/ r = <<t>> \o o.tasks,
           d.flags = o.flags \cup {x}, d.refs = o.refs + 1, d.tasks = r,
           d.armed = o.armed, d.stream = o.stream, d.closes = o.closes
    PROVE  Sound(d, e, p) /\ Keeps(o, d) /\ d.refs > 0
<1>1. /\ o \in Object /\ o.tasks \in Seq(AnyTask) /\ o.refs \in Nat
      /\ \A S : Count(o.tasks, S) \in Nat
  BY SoundTypes
<1>2. t \in RefTask
  BY Kinds
<1> DEFINE q == o.tasks
<1>3. o.tasks = q /\ q \in Seq(AnyTask) /\ (r = Append(q, t) \/ r = <<t>> \o q)
  BY <1>1
<1> HIDE DEF q
<1>4. /\ r \in Seq(AnyTask)
      /\ Count(r, RefTask) = Count(q, RefTask) + 1
      /\ Count(r, {"ready"}) = Count(q, {"ready"}) + One(t = "ready")
      /\ \A S : Count(q, S) \in Nat /\ Count(r, S) \in Nat
      /\ \A S : Count(q, S) > 0 \/ t \in S => Count(r, S) > 0
  BY <1>2, <1>3, Pushed
<1>5. Count(r, {"ready"}) = Count(q, {"ready"})
  <2>1. One(t = "ready") = 0 /\ Count(q, {"ready"}) \in Nat
    BY <1>4 DEF One
  <2> QED
    BY <1>4, <2>1
<1>6. \A y : Has(d, y) <=> Has(o, y) \/ y = x
  BY DEF Has
<1>7. Counted(d, e)
  <2>1. One(Has(o, "OPEN")) \in Nat /\ One(Has(d, "OPEN")) = One(Has(o, "OPEN"))
    BY <1>6 DEF One
  <2>2. o.refs = Count(q, RefTask) + One(Has(o, "OPEN")) + e
    BY <1>3 DEF Sound, Counted
  <2>3. o.refs + 1 = (Count(q, RefTask) + 1) + One(Has(o, "OPEN")) + e
    BY <1>4, <2>1, <2>2
  <2> QED
    BY <1>4, <2>1, <2>3 DEF Counted
<1>8. Scheduled(d)
  <2>1. One(Has(d, "WRITE_SCHD")) = One(Has(o, "WRITE_SCHD"))
    BY <1>6 DEF One
  <2>2. /\ Has(o, "DATA_SCHD") => Count(r, {"data"}) > 0
        /\ Has(o, "TOUCH") => Count(r, {"touch"}) > 0
    BY <1>3, <1>4 DEF Sound, Scheduled
  <2>3. /\ x = "DATA_SCHD" => Count(r, {"data"}) > 0
        /\ x = "TOUCH" => Count(r, {"touch"}) > 0
    BY <1>4
  <2> QED
    BY <1>3, <1>5, <1>6, <2>1, <2>2, <2>3 DEF Sound, Scheduled
<1>9. Monitored(d, p)
  BY <1>3, <1>4, <1>6 DEF Sound, Monitored
<1>10. Ended(d) /\ (Has(d, "OPEN") \/ Has(d, "CLOSE")) /\ d.refs > 0
  BY <1>1, <1>6 DEF Sound, Ended, One
<1>11. Keeps(o, d)
  <2>1. /\ Count(q, Hearing) > 0 => Count(r, Hearing) > 0
        /\ Count(q, Sending) > 0 => Count(r, Sending) > 0
    BY <1>4
  <2>2. Hears(o) => Hears(d)
    BY <1>3, <2>1 DEF Hears
  <2>3. Sends(o) => Sends(d)
    BY <1>3, <1>6, <2>1 DEF Sends
  <2> QED
    BY <2>2, <2>3 DEF Keeps
<1> QED
  BY <1>7, <1>8, <1>9, <1>10, <1>11 DEF Sound

(* fio_io_on_data_schedule *)
LEMMA ScheduleDataSound ==
    ASSUME NEW o, NEW e \in Nat, NEW p, Sound(o, e, p), o.refs > 0
    PROVE  /\ Sound(ScheduleData(o), e, p) /\ Keeps(o, ScheduleData(o))
           /\ ScheduleData(o).refs > 0
<1>1. o \in Object
  BY DEF Sound
<1>2. CASE o.flags \cap (ClosedAll \cup {"DATA_SCHD"}) # {}
  <2>1. ScheduleData(o) = o
    BY <1>2 DEF ScheduleData
  <2> QED
    BY <2>1 DEF Keeps
<1>3. CASE o.flags \cap (ClosedAll \cup {"DATA_SCHD"}) = {}
  <2>1. PICK f \in SUBSET Flag : f = o.flags \cup {"DATA_SCHD"}
    BY <1>1 DEF Object, Flag
  <2>2. PICK s : s = [o EXCEPT !.flags = f]
    OBVIOUS
  <2>3. PICK t \in AnyTask : t = "data"
    BY Kinds
  <2>4. PICK d : d = Defer(s, t)
    OBVIOUS
  <2>5. ScheduleData(o) = d
    BY <1>3, <2>1, <2>2, <2>3, <2>4 DEF ScheduleData, Set
  <2>6. /\ s \in Object /\ s.flags = f /\ s.refs = o.refs /\ s.tasks = o.tasks
        /\ s.armed = o.armed /\ s.stream = o.stream /\ s.closes = o.closes
    BY <1>1, <2>2, FlagFields
  <2>7. /\ d \in Object /\ d.flags = f /\ d.refs = o.refs + 1
        /\ d.tasks = Append(o.tasks, t)
        /\ d.armed = o.armed /\ d.stream = o.stream /\ d.closes = o.closes
    <3>1. /\ d \in Object /\ d.flags = s.flags /\ d.refs = s.refs + 1
          /\ d.tasks = Append(s.tasks, t)
          /\ d.armed = s.armed /\ d.stream = s.stream /\ d.closes = s.closes
      BY ONLY <2>4, <2>6, t \in AnyTask, DeferFields
    <3> QED
      BY ONLY <2>6, <3>1
  <2>8. PICK x : x = "DATA_SCHD"
    OBVIOUS
  <2>9. PICK r : r = Append(o.tasks, t)
    OBVIOUS
  <2>10. d.flags = o.flags \cup {x} /\ d.tasks = r
    BY <2>1, <2>7, <2>8, <2>9
  <2> QED
    BY <2>3, <2>5, <2>7, <2>8, <2>9, <2>10, FlagTaskSound
<1> QED
  BY <1>2, <1>3

(* fio_io_touch *)
LEMMA TouchSound ==
    ASSUME NEW o, NEW e \in Nat, NEW p, Sound(o, e, p), o.refs > 0
    PROVE  Sound(Touch(o), e, p) /\ Keeps(o, Touch(o)) /\ Touch(o).refs > 0
<1>1. o \in Object /\ o.tasks \in Seq(AnyTask) /\ o.refs \in Nat
  BY SoundTypes
<1>2. CASE Has(o, "TOUCH")
  <2>1. Touch(o) = o
    BY <1>2 DEF Touch
  <2> QED
    BY <2>1 DEF Keeps
<1>3. CASE ~Has(o, "TOUCH")
  <2>1. PICK f \in SUBSET Flag : f = o.flags \cup {"TOUCH"}
    BY <1>1 DEF Object, Flag
  <2>2. PICK t \in AnyTask : t = "touch"
    BY Kinds DEF RefTask, AnyTask
  <2>3. PICK r \in Seq(AnyTask) : r = <<t>> \o o.tasks
    BY <1>1, CountCons
  <2>4. PICK n \in Nat : n = o.refs + 1
    BY <1>1
  <2>5. PICK s : s = [o EXCEPT !.flags = f]
    OBVIOUS
  <2>6. /\ s \in Object /\ s.flags = f /\ s.refs = o.refs /\ s.tasks = o.tasks
        /\ s.armed = o.armed /\ s.stream = o.stream /\ s.closes = o.closes
    BY <1>1, <2>5 DEF Object
  <2>7. PICK d : d = [s EXCEPT !.refs = n, !.tasks = r]
    OBVIOUS
  <2>8. Touch(o) = d
    <3>1. Set(o, "TOUCH") = s
      BY <2>1, <2>5 DEF Set
    <3>2. Touch(o) = [s EXCEPT !.refs = s.refs + 1, !.tasks = <<"touch">> \o s.tasks]
      BY <1>3, <3>1 DEF Touch
    <3> QED
      BY <2>2, <2>3, <2>4, <2>6, <2>7, <3>2
  <2>9. /\ d \in Object /\ d.flags = f /\ d.refs = n /\ d.tasks = r
        /\ d.armed = o.armed /\ d.stream = o.stream /\ d.closes = o.closes
    BY <2>6, <2>7 DEF Object
  <2>10. PICK x : x = "TOUCH"
    OBVIOUS
  <2>11. d.flags = o.flags \cup {x} /\ d.refs = o.refs + 1
    BY <2>1, <2>4, <2>9, <2>10
  <2> QED
    BY <2>2, <2>3, <2>8, <2>9, <2>10, <2>11, FlagTaskSound
<1> QED
  BY <1>2, <1>3

(* The flags X that task t resets when it begins.                          *)
Resets(t, X) ==
    /\ X \subseteq {"WRITE_SCHD", "POLLOUT_SET", "DATA_SCHD", "POLLIN_SET", "TOUCH"}
    /\ IF t = "ready" THEN {"WRITE_SCHD", "POLLOUT_SET"} \subseteq X
       ELSE "WRITE_SCHD" \notin X
    /\ t = "data" => {"DATA_SCHD", "POLLIN_SET"} \subseteq X
    /\ t = "touch" => "TOUCH" \in X

(* The first task was taken off the queue and the flags that stand for it  *)
(* reset; its reference is now outside the queue.                          *)
LEMMA PopSound ==
    ASSUME NEW o, NEW e \in Nat, NEW p, Sound(o, e, p), o.tasks # <<>>,
           NEW t, t = Head(o.tasks), NEW X, Resets(t, X),
           NEW d \in Object, d.flags = o.flags \ X, d.refs = o.refs,
           d.tasks = Tail(o.tasks),
           d.armed = o.armed, d.stream = o.stream, d.closes = o.closes
    PROVE  /\ Sound(d, e + One(t \in RefTask), p)
           /\ t \in RefTask => d.refs > 0
           /\ t \notin Hearing => (Hears(o) => Hears(d))
           /\ t \notin Sending => (Sends(o) => Sends(d))
<1> USE DEF Resets
<1> DEFINE q == o.tasks
           r == d.tasks
<1>1. /\ o \in Object /\ q \in Seq(AnyTask) /\ o.refs \in Nat
      /\ q = o.tasks /\ r = d.tasks /\ q # <<>> /\ r = Tail(q) /\ t = Head(q)
  BY SoundTypes
<1> HIDE DEF q, r
<1>2. /\ r \in Seq(AnyTask)
      /\ \A S : Count(q, S) = Count(r, S) + One(t \in S)
  BY <1>1, CountTail
<1>3. \A S : Count(r, S) \in Nat /\ Count(q, S) \in Nat
  BY <1>1, <1>2, CountType
<1>4. \A S : t \notin S => Count(r, S) = Count(q, S)
  <2> SUFFICES ASSUME NEW S, t \notin S
               PROVE  Count(r, S) = Count(q, S)
    OBVIOUS
  <2>1. /\ Count(q, S) = Count(r, S) + One(t \in S) /\ One(t \in S) = 0
        /\ Count(r, S) \in Nat
    BY <1>2, <1>3 DEF One
  <2> QED
    BY <2>1
<1>5. \A y : Has(d, y) <=> Has(o, y) /\ y \notin X
  BY DEF Has
<1>6. Counted(d, e + One(t \in RefTask))
  <2>0. Has(d, "OPEN") <=> Has(o, "OPEN")
    BY <1>5
  <2>1. /\ One(Has(d, "OPEN")) = One(Has(o, "OPEN")) /\ One(Has(o, "OPEN")) \in Nat
        /\ One(t \in RefTask) \in Nat /\ Count(r, RefTask) \in Nat
    BY <1>3, <2>0 DEF One
  <2>2. /\ o.refs = Count(q, RefTask) + One(Has(o, "OPEN")) + e
        /\ Count(q, RefTask) = Count(r, RefTask) + One(t \in RefTask)
    BY <1>1, <1>2 DEF Sound, Counted
  <2>3. o.refs = Count(r, RefTask) + One(Has(o, "OPEN")) + (e + One(t \in RefTask))
    BY <2>1, <2>2
  <2> QED
    BY <1>1, <2>1, <2>3 DEF Counted
<1>7. Scheduled(d)
  <2>1. Count(r, {"ready"}) = One(Has(d, "WRITE_SCHD"))
    <3>1. Count(q, {"ready"}) = One(Has(o, "WRITE_SCHD"))
      BY <1>1 DEF Sound, Scheduled
    <3>2. CASE t = "ready"
      <4>1. Count(q, {"ready"}) = Count(r, {"ready"}) + 1 /\ Count(r, {"ready"}) \in Nat
        BY <1>2, <1>3, <3>2 DEF One
      <4>2. Count(r, {"ready"}) = 0
        BY <3>1, <4>1 DEF One
      <4> QED
        BY <1>5, <3>2, <4>2 DEF One
    <3>3. CASE t # "ready"
      <4>1. Count(r, {"ready"}) = Count(q, {"ready"})
        BY <1>4, <3>3
      <4>2. One(Has(d, "WRITE_SCHD")) = One(Has(o, "WRITE_SCHD"))
        BY <1>5, <3>3 DEF One
      <4> QED
        BY <3>1, <4>1, <4>2
    <3> QED
      BY <3>2, <3>3
  <2>2. Has(d, "DATA_SCHD") => Count(r, {"data"}) > 0
    <3>1. Has(d, "DATA_SCHD") => t # "data" /\ Count(q, {"data"}) > 0
      BY <1>1, <1>5 DEF Sound, Scheduled
    <3>2. t # "data" => Count(r, {"data"}) = Count(q, {"data"})
      BY <1>4
    <3> QED
      BY <3>1, <3>2
  <2>3. Has(d, "TOUCH") => Count(r, {"touch"}) > 0
    <3>1. Has(d, "TOUCH") => t # "touch" /\ Count(q, {"touch"}) > 0
      BY <1>1, <1>5 DEF Sound, Scheduled
    <3>2. t # "touch" => Count(r, {"touch"}) = Count(q, {"touch"})
      BY <1>4
    <3> QED
      BY <3>1, <3>2
  <2> QED
    BY <1>1, <2>1, <2>2, <2>3 DEF Scheduled
<1>8. Monitored(d, p)
  <2>1. /\ t # "data" => Count(r, {"data"}) = Count(q, {"data"})
        /\ t # "ready" => Count(r, {"ready"}) = Count(q, {"ready"})
    BY <1>4
  <2>2. /\ Has(d, "POLLIN_SET") => t # "data" /\ Has(o, "POLLIN_SET")
        /\ Has(d, "POLLOUT_SET") => t # "ready" /\ Has(o, "POLLOUT_SET")
    BY <1>5
  <2> QED
    BY <1>1, <2>1, <2>2 DEF Sound, Monitored
<1>9. Ended(d) /\ (Has(d, "OPEN") \/ Has(d, "CLOSE"))
  BY <1>5 DEF Sound, Ended
<1>10. t \in RefTask => d.refs > 0
  <2>1. t \in RefTask => Count(q, RefTask) > 0
    <3>1. t \in RefTask => Count(q, RefTask) = Count(r, RefTask) + 1
      BY <1>2 DEF One
    <3> QED
      BY <1>3, <3>1
  <2> QED
    BY <1>1, <2>1, SoundTypes
<1>11. t \notin Hearing => (Hears(o) => Hears(d))
  <2>1. t \notin Hearing => Count(r, Hearing) = Count(q, Hearing)
    BY <1>4
  <2>2. /\ d.flags \cap (PreventOnData \cup ClosedAll)
            = o.flags \cap (PreventOnData \cup ClosedAll)
    BY DEF PreventOnData, ClosedAll
  <2> QED
    BY <1>1, <2>1, <2>2 DEF Hears
<1>12. t \notin Sending => (Sends(o) => Sends(d))
  <2>1. t \notin Sending => Count(r, Sending) = Count(q, Sending)
    BY <1>4
  <2> QED
    BY <1>1, <1>5, <2>1 DEF Sends
<1> QED
  BY <1>6, <1>7, <1>8, <1>9, <1>10, <1>11, <1>12 DEF Sound

(* A task without a reference was deferred.                                *)
LEMMA BareTaskSound ==
    ASSUME NEW o, NEW e \in Nat, NEW p, Sound(o, e, p),
           NEW t \in {"tick", "unsuspend"}, NEW d, d = [o EXCEPT !.tasks = Append(@, t)]
    PROVE  /\ Sound(d, e, p) /\ Keeps(o, d) /\ d.flags = o.flags /\ d.refs = o.refs
           /\ t = "unsuspend" => Hears(d)
<1>1. /\ o \in Object /\ o.tasks \in Seq(AnyTask) /\ t \in AnyTask /\ t \notin RefTask
  BY SoundTypes, Kinds
<1>2. PICK r \in Seq(AnyTask) : r = Append(o.tasks, t)
  BY <1>1, CountAppend
<1>3. \A S : Count(r, S) = Count(o.tasks, S) + One(t \in S)
  BY <1>1, <1>2, CountAppend
<1>4. \A S : Count(o.tasks, S) \in Nat
  BY <1>1, CountType
<1>5. ASSUME NEW S, t \notin S
      PROVE  Count(r, S) = Count(o.tasks, S)
  <2>1. One(t \in S) = 0
    BY <1>5 DEF One
  <2> QED
    BY <1>3, <1>4, <2>1
<1>6. /\ d \in Object /\ d.flags = o.flags /\ d.refs = o.refs /\ d.tasks = r
      /\ d.armed = o.armed /\ d.stream = o.stream /\ d.closes = o.closes
  BY <1>1, <1>2 DEF Object
<1>7. /\ Count(r, RefTask) = Count(o.tasks, RefTask)
      /\ Count(r, {"ready"}) = Count(o.tasks, {"ready"})
      /\ Count(r, {"data"}) = Count(o.tasks, {"data"})
      /\ Count(r, {"touch"}) = Count(o.tasks, {"touch"})
      /\ Count(r, Sending) = Count(o.tasks, Sending)
  BY <1>1, <1>5 DEF Sending
<1>8. /\ Count(o.tasks, Hearing) > 0 => Count(r, Hearing) > 0
      /\ t = "unsuspend" => Count(r, Hearing) > 0
  <2>1. Count(r, Hearing) = Count(o.tasks, Hearing) + One(t \in Hearing)
    BY <1>3
  <2>2. Count(o.tasks, Hearing) \in Nat /\ (t = "unsuspend" => One(t \in Hearing) = 1)
    BY <1>4 DEF One, Hearing
  <2>3. One(t \in Hearing) \in Nat
    BY DEF One
  <2> QED
    BY <2>1, <2>2, <2>3
<1>9. Counted(d, e) /\ Scheduled(d) /\ Monitored(d, p) /\ Ended(d)
  BY <1>6, <1>7 DEF Sound, Counted, Scheduled, Monitored, Ended, Has
<1>10. /\ Keeps(o, d)
       /\ t = "unsuspend" => Hears(d)
  <2>1. Hears(o) => Hears(d)
    BY <1>6, <1>8 DEF Hears
  <2>2. t = "unsuspend" => Hears(d)
    BY <1>6, <1>8 DEF Hears
  <2>3. Sends(o) => Sends(d)
    BY <1>6, <1>7 DEF Sends, Has
  <2> QED
    BY <2>1, <2>2, <2>3 DEF Keeps
<1> QED
  BY <1>6, <1>9, <1>10 DEF Sound, Has

(* Writing, and packets written.                                           *)
LEMMA StreamSound ==
    ASSUME NEW o, NEW e \in Nat, NEW p, Sound(o, e, p), o.refs > 0,
           NEW n \in Nat, NEW d, d = [o EXCEPT !.stream = n]
    PROVE  /\ Sound(d, e, p) /\ d.refs = o.refs /\ d.stream = n /\ d.flags = o.flags
           /\ Hears(o) => Hears(d)
           /\ n = 0 => Sends(d)
<1>1. o \in Object
  BY DEF Sound
<1>2. /\ d \in Object /\ d.flags = o.flags /\ d.refs = o.refs /\ d.tasks = o.tasks
      /\ d.armed = o.armed /\ d.stream = n /\ d.closes = o.closes
  BY <1>1 DEF Object
<1>3. Counted(d, e) /\ Scheduled(d) /\ Monitored(d, p) /\ (Has(d, "OPEN") \/ Has(d, "CLOSE"))
  BY <1>2 DEF Sound, Counted, Scheduled, Monitored, Has
<1>4. Ended(d)
  <2>1. d.refs # 0
    BY <1>1, <1>2 DEF Object
  <2> QED
    BY <1>2, <2>1 DEF Sound, Ended
<1>5. (Hears(o) => Hears(d)) /\ (n = 0 => Sends(d))
  BY <1>2 DEF Hears, Sends
<1> QED
  BY <1>2, <1>3, <1>4, <1>5 DEF Sound

(* A monitor reported its event, and the task that deals with it is there. *)
LEMMA DisarmSound ==
    ASSUME NEW o, NEW e \in Nat, NEW p, Sound(o, e, p), o.refs > 0,
           NEW x \in {"in", "out"},
           x = "in" => Count(o.tasks, {"data"}) > 0,
           x = "out" /\ p = "open" => Count(o.tasks, {"ready"}) > 0,
           NEW d \in Object, d.flags = o.flags, d.refs = o.refs, d.tasks = o.tasks,
           d.armed = o.armed \ {x}, d.stream = o.stream, d.closes = o.closes
    PROVE  /\ Sound(d, e, p)
           /\ Hears(o) => Hears(d)
           /\ p = "open" /\ Sends(o) => Sends(d)
<1>1. o \in Object /\ o.tasks \in Seq(AnyTask)
  BY SoundTypes
<1>2. Counted(d, e) /\ Scheduled(d) /\ (Has(d, "OPEN") \/ Has(d, "CLOSE"))
  BY DEF Sound, Counted, Scheduled, Has
<1>3. Monitored(d, p)
  BY DEF Sound, Monitored, Has
<1>4. Ended(d)
  BY <1>1 DEF Sound, Ended, Object
<1>5. x = "in" => Count(o.tasks, Hearing) > 0
  BY <1>1, CountWithin, Kinds
<1>6. x = "out" /\ p = "open" => Count(o.tasks, Sending) > 0
  BY <1>1, CountWithin, Kinds
<1>7. Hears(o) => Hears(d)
  BY <1>5 DEF Hears
<1>8. p = "open" /\ Sends(o) => Sends(d)
  BY <1>6 DEF Sends, Has
<1> QED
  BY <1>2, <1>3, <1>4, <1>7, <1>8 DEF Sound

LEMMA ReadyFields ==
    ASSUME NEW o \in Object, NEW d, d = ScheduleReady(o)
    PROVE  /\ d \in Object /\ d.flags = o.flags \cup {"WRITE_SCHD"}
           /\ d.refs = IF Has(o, "WRITE_SCHD") THEN o.refs ELSE o.refs + 1
           /\ d.tasks = IF Has(o, "WRITE_SCHD") THEN o.tasks ELSE Append(o.tasks, "ready")
           /\ d.armed = o.armed /\ d.stream = o.stream /\ d.closes = o.closes
<1>1. CASE Has(o, "WRITE_SCHD")
  <2>1. d = o /\ o.flags = o.flags \cup {"WRITE_SCHD"}
    BY <1>1 DEF ScheduleReady, Has, Object
  <2> QED
    BY <1>1, <2>1
<1>2. CASE ~Has(o, "WRITE_SCHD")
  <2>1. PICK f \in SUBSET Flag : f = o.flags \cup {"WRITE_SCHD"}
    BY DEF Object, Flag
  <2>2. PICK s : s = [o EXCEPT !.flags = f]
    OBVIOUS
  <2>3. /\ s \in Object /\ s.flags = f /\ s.refs = o.refs /\ s.tasks = o.tasks
        /\ s.armed = o.armed /\ s.stream = o.stream /\ s.closes = o.closes
    BY <2>2 DEF Object
  <2>4. PICK t \in AnyTask : t = "ready"
    BY Kinds
  <2>5. d = Defer(s, t)
    BY <1>2, <2>1, <2>2, <2>4 DEF ScheduleReady, Set
  <2>6. /\ d \in Object /\ d.flags = s.flags /\ d.refs = s.refs + 1
        /\ d.tasks = Append(s.tasks, t)
        /\ d.armed = s.armed /\ d.stream = s.stream /\ d.closes = s.closes
    BY ONLY <2>3, <2>5, t \in AnyTask, DeferFields
  <2> QED
    BY ONLY <1>2, <2>1, <2>3, <2>4, <2>6
<1> QED
  BY <1>1, <1>2

(* fio_poll_review, output.                                                *)
LEMMA PollOutSound ==
    ASSUME NEW o, NEW e \in Nat, Sound(o, e, peer)
    PROVE  /\ Sound(PollOut(o), e, peer)
           /\ o.refs > 0 => PollOut(o).refs > 0
           /\ Hears(o) => Hears(PollOut(o))
           /\ peer = "open" /\ Sends(o) => Sends(PollOut(o))
<1>1. o \in Object /\ o.refs \in Nat
  BY SoundTypes
<1>2. PICK a \in SUBSET {"in", "out"} : a = o.armed \ {"out"}
  BY <1>1 DEF Object
<1>3. PICK d : d = [o EXCEPT !.armed = a]
  OBVIOUS
<1>4. /\ d \in Object /\ d.flags = o.flags /\ d.refs = o.refs /\ d.tasks = o.tasks
      /\ d.armed = a /\ d.stream = o.stream /\ d.closes = o.closes
  BY <1>1, <1>3 DEF Object
<1>5. d = [o EXCEPT !.armed = @ \ {"out"}]
  BY <1>2, <1>3
<1>6. PICK x \in {"in", "out"} : x = "out"
  OBVIOUS
<1>7. CASE "out" \notin o.armed \/ ~(room \/ peer # "open")
  <2>1. PollOut(o) = o
    BY <1>7 DEF PollOut
  <2> QED
    BY <2>1
<1>8. CASE "out" \in o.armed /\ (room \/ peer # "open")
  <2>1. o.refs > 0
    BY <1>1, <1>8 DEF Sound, Ended
  <2>2. CASE ~room /\ peer = "half"
    <3>1. PollOut(o) = d
      BY <1>5, <1>8, <2>2 DEF PollOut
    <3>2. /\ Sound(d, e, peer)
          /\ Hears(o) => Hears(d)
      BY <1>2, <1>4, <1>6, <2>1, <2>2, DisarmSound
    <3> QED
      BY <1>4, <2>2, <3>1, <3>2
  <2>3. CASE peer = "open"
    <3>1. PICK u : u = ScheduleReady(o)
      OBVIOUS
    <3>2. PICK v : v = ScheduleReady(d)
      OBVIOUS
    <3>3. PollOut(o) = v
      BY <1>5, <1>8, <2>3, <3>2 DEF PollOut
    <3>4. /\ Sound(u, e, peer) /\ Keeps(o, u) /\ u.refs > 0 /\ Sends(u)
          /\ Count(u.tasks, {"ready"}) > 0
      BY <2>1, <3>1, ReadySound
    <3>5. Has(o, "WRITE_SCHD") <=> Has(d, "WRITE_SCHD")
      BY <1>4 DEF Has
    <3>6. /\ u.flags = o.flags \cup {"WRITE_SCHD"}
          /\ u.refs = IF Has(o, "WRITE_SCHD") THEN o.refs ELSE o.refs + 1
          /\ u.tasks = IF Has(o, "WRITE_SCHD") THEN o.tasks ELSE Append(o.tasks, "ready")
          /\ u.armed = o.armed /\ u.stream = o.stream /\ u.closes = o.closes
      BY <1>1, <3>1, ReadyFields
    <3>7. /\ v \in Object /\ v.flags = d.flags \cup {"WRITE_SCHD"}
          /\ v.refs = IF Has(d, "WRITE_SCHD") THEN d.refs ELSE d.refs + 1
          /\ v.tasks = IF Has(d, "WRITE_SCHD") THEN d.tasks ELSE Append(d.tasks, "ready")
          /\ v.armed = d.armed /\ v.stream = d.stream /\ v.closes = d.closes
      BY <1>4, <3>2, ReadyFields
    <3>8. /\ v.flags = u.flags /\ v.refs = u.refs /\ v.tasks = u.tasks
          /\ v.armed = u.armed \ {x} /\ v.stream = u.stream /\ v.closes = u.closes
      BY <1>2, <1>4, <1>6, <3>5, <3>6, <3>7
    <3>9. /\ Sound(v, e, peer)
          /\ Hears(u) => Hears(v)
          /\ peer = "open" /\ Sends(u) => Sends(v)
      BY ONLY <1>6, <3>4, <3>7, <3>8, e \in Nat, DisarmSound
    <3> QED
      BY <2>3, <3>3, <3>4, <3>8, <3>9 DEF Keeps
  <2>4. CASE peer # "open" /\ ~(~room /\ peer = "half")
    <3>1. PICK t \in RefTask \ {"ready"} : t = "close"
      BY Kinds
    <3>2. PollOut(o) = Defer(d, t)
      BY <1>5, <1>8, <2>4, <3>1 DEF PollOut
    <3>3. /\ Sound(d, e, peer)
          /\ Hears(o) => Hears(d)
      BY <1>2, <1>4, <1>6, <2>1, <2>4, DisarmSound
    <3>4. /\ Sound(Defer(d, t), e, peer) /\ Keeps(d, Defer(d, t))
          /\ Defer(d, t).refs > 0
      BY <1>4, <2>1, <3>3, DeferSound
    <3> QED
      BY <2>4, <3>2, <3>3, <3>4 DEF Keeps
  <2> QED
    BY <2>2, <2>3, <2>4
<1> QED
  BY <1>7, <1>8

(* fio_poll_review, input.                                                 *)
LEMMA PollInSound ==
    ASSUME NEW o, NEW e \in Nat, Sound(o, e, peer)
    PROVE  /\ Sound(PollIn(o), e, peer)
           /\ o.refs > 0 => PollIn(o).refs > 0
           /\ Hears(o) => Hears(PollIn(o))
           /\ peer = "open" /\ Sends(o) => Sends(PollIn(o))
<1>1. o \in Object /\ o.refs \in Nat
  BY SoundTypes
<1>2. PICK a \in SUBSET {"in", "out"} : a = o.armed \ {"in"}
  BY <1>1 DEF Object
<1>3. PICK s : s = [o EXCEPT !.armed = a]
  OBVIOUS
<1>4. /\ s \in Object /\ s.flags = o.flags /\ s.refs = o.refs /\ s.tasks = o.tasks
      /\ s.armed = a /\ s.stream = o.stream /\ s.closes = o.closes
  BY <1>1, <1>3 DEF Object
<1>5. s = [o EXCEPT !.armed = @ \ {"in"}]
  BY <1>2, <1>3
<1>6. PICK x \in {"in", "out"} : x = "in"
  OBVIOUS
<1>7. CASE "in" \notin o.armed \/ ~(inbox \/ peer # "open")
  <2>1. PollIn(o) = o
    BY <1>7 DEF PollIn
  <2> QED
    BY <2>1
<1>8. CASE "in" \in o.armed /\ (inbox \/ peer # "open")
  <2>1. o.refs > 0
    BY <1>1, <1>8 DEF Sound, Ended
  <2>2. PICK t \in RefTask \ {"ready"} : t = "data"
    BY Kinds
  <2>3. PICK d : d = Defer(s, t)
    OBVIOUS
  <2>4. PICK u : u = Defer(o, t)
    OBVIOUS
  <2>5. t \in AnyTask
    BY Kinds
  <2>6. /\ u.flags = o.flags /\ u.refs = o.refs + 1
        /\ u.tasks = Append(o.tasks, t)
        /\ u.armed = o.armed /\ u.stream = o.stream /\ u.closes = o.closes
    <3>1. PICK z \in AnyTask : z = t
      BY <2>5
    <3>2. u = Defer(o, z) /\ o \in Object
      BY <1>1, <2>4, <3>1
    <3>3. /\ u.flags = o.flags /\ u.refs = o.refs + 1
          /\ u.tasks = Append(o.tasks, z)
          /\ u.armed = o.armed /\ u.stream = o.stream /\ u.closes = o.closes
      BY ONLY <3>2, z \in AnyTask, DeferFields
    <3> QED
      BY <3>1, <3>3
  <2>7. /\ d \in Object /\ d.flags = s.flags /\ d.refs = s.refs + 1
        /\ d.tasks = Append(s.tasks, t)
        /\ d.armed = s.armed /\ d.stream = s.stream /\ d.closes = s.closes
    <3>1. PICK z \in AnyTask : z = t
      BY <2>5
    <3>2. d = Defer(s, z) /\ s \in Object
      BY <1>4, <2>3, <3>1
    <3>3. /\ d \in Object /\ d.flags = s.flags /\ d.refs = s.refs + 1
          /\ d.tasks = Append(s.tasks, z)
          /\ d.armed = s.armed /\ d.stream = s.stream /\ d.closes = s.closes
      BY ONLY <3>2, z \in AnyTask, DeferFields
    <3> QED
      BY <3>1, <3>3
  <2>8. /\ Sound(u, e, peer) /\ Keeps(o, u) /\ u.refs > 0
        /\ Count(u.tasks, {t}) > 0
        /\ t \in Hearing => Hears(u)
    BY <2>1, <2>4, DeferSound
  <2>9. /\ d.flags = u.flags /\ d.refs = u.refs /\ d.tasks = u.tasks
        /\ d.armed = u.armed \ {x} /\ d.stream = u.stream /\ d.closes = u.closes
    BY <1>2, <1>4, <1>6, <2>6, <2>7
  <2>10. Count(u.tasks, {"data"}) > 0
    BY <2>2, <2>8
  <2>11. /\ Sound(d, e, peer)
         /\ Hears(u) => Hears(d)
         /\ peer = "open" /\ Sends(u) => Sends(d)
    BY ONLY <1>6, <2>7, <2>8, <2>9, <2>10, e \in Nat, DisarmSound
  <2>12. CASE peer = "open"
    <3>1. PollIn(o) = d
      BY <1>5, <1>8, <2>2, <2>3, <2>12 DEF PollIn
    <3> QED
      BY <2>8, <2>9, <2>11, <2>12, <3>1 DEF Keeps
  <2>13. CASE peer # "open"
    <3>1. PICK c \in RefTask \ {"ready"} : c = "close"
      BY Kinds
    <3>2. PollIn(o) = Defer(d, c)
      BY <1>5, <1>8, <2>2, <2>3, <2>13, <3>1 DEF PollIn
    <3>3. /\ Sound(Defer(d, c), e, peer) /\ Keeps(d, Defer(d, c))
          /\ Defer(d, c).refs > 0
      BY <2>8, <2>9, <2>11, DeferSound
    <3> QED
      BY <2>8, <2>11, <2>13, <3>2, <3>3 DEF Keeps
  <2> QED
    BY <2>12, <2>13
<1> QED
  BY <1>7, <1>8

(* Another reference outside the queue: fio_io_dup.                        *)
LEMMA DupSound ==
    ASSUME NEW o, NEW e \in Nat, NEW p, Sound(o, e, p), o.refs > 0,
           NEW d, d = [o EXCEPT !.refs = @ + 1]
    PROVE  Sound(d, e + 1, p) /\ Keeps(o, d) /\ d.refs > 0
<1>1. o \in Object /\ o.refs \in Nat /\ Count(o.tasks, RefTask) \in Nat
  BY SoundTypes
<1>2. PICK n \in Nat : n = o.refs + 1
  BY <1>1
<1>3. /\ d \in Object /\ d.flags = o.flags /\ d.refs = n /\ d.tasks = o.tasks
      /\ d.armed = o.armed /\ d.stream = o.stream /\ d.closes = o.closes
  <2>1. d = [o EXCEPT !.refs = n]
    BY <1>2
  <2> QED
    BY <1>1, <2>1 DEF Object
<1>4. Counted(d, e + 1)
  <2>1. One(Has(o, "OPEN")) \in Nat /\ One(Has(d, "OPEN")) = One(Has(o, "OPEN"))
    BY <1>3 DEF One, Has
  <2>2. o.refs = Count(o.tasks, RefTask) + One(Has(o, "OPEN")) + e
    BY DEF Sound, Counted
  <2>3. n = Count(o.tasks, RefTask) + One(Has(o, "OPEN")) + (e + 1)
    BY <1>1, <1>2, <2>1, <2>2
  <2> QED
    BY <1>3, <2>1, <2>3 DEF Counted
<1>5. Scheduled(d) /\ Monitored(d, p) /\ (Has(d, "OPEN") \/ Has(d, "CLOSE"))
  BY <1>3 DEF Sound, Scheduled, Monitored, Has
<1>6. Ended(d) /\ d.refs > 0
  BY <1>1, <1>2, <1>3 DEF Sound, Ended, One
<1>7. Keeps(o, d)
  BY <1>3 DEF Keeps, Hears, Sends, Has
<1> QED
  BY <1>3, <1>4, <1>5, <1>6, <1>7 DEF Sound

-----------------------------------------------------------------------------
(* The inductive invariant.                                                *)

LEMMA OutsideType ==
    ASSUME IInv
    PROVE  /\ Outside \in Nat
           /\ running \in {"none", "on_shutdown"} => Outside = One(userRef)
           /\ running \notin {"none", "on_shutdown"} => Outside = One(userRef) + 1
           /\ userRef => One(userRef) = 1
           /\ ~userRef => One(userRef) = 0
BY DEF Outside, One, IInv

LEMMA InitInv == Init => IInv
<1> SUFFICES ASSUME Init
             PROVE  IInv
  OBVIOUS
<1> DEFINE q == <<"tick", "attach">>
<1>1. q \in Seq(AnyTask) /\ Len(q) = 2 /\ q[1] = "tick" /\ q[2] = "attach"
  BY DEF AnyTask, RefTask, Callback
<1>2. ASSUME NEW S
      PROVE  PlacesOf(q, S) = {i \in {1, 2} : q[i] \in S}
  BY <1>1 DEF PlacesOf
<1>3. Count(q, RefTask) = 1
  <2>1. PlacesOf(q, RefTask) = {2}
    BY <1>1, <1>2 DEF RefTask, Callback
  <2> QED
    BY <2>1, FS_Singleton DEF Count
<1>4. Count(q, {"ready"}) = 0
  <2>1. PlacesOf(q, {"ready"}) = {}
    BY <1>1, <1>2
  <2> QED
    BY <2>1, FS_EmptySet DEF Count
<1>5. io.tasks = q
  BY DEF Init
<1> HIDE DEF q
<1>6. io \in Object
  BY <1>1, <1>5 DEF Init, Object, Flag
<1>7. Surroundings /\ Outside = 0
  <2>1. 0 \in 0 .. MaxCalls /\ 0 \in 0 .. MaxTimeouts
    BY BoundAssumption
  <2>2. Surroundings
    BY <2>1 DEF Init, Surroundings
  <2>3. Outside = 0
    BY DEF Init, Outside, One
  <2> QED
    BY <2>2, <2>3
<1>8. Sound(io, Outside, peer)
  <2>1. Counted(io, 0)
    BY <1>3, <1>5 DEF Init, Counted, Has, One
  <2>2. Scheduled(io)
    BY <1>4, <1>5 DEF Init, Scheduled, Has, One
  <2>3. Monitored(io, peer) /\ Ended(io) /\ Has(io, "OPEN")
    BY DEF Init, Monitored, Ended, Has, One
  <2> QED
    BY <1>6, <1>7, <2>1, <2>2, <2>3 DEF Sound
<1>9. running = "none" /\ ~attached /\ Sends(io)
  BY DEF Init, Sends
<1> QED
  BY <1>7, <1>8, <1>9 DEF IInv

(* A call of the API that leaves the references outside as they are.       *)
LEMMA CallInv ==
    ASSUME IInv, Call, NEW r, io' = r,
           Sound(r, Outside, peer), r.refs > 0,
           Hears(io) => Hears(r), peer = "open" /\ Sends(io) => Sends(r),
           UNCHANGED <<userRef, room, peer, lost>>,
           inbox' \in BOOLEAN, abrupt' \in BOOLEAN
    PROVE  IInv'
<1> USE DEF Call, reactor
<1>1. Surroundings'
  <2>1. calls' \in 0 .. MaxCalls
    BY BoundAssumption DEF IInv, Surroundings
  <2> QED
    BY <2>1 DEF IInv, Surroundings
<1>2. Outside' = Outside
  BY DEF Outside
<1>3. Sound(io', Outside', peer') /\ io'.refs > 0
  BY <1>2
<1>4. attached' => Hears(io') \/ running' \in {"attach", "reattach", "data"}
  BY DEF IInv
<1>5. peer' = "open" => Sends(io')
  BY DEF IInv
<1> QED
  BY <1>1, <1>3, <1>4, <1>5 DEF IInv, Alive

LEMMA ApiInv == IInv /\ Api => IInv'
<1> SUFFICES ASSUME IInv, Api
             PROVE  IInv'
  OBVIOUS
<1>1. /\ Sound(io, Outside, peer) /\ Outside \in Nat
      /\ inbox \in BOOLEAN /\ abrupt \in BOOLEAN /\ Surroundings
  BY OutsideType DEF IInv, Surroundings
<1>2. CASE Write
  <2>1. io.refs > 0 /\ Call /\ UNCHANGED <<userRef, inbox, room, peer, lost, abrupt>>
    BY <1>2 DEF Write, Call, Alive, sock
  <2>2. CASE Has(io, "CLOSE")
    <3>1. io' = io
      BY <1>2, <2>2 DEF Write
    <3> QED
      BY <1>1, <2>1, <3>1, CallInv
  <2>3. CASE ~Has(io, "CLOSE")
    <3>1. PICK x \in PreventOnData \cup ClosedAll \cup {"WRITE_DIRTY"} : x = "WRITE_DIRTY"
      OBVIOUS
    <3>2. PICK t \in RefTask \ {"ready"} : t = "write"
      BY Kinds
    <3>3. io' = Defer(Set(io, x), t)
      BY <1>2, <2>3, <3>1, <3>2 DEF Write
    <3>4. /\ Sound(Set(io, x), Outside, peer) /\ Keeps(io, Set(io, x))
          /\ Set(io, x).refs = io.refs
      BY <1>1, SetSound
    <3>5. /\ Sound(Defer(Set(io, x), t), Outside, peer)
          /\ Keeps(Set(io, x), Defer(Set(io, x), t))
          /\ Defer(Set(io, x), t).refs > 0
      BY <1>1, <2>1, <3>4, DeferSound
    <3>6. PICK r : r = Defer(Set(io, x), t)
      OBVIOUS
    <3>7. Keeps(io, r)
      BY <3>4, <3>5, <3>6 DEF Keeps
    <3> QED
      BY <1>1, <2>1, <3>3, <3>5, <3>6, <3>7, CallInv DEF Keeps
  <2> QED
    BY <2>2, <2>3
<1>3. CASE CallClose
  <2>1. /\ io.refs > 0 /\ Call /\ UNCHANGED <<userRef, inbox, room, peer, lost, abrupt>>
        /\ io' = Close(io)
    BY <1>3 DEF CallClose, Call, Alive, sock
  <2>2. /\ Sound(Close(io), Outside, peer) /\ Close(io).refs > 0 /\ Keeps(io, Close(io))
    BY <1>1, <2>1, CloseSound
  <2> QED
    BY <1>1, <2>1, <2>2, CallInv DEF Keeps
<1>4. CASE CallCloseNow
  <2>1. /\ io.refs > 0 /\ Call /\ UNCHANGED <<userRef, inbox, room, peer, lost>>
        /\ io' = CloseNow(io) /\ abrupt' = TRUE
    BY <1>4 DEF CallCloseNow, Call, Alive, sock
  <2>2. /\ Sound(CloseNow(io), Outside, peer) /\ CloseNow(io).refs > 0
        /\ Hears(CloseNow(io)) /\ Sends(CloseNow(io))
    BY <1>1, <2>1, CloseNowSound
  <2> QED
    BY <1>1, <2>1, <2>2, CallInv
<1>5. CASE Suspend
  <2>1. PICK x \in PreventOnData \cup ClosedAll \cup {"WRITE_DIRTY"} : x = "SUSPENDED"
    BY DEF PreventOnData
  <2>2. /\ io.refs > 0 /\ Call /\ UNCHANGED <<userRef, inbox, room, peer, lost, abrupt>>
        /\ io' = Set(io, x)
    BY <1>5, <2>1 DEF Suspend, Call, Alive, sock
  <2>3. /\ Sound(Set(io, x), Outside, peer) /\ Set(io, x).refs = io.refs
        /\ Keeps(io, Set(io, x))
    BY <1>1, SetSound
  <2> QED
    BY <1>1, <2>2, <2>3, CallInv DEF Keeps
<1>6. CASE Unsuspend
  <2>1. PICK xs \in SUBSET (PreventOnData \cup {"TOUCH"}) : xs = {"SUSPENDED"}
    BY DEF PreventOnData
  <2>2. PICK u : u = Unset(io, xs)
    OBVIOUS
  <2>3. PICK t \in {"tick", "unsuspend"} : t = "unsuspend"
    OBVIOUS
  <2>4. PICK d : d = [u EXCEPT !.tasks = Append(@, t)]
    OBVIOUS
  <2>5. /\ io.refs > 0 /\ Call /\ UNCHANGED <<userRef, inbox, room, peer, lost, abrupt>>
        /\ io' = d
    BY <1>6, <2>1, <2>2, <2>3, <2>4 DEF Unsuspend, Call, Alive, sock
  <2>6. /\ Sound(u, Outside, peer) /\ u.refs = io.refs /\ (Sends(io) => Sends(u))
    BY <1>1, <2>2, UnsetSound
  <2>7. Sound(d, Outside, peer) /\ Keeps(u, d) /\ d.refs = u.refs /\ Hears(d)
    BY <1>1, <2>3, <2>4, <2>6, BareTaskSound
  <2> QED
    BY <1>1, <2>5, <2>6, <2>7, CallInv DEF Keeps
<1>7. CASE CallOnDataSchedule
  <2>1. /\ io.refs > 0 /\ Call /\ UNCHANGED <<userRef, inbox, room, peer, lost, abrupt>>
        /\ io' = ScheduleData(io)
    BY <1>7 DEF CallOnDataSchedule, Call, Alive, sock
  <2>2. /\ Sound(ScheduleData(io), Outside, peer) /\ ScheduleData(io).refs > 0
        /\ Keeps(io, ScheduleData(io))
    BY <1>1, <2>1, ScheduleDataSound
  <2> QED
    BY <1>1, <2>1, <2>2, CallInv DEF Keeps
<1>8. CASE CallTouch
  <2>1. /\ io.refs > 0 /\ Call /\ UNCHANGED <<userRef, inbox, room, peer, lost, abrupt>>
        /\ io' = Touch(io)
    BY <1>8 DEF CallTouch, Call, Alive, sock
  <2>2. Sound(Touch(io), Outside, peer) /\ Touch(io).refs > 0 /\ Keeps(io, Touch(io))
    BY <1>1, <2>1, TouchSound
  <2> QED
    BY <1>1, <2>1, <2>2, CallInv DEF Keeps
<1>9. CASE ProtocolSet
  <2>1. PICK t \in RefTask \ {"ready"} : t = "reattach"
    BY Kinds
  <2>2. /\ io.refs > 0 /\ Call /\ UNCHANGED <<userRef, inbox, room, peer, lost, abrupt>>
        /\ io' = Defer(io, t)
    BY <1>9, <2>1 DEF ProtocolSet, Call, Alive, sock
  <2>3. /\ Sound(Defer(io, t), Outside, peer) /\ Defer(io, t).refs > 0
        /\ Keeps(io, Defer(io, t))
    BY <1>1, <2>2, DeferSound
  <2> QED
    BY <1>1, <2>2, <2>3, CallInv DEF Keeps
<1>10. CASE Read
  <2>1. /\ io.refs > 0 /\ Call /\ UNCHANGED <<userRef, room, peer, lost, abrupt>>
        /\ inbox' = FALSE
        /\ io' = Touch(io) \/ io' = io \/ io' = Close(io)
    BY <1>10 DEF Read, Call, Alive
  <2>2. Sound(Touch(io), Outside, peer) /\ Touch(io).refs > 0 /\ Keeps(io, Touch(io))
    BY <1>1, <2>1, TouchSound
  <2>3. Sound(Close(io), Outside, peer) /\ Close(io).refs > 0 /\ Keeps(io, Close(io))
    BY <1>1, <2>1, CloseSound
  <2>4. Keeps(io, io)
    BY DEF Keeps
  <2>5. Sound(io', Outside, peer) /\ io'.refs > 0 /\ Keeps(io, io')
    BY <1>1, <2>1, <2>2, <2>3, <2>4
  <2>6. PICK r : r = io'
    OBVIOUS
  <2> QED
    BY <1>1, <2>1, <2>5, <2>6, CallInv DEF Keeps
<1>11. CASE Dup
  <2>1. /\ io.refs > 0 /\ running # "none" /\ ~userRef /\ userRef' = TRUE
        /\ io' = [io EXCEPT !.refs = @ + 1]
        /\ UNCHANGED <<attached, running, stop, phase, inbox, room, peer, timeouts,
                       lost, abrupt, fault>>
        /\ calls < MaxCalls /\ calls' = calls + 1
    BY <1>11 DEF Dup, Call, Alive, sock, reactor
  <2>2. PICK d : d = [io EXCEPT !.refs = @ + 1]
    OBVIOUS
  <2>3. Sound(d, Outside + 1, peer) /\ Keeps(io, d) /\ d.refs > 0
    BY <1>1, <2>1, <2>2, DupSound
  <2>4. Outside' = Outside + 1
    BY <2>1 DEF Outside, One
  <2>5. calls' \in 0 .. MaxCalls
    BY <1>1, <2>1, BoundAssumption DEF Surroundings
  <2>6. Surroundings'
    BY <1>1, <2>1, <2>5 DEF Surroundings
  <2> QED
    BY <2>1, <2>2, <2>3, <2>4, <2>6 DEF IInv, Keeps, Alive
<1> QED
  BY <1>2, <1>3, <1>4, <1>5, <1>6, <1>7, <1>8, <1>9, <1>10, <1>11 DEF Api

LEMMA FreeInv == IInv /\ Free => IInv'
<1> SUFFICES ASSUME IInv, Free
             PROVE  IInv'
  OBVIOUS
<1>1. /\ userRef /\ ~userRef' /\ io' = FreeLater(io)
      /\ UNCHANGED <<attached, running, stop, phase, inbox, room, peer, calls, timeouts,
                     lost, abrupt, fault>>
  BY DEF Free, reactor, sock, aux
<1>2. Surroundings'
  BY <1>1 DEF IInv, Surroundings, Free
<1>3. Outside' \in Nat /\ Outside = Outside' + 1
  BY <1>1 DEF Outside, One
<1>4. Sound(io, Outside' + 1, peer)
  BY <1>3 DEF IInv
<1>5. PICK e \in Nat : e = Outside'
  BY <1>3
<1>6. /\ Sound(FreeLater(io), e, peer) /\ Keeps(io, FreeLater(io))
      /\ FreeLater(io).refs > 0
  BY <1>4, <1>5, FreeLaterSound
<1> QED
  BY <1>1, <1>2, <1>5, <1>6 DEF IInv, Keeps, Alive

(* The first task is taken off the queue: what is left of the object.      *)
LEMMA RestSound ==
    ASSUME IInv, NEW t, Run(t), NEW X, Resets(t, X),
           NEW d, d = Unset(Rest, X)
    PROVE  /\ Sound(d, One(userRef) + One(t \in RefTask), peer)
           /\ d.refs = io.refs /\ (t \in RefTask => d.refs > 0)
           /\ d.flags = io.flags \ X /\ d.stream = io.stream
           /\ t \notin Hearing => (attached => Hears(d))
           /\ t \notin Sending => (peer = "open" => Sends(d))
<1>1. /\ Sound(io, One(userRef), peer) /\ One(userRef) \in Nat
      /\ attached => Hears(io)
      /\ peer = "open" => Sends(io)
      /\ io.tasks # <<>> /\ t = Head(io.tasks)
  BY DEF IInv, Run, Outside, One
<1>2. io \in Object /\ io.tasks \in Seq(AnyTask)
  BY <1>1, SoundTypes
<1>3. PICK r \in Seq(AnyTask) : r = Tail(io.tasks)
  BY <1>1, <1>2, CountTail
<1>4. PICK f \in SUBSET Flag : f = io.flags \ X
  BY <1>2 DEF Object
<1>5. d = [io EXCEPT !.tasks = r, !.flags = f]
  <2>1. Rest = [io EXCEPT !.tasks = r]
    BY <1>3 DEF Rest
  <2>2. Rest.flags = io.flags
    BY <1>2, <2>1 DEF Object
  <2>3. d = [Rest EXCEPT !.flags = f]
    BY <1>4, <2>2 DEF Unset
  <2> QED
    BY <1>2, <2>1, <2>3 DEF Object
<1>6. /\ d \in Object /\ d.flags = io.flags \ X /\ d.refs = io.refs
      /\ d.tasks = Tail(io.tasks)
      /\ d.armed = io.armed /\ d.stream = io.stream /\ d.closes = io.closes
  BY <1>2, <1>3, <1>4, <1>5 DEF Object
<1>7. /\ Sound(d, One(userRef) + One(t \in RefTask), peer)
      /\ t \in RefTask => d.refs > 0
      /\ t \notin Hearing => (Hears(io) => Hears(d))
      /\ t \notin Sending => (Sends(io) => Sends(d))
  <2>1. PICK e \in Nat : e = One(userRef)
    BY <1>1
  <2>2. Sound(io, e, peer)
    BY <1>1, <2>1
  <2>3. /\ Sound(d, e + One(t \in RefTask), peer)
        /\ t \in RefTask => d.refs > 0
        /\ t \notin Hearing => (Hears(io) => Hears(d))
        /\ t \notin Sending => (Sends(io) => Sends(d))
    BY <1>1, <1>6, <2>2, PopSound
  <2> QED
    BY <2>1, <2>3
<1> QED
  BY <1>1, <1>6, <1>7

(* The same when the task stands for no flag.                              *)
LEMMA PlainSound ==
    ASSUME IInv, NEW t, Run(t), t \notin {"ready", "data", "touch"}
    PROVE  /\ Sound(Rest, One(userRef) + One(t \in RefTask), peer)
           /\ Rest.refs = io.refs /\ (t \in RefTask => Rest.refs > 0)
           /\ Rest.flags = io.flags /\ Rest.stream = io.stream
           /\ t \notin Hearing => (attached => Hears(Rest))
           /\ t \notin Sending => (peer = "open" => Sends(Rest))
<1>1. PICK X \in SUBSET Flag : X = {}
  OBVIOUS
<1>2. Rest = Unset(Rest, X)
  <2>1. io \in Object
    BY DEF IInv, Sound
  <2>2. io.tasks \in Seq(AnyTask) /\ io.tasks # <<>>
    BY <2>1 DEF Object, Run
  <2>3. PICK r \in Seq(AnyTask) : r = Tail(io.tasks)
    BY <2>2, CountTail
  <2>4. Rest = [io EXCEPT !.tasks = r]
    BY <2>3 DEF Rest
  <2>5. Rest \in Object
    BY <2>1, <2>4 DEF Object
  <2>6. PICK f \in SUBSET Flag : f = Rest.flags
    BY <2>5 DEF Object
  <2>7. Unset(Rest, X) = [Rest EXCEPT !.flags = f]
    BY <1>1, <2>6 DEF Unset
  <2> QED
    BY <2>5, <2>6, <2>7 DEF Object
<1>3. PICK d : d = Rest
  OBVIOUS
<1>4. /\ Sound(d, One(userRef) + One(t \in RefTask), peer)
      /\ d.refs = io.refs /\ (t \in RefTask => d.refs > 0)
      /\ d.flags = io.flags \ X /\ d.stream = io.stream
      /\ t \notin Hearing => (attached => Hears(d))
      /\ t \notin Sending => (peer = "open" => Sends(d))
  <2>1. Resets(t, X)
    BY <1>1 DEF Resets
  <2> QED
    BY <1>1, <1>2, <1>3, <2>1, RestSound
<1> QED
  BY <1>1, <1>3, <1>4

(* What a task must leave behind.                                          *)
LEMMA TaskInv ==
    ASSUME NEW r, io' = r, NEW e \in Nat, e = Outside', Sound(r, e, peer),
           peer' = peer, Surroundings', running' # "none" => r.refs > 0,
           attached' => Hears(r) \/ running' \in {"attach", "reattach", "data"},
           peer = "open" => Sends(r)
    PROVE  IInv'
BY DEF IInv, Alive

(* A task without a callback, and a task whose callback is called.         *)
LEMMA DoneInv ==
    ASSUME IInv, running = "none", NEW r, io' = r,
           Sound(r, One(userRef), peer),
           attached => Hears(r), peer = "open" => Sends(r),
           UNCHANGED <<attached, running, userRef, peer>>, Surroundings'
    PROVE  IInv'
<1>1. One(userRef) \in Nat /\ Outside' = One(userRef)
  BY DEF Outside, One
<1>2. PICK e \in Nat : e = One(userRef)
  BY <1>1
<1>3. Sound(r, e, peer) /\ e = Outside'
  BY <1>1, <1>2
<1> QED
  BY <1>3, TaskInv

LEMMA CallbackInv ==
    ASSUME IInv, NEW r, io' = r, Sound(r, One(userRef) + 1, peer),
           running' \in Callback \ {"on_shutdown"},
           attached' => Hears(r) \/ running' \in {"attach", "reattach", "data"},
           peer = "open" => Sends(r),
           UNCHANGED <<userRef, peer>>, Surroundings'
    PROVE  IInv'
<1>1. One(userRef) + 1 \in Nat /\ Outside' = One(userRef) + 1
  BY DEF Outside, One, Callback
<1>2. PICK e \in Nat : e = One(userRef) + 1 /\ e > 0
  BY <1>1 DEF One
<1>3. Sound(r, e, peer) /\ e = Outside' /\ r.refs > 0
  BY <1>1, <1>2, SoundTypes
<1> QED
  BY <1>2, <1>3, TaskInv

LEMMA AttachInv ==
    ASSUME IInv, NEW t \in {"attach", "reattach"}, RunAttach(t)
    PROVE  IInv'
<1>1. /\ Run(t) /\ io' = Rest /\ running' = t /\ attached'
      /\ UNCHANGED <<userRef, stop, phase, inbox, room, peer, calls, timeouts,
                     lost, abrupt, fault>>
  BY DEF RunAttach, TaskUnchanged, reactor, sock, aux
<1>2. t \in RefTask /\ t \notin Sending /\ t \in Callback \ {"on_shutdown"}
  BY DEF RefTask, Callback, Sending
<1>3. Surroundings'
  BY <1>1, <1>2 DEF IInv, Surroundings, RunAttach
<1>4. Sound(Rest, One(userRef) + 1, peer) /\ (peer = "open" => Sends(Rest))
  <2>1. One(t \in RefTask) = 1
    BY <1>2 DEF One
  <2> QED
    BY <1>1, <1>2, <2>1, PlainSound
<1> QED
  BY <1>1, <1>2, <1>3, <1>4, CallbackInv

LEMMA WriteInv == IInv /\ RunWrite => IInv'
<1> SUFFICES ASSUME IInv, RunWrite
             PROVE  IInv'
  OBVIOUS
<1> DEFINE w == "write"
<1>1. /\ Run(w) /\ running = "none"
      /\ UNCHANGED <<attached, running, userRef, stop, phase, inbox, room, peer, calls,
                     timeouts, abrupt, fault>>
  BY DEF RunWrite, Run, TaskUnchanged, reactor, sock, aux
<1>2. w \in RefTask /\ w \notin Sending /\ w \notin Hearing /\ One(w \in RefTask) = 1
  BY DEF RefTask, Sending, Hearing, One
<1>3. Surroundings'
  <2>1. lost' \in Nat
    BY DEF IInv, Surroundings, RunWrite
  <2> QED
    BY <1>1, <2>1 DEF IInv, Surroundings
<1>4. PICK o : o = Rest
  OBVIOUS
<1>5. PICK e \in Nat : e = One(userRef)
  BY DEF One
<1>6. /\ Sound(o, e + 1, peer) /\ o.refs > 0
      /\ attached => Hears(o)
      /\ peer = "open" => Sends(o)
  BY <1>1, <1>2, <1>4, <1>5, PlainSound
<1>7. CASE Has(io, "OPEN")
  <2>1. o.stream \in Nat
    BY <1>6, SoundTypes
  <2>2. PICK n \in Nat : n = o.stream + 1
    BY <2>1
  <2>3. PICK d : d = [o EXCEPT !.stream = n]
    OBVIOUS
  <2>4. PICK k \in Nat : k = e + 1
    OBVIOUS
  <2>5. /\ Sound(d, k, peer) /\ d.refs > 0
        /\ Hears(o) => Hears(d)
    BY <1>6, <2>3, <2>4, StreamSound
  <2>6. PICK u : u = ScheduleReady(d)
    OBVIOUS
  <2>7. Sound(u, k, peer) /\ Keeps(d, u) /\ Sends(u)
    BY <2>5, <2>6, ReadySound
  <2>8. Sound(Free2(u), e, peer) /\ Keeps(u, Free2(u))
    BY <2>4, <2>7, Free2Sound
  <2>9. io' = Free2(u)
    <3>1. d = [Rest EXCEPT !.stream = @ + 1]
      BY <1>4, <2>2, <2>3
    <3> QED
      BY <1>7, <2>6, <3>1 DEF RunWrite
  <2> QED
    BY <1>1, <1>3, <1>5, <1>6, <2>5, <2>7, <2>8, <2>9, DoneInv DEF Keeps
<1>8. CASE ~Has(io, "OPEN")
  <2>1. io' = Free2(o)
    BY <1>4, <1>8 DEF RunWrite
  <2>2. Sound(Free2(o), e, peer) /\ Keeps(o, Free2(o))
    BY <1>6, Free2Sound
  <2> QED
    BY <1>1, <1>3, <1>5, <1>6, <2>1, <2>2, DoneInv DEF Keeps
<1> QED
  BY <1>7, <1>8

LEMMA DataInv == IInv /\ RunData => IInv'
<1> SUFFICES ASSUME IInv, RunData
             PROVE  IInv'
  OBVIOUS
<1> DEFINE t == "data"
<1>1. /\ Run(t) /\ running = "none" /\ running' \in {"none", "data"}
      /\ UNCHANGED <<attached, userRef, stop, phase, inbox, room, peer, calls,
                     timeouts, lost, abrupt, fault>>
  BY DEF RunData, Run, TaskUnchanged, reactor, sock, aux
<1>2. t \in RefTask /\ t \notin Sending /\ One(t \in RefTask) = 1
  BY DEF RefTask, Callback, Sending, One
<1>3. Surroundings'
  BY <1>1 DEF IInv, Surroundings, Callback
<1>4. PICK X : X = {"POLLIN_SET", "DATA_SCHD"}
  OBVIOUS
<1>5. PICK o : o = Unset(Rest, X)
  OBVIOUS
<1>6. PICK e \in Nat : e = One(userRef)
  BY DEF One
<1>7. /\ Sound(o, e + 1, peer) /\ o.refs > 0
      /\ peer = "open" => Sends(o)
  <2>1. Resets(t, X)
    BY <1>4 DEF Resets
  <2> QED
    BY <1>1, <1>2, <1>4, <1>5, <1>6, <2>1, RestSound
<1>8. CASE o.flags \cap PreventOnData = {}
  <2>1. io' = o /\ running' = "data"
    BY <1>4, <1>5, <1>8 DEF RunData
  <2>2. "data" \in Callback \ {"on_shutdown"}
    BY DEF Callback
  <2>3. Sound(o, One(userRef) + 1, peer)
    BY <1>6, <1>7
  <2> QED
    BY <1>1, <1>3, <1>7, <2>1, <2>2, <2>3, CallbackInv
<1>9. CASE o.flags \cap PreventOnData # {}
  <2>1. PICK m : m = IF Has(o, "OPEN") THEN MonitorOut(o) ELSE o
    OBVIOUS
  <2>2. io' = FreeWithFlush(m) /\ UNCHANGED running
    BY <1>4, <1>5, <1>9, <2>1 DEF RunData
  <2>3. PICK k \in Nat : k = e + 1
    OBVIOUS
  <2>4. /\ Sound(MonitorOut(o), k, peer) /\ Keeps(o, MonitorOut(o))
    BY <1>7, <2>3, MonitorOutSound
  <2>5. Sound(m, e + 1, peer) /\ Keeps(o, m)
    BY <1>7, <2>1, <2>3, <2>4 DEF Keeps
  <2>6. Sound(FreeWithFlush(m), e, peer) /\ Keeps(m, FreeWithFlush(m))
    BY <2>5, FreeWithFlushSound
  <2>7. Hears(o)
    BY <1>9 DEF Hears
  <2> QED
    BY <1>1, <1>3, <1>6, <1>7, <2>2, <2>5, <2>6, <2>7, DoneInv DEF Keeps
<1> QED
  BY <1>8, <1>9

(* The tail of fio___io_poll_on_ready, on an object whose task was taken   *)
(* off the queue.                                                          *)
LEMMA AfterWritingInv ==
    ASSUME IInv, running = "none", NEW o, Sound(o, One(userRef) + 1, peer),
           attached => Hears(o), NEW sent \in 0 .. o.stream,
           AfterWriting(o, sent), UNCHANGED <<attached, userRef, peer>>,
           running' \in Callback \cup {"none"} => Surroundings'
    PROVE  IInv'
<1>1. PICK e \in Nat : e = One(userRef)
  BY DEF One
<1>2. PICK k \in Nat : k = e + 1 /\ k > 0
  OBVIOUS
<1>3. Sound(o, k, peer) /\ o.refs > 0 /\ o.stream \in Nat
  <2>1. Sound(o, k, peer)
    BY <1>1, <1>2
  <2> QED
    BY <1>2, <2>1, SoundTypes
<1>4. PICK s \in Nat : s = o.stream - sent
  BY <1>3
<1>5. PICK n : n = [o EXCEPT !.stream = s]
  OBVIOUS
<1>6. /\ Sound(n, k, peer) /\ n.refs = o.refs /\ n.stream = s
      /\ Hears(o) => Hears(n)
      /\ s = 0 => Sends(n)
  BY <1>3, <1>5, StreamSound
<1>7. PICK xs \in SUBSET (PreventOnData \cup {"TOUCH"}) : xs = {"TOUCH"}
  OBVIOUS
<1>8. PICK w : w = IF sent > 0 THEN Unset(n, xs) ELSE n
  OBVIOUS
<1>9. /\ Sound(w, k, peer) /\ w.refs > 0 /\ w.stream = s
      /\ attached => Hears(w)
      /\ s = 0 => Sends(w)
  <2>1. /\ Sound(Unset(n, xs), k, peer) /\ Keeps(n, Unset(n, xs))
        /\ Unset(n, xs).refs = n.refs /\ Unset(n, xs).stream = n.stream
    BY <1>6, <1>7, UnsetSound
  <2> QED
    BY <1>3, <1>6, <1>8, <2>1 DEF Keeps
<1>10. AfterWriting(o, sent) <=>
         IF w.stream > 0 THEN
             /\ io' = FreeWithFlush(MonitorOut(Throttle(w)))
             /\ UNCHANGED running
         ELSE IF Has(w, "CLOSE") THEN
             /\ io' = FreeWithFlush(CloseNow(w))
             /\ UNCHANGED running
         ELSE
             /\ io' = Unthrottle(w)
             /\ running' = "ready"
  <2>1. n = [o EXCEPT !.stream = @ - sent]
    BY <1>4, <1>5
  <2> QED
    BY <1>7, <1>8, <2>1 DEF AfterWriting
<1>11. CASE w.stream > 0
  <2>1. /\ io' = FreeWithFlush(MonitorOut(Throttle(w)))
        /\ UNCHANGED running
    BY <1>10, <1>11
  <2>2. PICK h : h = Throttle(w)
    OBVIOUS
  <2>3. PICK x \in PreventOnData \cup ClosedAll \cup {"WRITE_DIRTY"} : x = "THROTTLED"
    BY DEF PreventOnData
  <2>4. /\ Sound(Set(w, x), k, peer) /\ Keeps(w, Set(w, x))
        /\ Set(w, x).refs = w.refs
    BY <1>9, SetSound
  <2>5. Sound(h, k, peer) /\ Keeps(w, h) /\ h.refs > 0
    BY <1>9, <2>2, <2>3, <2>4 DEF Throttle, Keeps
  <2>6. PICK m : m = MonitorOut(h)
    OBVIOUS
  <2>7. /\ Sound(m, k, peer) /\ Keeps(h, m)
        /\ peer = "open" => Sends(m)
    BY <2>5, <2>6, MonitorOutSound
  <2>8. Sound(FreeWithFlush(m), e, peer) /\ Keeps(m, FreeWithFlush(m))
    BY <1>2, <2>7, FreeWithFlushSound
  <2>9. Surroundings'
    BY <2>1
  <2> QED
    BY <1>1, <1>9, <2>1, <2>2, <2>5, <2>6, <2>7, <2>8, <2>9, DoneInv DEF Keeps
<1>12. CASE ~(w.stream > 0) /\ Has(w, "CLOSE")
  <2>1. PICK c : c = CloseNow(w)
    OBVIOUS
  <2>2. io' = FreeWithFlush(c) /\ UNCHANGED running
    BY <1>10, <1>12, <2>1
  <2>3. Sound(c, k, peer) /\ Hears(c) /\ Sends(c)
    BY <1>9, <2>1, CloseNowSound
  <2>4. Sound(FreeWithFlush(c), e, peer) /\ Keeps(c, FreeWithFlush(c))
    BY <1>2, <2>3, FreeWithFlushSound
  <2>5. Surroundings'
    BY <2>2
  <2> QED
    BY <1>1, <2>2, <2>3, <2>4, <2>5, DoneInv DEF Keeps
<1>13. CASE ~(w.stream > 0) /\ ~Has(w, "CLOSE")
  <2>1. PICK u : u = Unthrottle(w)
    OBVIOUS
  <2>2. io' = u /\ running' = "ready" /\ s = 0
    BY <1>9, <1>10, <1>13, <2>1
  <2>3. Sound(u, k, peer) /\ Sends(u) /\ (attached => Hears(u))
    <3>1. CASE ~Has(w, "THROTTLED")
      BY <1>9, <2>1, <2>2, <3>1 DEF Unthrottle
    <3>2. CASE Has(w, "THROTTLED")
      <4>1. PICK ys \in SUBSET (PreventOnData \cup {"TOUCH"}) : ys = {"THROTTLED"}
        BY DEF PreventOnData
      <4>2. PICK v : v = Unset(w, ys)
        OBVIOUS
      <4>3. /\ Sound(v, k, peer) /\ v.refs > 0
            /\ Sends(w) => Sends(v)
        BY <1>9, <4>2, UnsetSound
      <4>4. /\ Sound(MonitorIn(v), k, peer)
            /\ Hears(MonitorIn(v)) /\ (Sends(v) => Sends(MonitorIn(v)))
        BY <4>3, MonitorInSound
      <4>5. u = MonitorIn(v)
        BY <2>1, <3>2, <4>1, <4>2 DEF Unthrottle
      <4> QED
        BY <1>9, <2>2, <4>3, <4>4, <4>5
    <3> QED
      BY <3>1, <3>2
  <2>4. running' \in Callback \ {"on_shutdown"} /\ Surroundings'
    BY <2>2 DEF Callback
  <2>5. Sound(u, One(userRef) + 1, peer)
    BY <1>1, <1>2, <2>3
  <2> QED
    BY <2>2, <2>3, <2>4, <2>5, CallbackInv
<1> QED
  BY <1>11, <1>12, <1>13

LEMMA ReadyInv == IInv /\ RunReady => IInv'
<1> SUFFICES ASSUME IInv, RunReady
             PROVE  IInv'
  OBVIOUS
<1> DEFINE t == "ready"
<1>1. /\ Run(t) /\ running = "none"
      /\ UNCHANGED <<attached, userRef, stop, phase, inbox, peer, calls,
                     timeouts, lost, fault>>
  BY DEF RunReady, Run, TaskUnchanged, reactor
<1>2. t \in RefTask /\ t \notin Hearing /\ One(t \in RefTask) = 1
  BY DEF RefTask, Callback, Hearing, One
<1>3. PICK X : X = {"POLLOUT_SET", "WRITE_SCHD"}
  OBVIOUS
<1>4. PICK o : o = Unset(Rest, X)
  OBVIOUS
<1>5. PICK e \in Nat : e = One(userRef)
  BY DEF One
<1>6. PICK k \in Nat : k = e + 1
  OBVIOUS
<1>7. /\ Sound(o, k, peer) /\ o.refs > 0
      /\ attached => Hears(o)
      /\ ~Has(o, "OPEN") => Sends(o)
  <2>1. Resets(t, X)
    BY <1>3 DEF Resets
  <2>2. /\ Sound(o, One(userRef) + 1, peer) /\ o.refs > 0
        /\ attached => Hears(o)
    BY <1>1, <1>2, <1>3, <1>4, <2>1, RestSound
  <2> QED
    BY <1>5, <1>6, <2>2 DEF Sends
<1>8. ASSUME running' \in Callback \cup {"none"}, room' \in BOOLEAN, abrupt' \in BOOLEAN
      PROVE  Surroundings'
  BY <1>1, <1>8 DEF IInv, Surroundings
<1>9. room \in BOOLEAN /\ abrupt \in BOOLEAN
  BY DEF IInv, Surroundings
<1>10. CASE ~Has(o, "OPEN")
  <2>1. io' = FreeWithFlush(o) /\ UNCHANGED <<running, room, abrupt>>
    BY <1>3, <1>4, <1>10 DEF RunReady
  <2>2. Sound(FreeWithFlush(o), e, peer) /\ Keeps(o, FreeWithFlush(o))
    BY <1>6, <1>7, FreeWithFlushSound
  <2>3. Surroundings'
    BY <1>1, <1>8, <1>9, <2>1
  <2> QED
    BY <1>1, <1>5, <1>7, <1>10, <2>1, <2>2, <2>3, DoneInv DEF Keeps
<1>11. CASE Has(o, "OPEN")
  <2>1. \/ /\ io' = FreeWithFlush(CloseNow(o))
           /\ abrupt' = TRUE
           /\ UNCHANGED <<running, room>>
        \/ \E sent \in 0 .. o.stream :
           /\ room' = (room /\ sent = o.stream)
           /\ AfterWriting(o, sent)
           /\ UNCHANGED abrupt
    BY <1>3, <1>4, <1>11 DEF RunReady
  <2>2. CASE /\ io' = FreeWithFlush(CloseNow(o))
             /\ abrupt' = TRUE
             /\ UNCHANGED <<running, room>>
    <3>1. PICK c : c = CloseNow(o)
      OBVIOUS
    <3>2. Sound(c, k, peer) /\ Hears(c) /\ Sends(c)
      BY <1>7, <3>1, CloseNowSound
    <3>3. Sound(FreeWithFlush(c), e, peer) /\ Keeps(c, FreeWithFlush(c))
      BY <1>6, <3>2, FreeWithFlushSound
    <3>4. Surroundings'
      BY <1>1, <1>8, <1>9, <2>2
    <3> QED
      BY <1>1, <1>5, <2>2, <3>1, <3>2, <3>3, <3>4, DoneInv DEF Keeps
  <2>3. ASSUME NEW sent \in 0 .. o.stream,
               room' = (room /\ sent = o.stream), AfterWriting(o, sent),
               UNCHANGED abrupt
        PROVE  IInv'
    <3>1. room' \in BOOLEAN /\ abrupt' \in BOOLEAN
      BY <1>9, <2>3
    <3>2. running' \in Callback \cup {"none"} => Surroundings'
      BY <1>8, <3>1
    <3>3. Sound(o, One(userRef) + 1, peer)
      BY <1>5, <1>6, <1>7
    <3> QED
      BY <1>1, <1>7, <2>3, <3>2, <3>3, AfterWritingInv
  <2> QED
    BY <2>1, <2>2, <2>3
<1> QED
  BY <1>10, <1>11

LEMMA CloseTaskInv == IInv /\ RunClose => IInv'
<1> SUFFICES ASSUME IInv, RunClose
             PROVE  IInv'
  OBVIOUS
<1> DEFINE t == "close"
<1>1. /\ Run(t) /\ running = "none"
      /\ UNCHANGED <<attached, running, userRef, stop, phase, inbox, room, peer, calls,
                     timeouts, lost, fault>>
      /\ abrupt' = TRUE
  BY DEF RunClose, Run, TaskUnchanged, reactor, sock
<1>2. t \in RefTask /\ One(t \in RefTask) = 1
  BY DEF RefTask, One
<1>3. Surroundings'
  BY <1>1 DEF IInv, Surroundings
<1>4. PICK o : o = Rest
  OBVIOUS
<1>5. PICK e \in Nat : e = One(userRef)
  BY DEF One
<1>6. PICK k \in Nat : k = e + 1
  OBVIOUS
<1>7. Sound(o, k, peer) /\ o.refs > 0
  BY <1>1, <1>2, <1>4, <1>5, <1>6, PlainSound
<1>8. PICK x \in PreventOnData \cup ClosedAll \cup {"WRITE_DIRTY"} : x = "CLOSE_REMOTE"
  BY DEF ClosedAll
<1>9. PICK m : m = IF Has(io, "CLOSE") THEN o ELSE Set(o, x)
  OBVIOUS
<1>10. Sound(m, k, peer) /\ m.refs > 0
  BY <1>7, <1>9, SetSound
<1>11. PICK c : c = CloseNow(m)
  OBVIOUS
<1>12. Sound(c, k, peer) /\ Hears(c) /\ Sends(c)
  BY <1>10, <1>11, CloseNowSound
<1>13. Sound(Free2(c), e, peer) /\ Keeps(c, Free2(c))
  BY <1>6, <1>12, Free2Sound
<1>14. io' = Free2(c)
  BY <1>4, <1>8, <1>9, <1>11 DEF RunClose
<1> QED
  BY <1>1, <1>3, <1>5, <1>12, <1>13, <1>14, DoneInv DEF Keeps

LEMMA TimeoutInv == IInv /\ RunTimeout => IInv'
<1> SUFFICES ASSUME IInv, RunTimeout
             PROVE  IInv'
  OBVIOUS
<1> DEFINE t == "timeout"
<1>1. /\ Run(t) /\ io' = Rest /\ running' = t
      /\ UNCHANGED <<attached, userRef, stop, phase, inbox, room, peer, calls,
                     timeouts, lost, abrupt, fault>>
  BY DEF RunTimeout, TaskUnchanged, reactor, sock, aux
<1>2. /\ t \in RefTask /\ t \notin Sending /\ t \notin Hearing
      /\ t \in Callback \ {"on_shutdown"} /\ One(t \in RefTask) = 1
  BY DEF RefTask, Callback, Sending, Hearing, One
<1>3. Surroundings'
  BY <1>1, <1>2 DEF IInv, Surroundings
<1>4. /\ Sound(Rest, One(userRef) + 1, peer)
      /\ attached => Hears(Rest)
      /\ peer = "open" => Sends(Rest)
  BY <1>1, <1>2, PlainSound
<1> QED
  BY <1>1, <1>2, <1>3, <1>4, CallbackInv

LEMMA FreeTaskInv == IInv /\ RunFree => IInv'
<1> SUFFICES ASSUME IInv, RunFree
             PROVE  IInv'
  OBVIOUS
<1> DEFINE t == "free"
<1>1. /\ Run(t) /\ running = "none" /\ io' = FreeWithFlush(Rest)
      /\ UNCHANGED <<attached, running, userRef, stop, phase, inbox, room, peer, calls,
                     timeouts, lost, abrupt, fault>>
  BY DEF RunFree, Run, TaskUnchanged, reactor, sock, aux
<1>2. t \in RefTask /\ t \notin Sending /\ t \notin Hearing /\ One(t \in RefTask) = 1
  BY DEF RefTask, Sending, Hearing, One
<1>3. Surroundings'
  BY <1>1 DEF IInv, Surroundings
<1>4. PICK o : o = Rest
  OBVIOUS
<1>5. PICK e \in Nat : e = One(userRef)
  BY DEF One
<1>6. /\ Sound(o, e + 1, peer)
      /\ attached => Hears(o)
      /\ peer = "open" => Sends(o)
  BY <1>1, <1>2, <1>4, <1>5, PlainSound
<1>7. Sound(FreeWithFlush(o), e, peer) /\ Keeps(o, FreeWithFlush(o))
  BY <1>6, FreeWithFlushSound
<1> QED
  BY <1>1, <1>3, <1>4, <1>5, <1>6, <1>7, DoneInv DEF Keeps

LEMMA TouchTaskInv == IInv /\ RunTouch => IInv'
<1> SUFFICES ASSUME IInv, RunTouch
             PROVE  IInv'
  OBVIOUS
<1> DEFINE t == "touch"
<1>1. /\ Run(t) /\ running = "none"
      /\ UNCHANGED <<attached, running, userRef, stop, phase, inbox, room, peer, calls,
                     timeouts, lost, abrupt, fault>>
  BY DEF RunTouch, Run, TaskUnchanged, reactor, sock, aux
<1>2. t \in RefTask /\ t \notin Sending /\ t \notin Hearing /\ One(t \in RefTask) = 1
  BY DEF RefTask, Sending, Hearing, One
<1>3. Surroundings'
  BY <1>1 DEF IInv, Surroundings
<1>4. PICK X : X = {"TOUCH"}
  OBVIOUS
<1>5. PICK o : o = Unset(Rest, X)
  OBVIOUS
<1>6. PICK e \in Nat : e = One(userRef)
  BY DEF One
<1>7. /\ Sound(o, e + 1, peer)
      /\ attached => Hears(o)
      /\ peer = "open" => Sends(o)
  <2>1. Resets(t, X)
    BY <1>4 DEF Resets
  <2> QED
    BY <1>1, <1>2, <1>4, <1>5, <1>6, <2>1, RestSound
<1>8. Sound(Free2(o), e, peer) /\ Keeps(o, Free2(o)) /\ io' = Free2(o)
  <2>1. io' = Free2(o)
    BY <1>4, <1>5 DEF RunTouch
  <2> QED
    BY <1>7, <2>1, Free2Sound
<1> QED
  BY <1>1, <1>3, <1>6, <1>7, <1>8, DoneInv DEF Keeps

(* The only task that may find the object gone.                            *)
LEMMA UnsuspendInv == IInv /\ RunUnsuspend => IInv'
<1> SUFFICES ASSUME IInv, RunUnsuspend
             PROVE  IInv'
  OBVIOUS
<1> DEFINE t == "unsuspend"
<1>1. /\ Run(t) /\ running = "none"
      /\ UNCHANGED <<attached, running, userRef, stop, phase, inbox, room, peer, calls,
                     timeouts, lost, abrupt>>
  BY DEF RunUnsuspend, Run, TaskUnchanged, reactor, sock
<1>2. t \notin Sending /\ One(t \in RefTask) = 0
  BY DEF RefTask, Callback, Sending, One
<1>3. Surroundings'
  <2>1. fault' \in BOOLEAN
    BY DEF IInv, Surroundings, RunUnsuspend
  <2> QED
    BY <1>1, <2>1 DEF IInv, Surroundings
<1>4. PICK o : o = Rest
  OBVIOUS
<1>5. PICK e \in Nat : e = One(userRef)
  BY DEF One
<1>6. /\ Sound(o, e, peer) /\ o.refs = io.refs
      /\ peer = "open" => Sends(o)
  BY <1>1, <1>2, <1>4, <1>5, PlainSound
<1>7. PICK r : r = io'
  OBVIOUS
<1>8. Sound(r, e, peer) /\ Hears(r) /\ (peer = "open" => Sends(r))
  <2>1. CASE ~Alive
    <3>1. r = o
      BY <1>4, <1>7, <2>1 DEF RunUnsuspend
    <3> QED
      BY <1>6, <2>1, <3>1 DEF Hears, Alive
  <2>2. CASE Alive /\ stop
    <3>1. r = Close(o) /\ o.refs > 0
      BY <1>4, <1>6, <1>7, <2>2 DEF RunUnsuspend, Alive
    <3> QED
      BY <1>6, <3>1, CloseSound DEF Keeps
  <2>3. CASE Alive /\ ~stop
    <3>1. r = MonitorIn(o) /\ o.refs > 0
      BY <1>4, <1>6, <1>7, <2>3 DEF RunUnsuspend, Alive
    <3> QED
      BY <1>6, <3>1, MonitorInSound
  <2> QED
    BY <2>1, <2>2, <2>3
<1> QED
  BY <1>1, <1>3, <1>5, <1>7, <1>8, DoneInv

LEMMA CallbackReturnsInv == IInv /\ CallbackReturns => IInv'
<1> SUFFICES ASSUME IInv, CallbackReturns
             PROVE  IInv'
  OBVIOUS
<1>1. /\ running \notin {"none", "on_shutdown"} /\ running' = "none"
      /\ UNCHANGED <<attached, userRef, stop, phase, inbox, room, peer, calls,
                     timeouts, lost, abrupt, fault>>
  BY DEF CallbackReturns, TaskUnchanged, reactor, sock, aux
<1>2. Surroundings'
  BY <1>1 DEF IInv, Surroundings
<1>3. PICK e \in Nat : e = One(userRef)
  BY DEF One
<1>4. PICK k \in Nat : k = e + 1 /\ k > 0
  OBVIOUS
<1>5. Sound(io, k, peer) /\ io.refs > 0
  <2>1. Outside = k
    BY <1>1, <1>3, <1>4, OutsideType
  <2>2. Sound(io, k, peer)
    BY <2>1 DEF IInv
  <2> QED
    BY <1>4, <2>2, SoundTypes
<1>6. /\ attached => Hears(io) \/ running \in {"attach", "reattach", "data"}
      /\ peer = "open" => Sends(io)
  BY DEF IInv
<1>7. PICK m : m = CASE running = "attach"   -> MonitorIn(MonitorOut(io))
                     [] running = "reattach" -> MonitorIn(io)
                     [] running = "data"     -> MonitorIn(io)
                     [] OTHER                -> io
  OBVIOUS
<1>8. Sound(m, k, peer) /\ (attached => Hears(m)) /\ (peer = "open" => Sends(m))
  <2>1. CASE running = "attach"
    <3>1. PICK u : u = MonitorOut(io)
      OBVIOUS
    <3>2. Sound(u, k, peer) /\ u.refs > 0 /\ (peer = "open" => Sends(u))
      BY <1>5, <3>1, MonitorOutSound
    <3>3. m = MonitorIn(u)
      BY <1>7, <2>1, <3>1
    <3> QED
      BY <3>2, <3>3, MonitorInSound
  <2>2. CASE running \in {"reattach", "data"}
    <3>1. m = MonitorIn(io)
      BY <1>7, <2>2
    <3> QED
      BY <1>5, <1>6, <3>1, MonitorInSound
  <2>3. CASE running \notin {"attach", "reattach", "data"}
    <3>1. m = io
      BY <1>7, <2>3
    <3> QED
      BY <1>5, <1>6, <2>3, <3>1
  <2> QED
    BY <2>1, <2>2, <2>3
<1>9. Sound(FreeWithFlush(m), e, peer) /\ Keeps(m, FreeWithFlush(m))
  BY <1>4, <1>8, FreeWithFlushSound
<1>10. io' = FreeWithFlush(m)
  BY <1>7 DEF CallbackReturns
<1>11. Outside' = e /\ running' \notin {"attach", "reattach", "data"}
  BY <1>1, <1>3 DEF Outside, One
<1> QED
  BY <1>1, <1>2, <1>8, <1>9, <1>10, <1>11, TaskInv DEF Keeps

(* One cycle of the reactor.                                               *)
LEMMA TickedInv ==
    ASSUME IInv, Run("tick"), Ticked(Rest),
           UNCHANGED <<attached, running, userRef, stop, phase, inbox, room, peer, calls,
                       lost, abrupt, fault>>
    PROVE  IInv'
<1>1. PICK b \in {"tick", "unsuspend"} : b = "tick"
  OBVIOUS
<1>2. /\ Run(b) /\ running = "none" /\ One(b \in RefTask) = 0
      /\ b \notin Sending /\ b \notin Hearing
  BY <1>1, Kinds DEF Run, One, Sending, Hearing
<1>3. PICK o : o = Rest
  OBVIOUS
<1>4. PICK e \in Nat : e = One(userRef)
  BY DEF One
<1>5. /\ Sound(o, e, peer) /\ o.refs = io.refs
      /\ attached => Hears(o)
      /\ peer = "open" => Sends(o)
  BY <1>1, <1>2, <1>3, <1>4, PlainSound
<1>6. PICK u : u = PollOut(o)
  OBVIOUS
<1>7. /\ Sound(u, e, peer)
      /\ o.refs > 0 => u.refs > 0
      /\ Hears(o) => Hears(u)
      /\ peer = "open" /\ Sends(o) => Sends(u)
  BY <1>5, <1>6, PollOutSound
<1>8. PICK v : v = PollIn(u)
  OBVIOUS
<1>9. /\ Sound(v, e, peer)
      /\ u.refs > 0 => v.refs > 0
      /\ Hears(u) => Hears(v)
      /\ peer = "open" /\ Sends(u) => Sends(v)
  BY <1>7, <1>8, PollInSound
<1>10. \/ io' = [v EXCEPT !.tasks = Append(@, b)] /\ UNCHANGED timeouts
       \/ /\ Alive /\ timeouts < MaxTimeouts /\ timeouts' = timeouts + 1
          /\ io' = [Defer(v, "timeout") EXCEPT !.tasks = Append(@, b)]
  BY <1>1, <1>3, <1>6, <1>8 DEF Ticked
<1>11. timeouts' \in 0 .. MaxTimeouts
  BY <1>10, BoundAssumption DEF IInv, Surroundings
<1>12. Surroundings'
  BY <1>11 DEF IInv, Surroundings
<1>13. PICK d : /\ io' = [d EXCEPT !.tasks = Append(@, b)]
                /\ Sound(d, e, peer) /\ Keeps(v, d)
  <2>1. CASE io' = [v EXCEPT !.tasks = Append(@, b)]
    BY <1>9, <2>1 DEF Keeps
  <2>2. CASE Alive /\ io' = [Defer(v, "timeout") EXCEPT !.tasks = Append(@, b)]
    <3>1. PICK t \in RefTask \ {"ready"} : t = "timeout"
      BY Kinds
    <3>2. v.refs > 0
      BY <1>5, <1>7, <1>9, <2>2 DEF Alive
    <3>3. PICK d : d = Defer(v, t)
      OBVIOUS
    <3>4. Sound(d, e, peer) /\ Keeps(v, d)
      BY <1>9, <3>2, <3>3, DeferSound
    <3> QED
      BY <2>2, <3>1, <3>3, <3>4
  <2> QED
    BY <1>10, <2>1, <2>2
<1>14. PICK r : r = [d EXCEPT !.tasks = Append(@, b)]
  OBVIOUS
<1>15. Sound(r, e, peer) /\ Keeps(d, r)
  BY <1>13, <1>14, BareTaskSound
<1>16. /\ attached => Hears(r)
       /\ peer = "open" => Sends(r)
  BY <1>5, <1>7, <1>9, <1>13, <1>15 DEF Keeps
<1> QED
  BY <1>2, <1>4, <1>12, <1>13, <1>14, <1>15, <1>16, DoneInv

(* fio___io_shutdown.                                                      *)
LEMMA ShutdownInv == IInv /\ Shutdown => IInv'
<1> SUFFICES ASSUME IInv, Shutdown
             PROVE  IInv'
  OBVIOUS
<1>1. /\ running = "none" /\ io.tasks = <<>>
      /\ UNCHANGED <<attached, userRef, stop, inbox, room, peer, calls, timeouts,
                     lost, abrupt, fault>>
      /\ phase' = "shutdown" /\ running' \in {"none", "on_shutdown"}
  BY DEF Shutdown, sock, aux
<1>2. Surroundings'
  BY <1>1 DEF IInv, Surroundings, Callback
<1>3. PICK e \in Nat : e = One(userRef)
  BY DEF One
<1>4. e = Outside /\ e = Outside'
  BY <1>1, <1>3 DEF Outside, One
<1>5. /\ Sound(io, e, peer)
      /\ attached => Hears(io)
      /\ peer = "open" => Sends(io)
  BY <1>1, <1>4 DEF IInv
<1>6. CASE Alive /\ attached
  <2>1. running' = "on_shutdown" /\ io' = io
    BY <1>6 DEF Shutdown
  <2> QED
    BY <1>1, <1>2, <1>4, <1>5, <1>6, <2>1 DEF IInv, Alive
<1>7. CASE ~(Alive /\ attached)
  <2>1. PICK b \in {"tick", "unsuspend"} : b = "tick"
    OBVIOUS
  <2>2. PICK r : r = [io EXCEPT !.tasks = Append(@, b)]
    OBVIOUS
  <2>3. io' = r /\ UNCHANGED running
    <3>1. Append(io.tasks, b) = <<"tick">>
      BY <1>1, <2>1
    <3>2. r = [io EXCEPT !.tasks = <<"tick">>]
      BY <2>2, <3>1
    <3> QED
      BY <1>7, <3>2 DEF Shutdown
  <2>4. Sound(r, e, peer) /\ Keeps(io, r)
    BY <1>5, <2>2, BareTaskSound
  <2> QED
    BY <1>1, <1>2, <1>3, <1>5, <2>3, <2>4, DoneInv DEF Keeps
<1> QED
  BY <1>6, <1>7

LEMMA OnShutdownInv == IInv /\ OnShutdownReturns => IInv'
<1> SUFFICES ASSUME IInv, OnShutdownReturns
             PROVE  IInv'
  OBVIOUS
<1>1. /\ running = "on_shutdown" /\ running' = "none"
      /\ UNCHANGED <<attached, userRef, stop, phase, inbox, room, peer, calls,
                     timeouts, lost, abrupt, fault>>
  BY DEF OnShutdownReturns, TaskUnchanged, reactor, sock, aux
<1>2. Surroundings'
  BY <1>1 DEF IInv, Surroundings
<1>3. PICK e \in Nat : e = One(userRef)
  BY DEF One
<1>4. e = Outside /\ e = Outside'
  BY <1>1, <1>3 DEF Outside, One
<1>5. /\ Sound(io, e, peer) /\ io.refs > 0
      /\ attached => Hears(io)
      /\ peer = "open" => Sends(io)
  BY <1>1, <1>4 DEF IInv, Alive
<1>6. PICK b \in {"tick", "unsuspend"} : b = "tick"
  OBVIOUS
<1>7. PICK o : o = IF Has(io, "SUSPENDED") THEN io ELSE Close(io)
  OBVIOUS
<1>8. Sound(o, e, peer) /\ Keeps(io, o)
  BY <1>5, <1>7, CloseSound DEF Keeps
<1>9. PICK r : r = [o EXCEPT !.tasks = Append(@, b)]
  OBVIOUS
<1>10. Sound(r, e, peer) /\ Keeps(o, r)
  BY <1>8, <1>9, BareTaskSound
<1>11. io' = r
  BY <1>6, <1>7, <1>9 DEF OnShutdownReturns
<1> QED
  BY <1>1, <1>2, <1>4, <1>5, <1>8, <1>10, <1>11, TaskInv DEF Keeps

LEMMA ForceCloseInv == IInv /\ ForceClose => IInv'
<1> SUFFICES ASSUME IInv, ForceClose
             PROVE  IInv'
  OBVIOUS
<1>1. /\ running = "none"
      /\ UNCHANGED <<attached, running, userRef, stop, inbox, room, peer, calls, timeouts,
                     lost, fault>>
      /\ phase' = "forced"
  BY DEF ForceClose, sock
<1>2. Surroundings'
  <2>1. abrupt' \in BOOLEAN
    BY DEF IInv, Surroundings, ForceClose
  <2> QED
    BY <1>1, <2>1 DEF IInv, Surroundings
<1>3. PICK e \in Nat : e = One(userRef)
  BY DEF One
<1>4. e = Outside
  BY <1>1, <1>3 DEF Outside, One
<1>5. /\ Sound(io, e, peer)
      /\ attached => Hears(io)
      /\ peer = "open" => Sends(io)
  BY <1>1, <1>4 DEF IInv
<1>6. PICK r : r = io'
  OBVIOUS
<1>7. Sound(r, e, peer) /\ (attached => Hears(r)) /\ (peer = "open" => Sends(r))
  <2>1. CASE Alive /\ attached
    <3>1. r = CloseNow(io) /\ io.refs > 0
      BY <1>6, <2>1 DEF ForceClose, Alive
    <3> QED
      BY <1>5, <3>1, CloseNowSound
  <2>2. CASE ~(Alive /\ attached)
    <3>1. r = io
      BY <1>6, <2>2 DEF ForceClose
    <3> QED
      BY <1>5, <3>1
  <2> QED
    BY <2>1, <2>2
<1> QED
  BY <1>1, <1>2, <1>3, <1>6, <1>7, DoneInv

LEMMA CycleInv == IInv /\ Cycle => IInv'
<1> SUFFICES ASSUME IInv, Cycle
             PROVE  IInv'
  OBVIOUS
<1>1. ASSUME Tick \/ ShutdownTick
      PROVE  IInv'
  <2>1. /\ Run("tick") /\ Ticked(Rest)
        /\ UNCHANGED <<attached, running, userRef, stop, phase, inbox, room, peer, calls,
                       lost, abrupt, fault>>
    BY <1>1 DEF Tick, ShutdownTick, TaskUnchanged, reactor, sock, aux
  <2> QED
    BY <2>1, TickedInv
<1>2. ASSUME WorkEnds \/ ShutdownOver
      PROVE  IInv'
  <2>1. /\ io' = Rest /\ phase' \in {phase, "ending"}
        /\ UNCHANGED <<attached, running, userRef, stop, inbox, room, peer, calls,
                       timeouts, lost, abrupt, fault>>
    BY <1>2 DEF WorkEnds, ShutdownOver, TaskUnchanged, reactor, sock, aux
  <2>2. PICK t : t = "tick"
    OBVIOUS
  <2>3. /\ Run(t) /\ running = "none" /\ One(t \in RefTask) = 0
        /\ t \notin {"ready", "data", "touch"} /\ t \notin Sending /\ t \notin Hearing
    BY <1>2, <2>2, Kinds DEF WorkEnds, ShutdownOver, Run, One, Sending, Hearing
  <2>4. Surroundings'
    BY <2>1 DEF IInv, Surroundings
  <2>5. PICK o : o = Rest
    OBVIOUS
  <2>6. One(userRef) + One(t \in RefTask) = One(userRef)
    BY <2>3 DEF One
  <2>7. /\ Sound(o, One(userRef), peer)
        /\ attached => Hears(o)
        /\ peer = "open" => Sends(o)
    BY <2>3, <2>5, <2>6, PlainSound
  <2> QED
    BY <2>1, <2>3, <2>4, <2>5, <2>7, DoneInv
<1>3. CASE ReactorDone
  <2>1. /\ UNCHANGED <<io, attached, running, userRef, stop, inbox, room, peer, calls,
                       timeouts, lost, abrupt, fault>>
        /\ phase' = "done"
    BY <1>3 DEF ReactorDone, sock, aux
  <2>2. Surroundings' /\ Outside' = Outside
    BY <2>1 DEF IInv, Surroundings, Outside
  <2> QED
    BY <2>1, <2>2 DEF IInv, Alive
<1> QED
  BY <1>1, <1>2, <1>3, ShutdownInv, OnShutdownInv, ForceCloseInv DEF Cycle

LEMMA StopInv == IInv /\ Stop => IInv'
<1> SUFFICES ASSUME IInv, Stop
             PROVE  IInv'
  OBVIOUS
<1>1. /\ UNCHANGED <<io, attached, running, userRef, phase, inbox, room, peer, calls,
                     timeouts, lost, abrupt, fault>>
      /\ stop' = TRUE
  BY DEF Stop, sock, aux
<1>2. Surroundings' /\ Outside' = Outside
  BY <1>1 DEF IInv, Surroundings, Outside
<1> QED
  BY <1>1, <1>2 DEF IInv, Alive

(* What the peer does: it can only take the promise about output away.     *)
LEMMA PeerInv == IInv /\ Peer => IInv'
<1> SUFFICES ASSUME IInv, Peer
             PROVE  IInv'
  OBVIOUS
<1>1. /\ UNCHANGED <<io, attached, running, userRef, stop, phase, calls, timeouts,
                     lost, abrupt, fault>>
      /\ inbox' \in {inbox, TRUE} /\ room' \in {room, TRUE}
      /\ peer' \in {peer, "half", "gone"}
  BY DEF Peer, PeerWrites, PeerReads, PeerEnds, PeerLeaves, reactor, aux
<1>2. Surroundings' /\ Outside' = Outside
  <2>1. Surroundings'
    <3>1. inbox' \in BOOLEAN /\ room' \in BOOLEAN
      BY <1>1, Zenon DEF IInv, Surroundings
    <3>2. peer' \in {"open", "half", "gone"}
      BY <1>1 DEF IInv, Surroundings
    <3> QED
      BY <1>1, <3>1, <3>2 DEF IInv, Surroundings
  <2>2. Outside' = Outside
    BY <1>1 DEF Outside
  <2> QED
    BY <2>1, <2>2
<1>3. peer' = "open" => peer = "open"
  BY <1>1
<1>4. Sound(io, Outside, peer')
  <2>1. Monitored(io, peer')
    BY <1>3 DEF IInv, Sound, Monitored
  <2> QED
    BY <2>1 DEF IInv, Sound
<1> QED
  BY <1>1, <1>2, <1>3, <1>4 DEF IInv, Alive

LEMMA NextInv == IInv /\ [Next]_vars => IInv'
<1> SUFFICES ASSUME IInv, [Next]_vars
             PROVE  IInv'
  OBVIOUS
<1>1. CASE RunTask
  BY <1>1, AttachInv, WriteInv, DataInv, ReadyInv, CloseTaskInv, TimeoutInv, FreeTaskInv,
     TouchTaskInv, UnsuspendInv, CallbackReturnsInv DEF RunTask
<1>2. CASE UNCHANGED vars
  <2>1. UNCHANGED <<io, attached, running, userRef, stop, phase, inbox, room, peer, calls,
                    timeouts, lost, abrupt, fault>>
    BY <1>2 DEF vars, reactor, sock, aux
  <2>2. Surroundings' /\ Outside' = Outside
    BY <2>1 DEF IInv, Surroundings, Outside
  <2> QED
    BY <2>1, <2>2 DEF IInv, Alive
<1> QED
  BY <1>1, <1>2, ApiInv, FreeInv, CycleInv, StopInv, PeerInv DEF Next

-----------------------------------------------------------------------------
(* The theorems.                                                           *)

(* IInv holds in every state of the reactor, whatever the API is called    *)
(* for, the peer does and the order is.                                    *)
THEOREM Invariance == Spec => []IInv
<1>1. Init => IInv
  BY InitInv
<1>2. IInv /\ [Next]_vars => IInv'
  BY NextInv
<1> QED
  BY <1>1, <1>2, PTL DEF Spec

LEMMA QueuedCount ==
    ASSUME IInv
    PROVE  /\ io \in Object
           /\ \A S : Cardinality(Queued(S)) = Count(io.tasks, S)
           /\ \A S : Queued(S) # {} <=> Count(io.tasks, S) > 0
<1>1. io \in Object
  BY DEF IInv, Sound
<1>2. io.tasks \in Seq(AnyTask)
  BY <1>1 DEF Object
<1>3. \A S : Queued(S) = PlacesOf(io.tasks, S)
  BY DEF Queued, PlacesOf
<1>4. \A S : /\ Count(io.tasks, S) \in Nat
             /\ Count(io.tasks, S) = 0 <=> PlacesOf(io.tasks, S) = {}
  BY <1>2, CountType
<1>5. \A S : Cardinality(Queued(S)) = Count(io.tasks, S)
  BY <1>3 DEF Count
<1>6. ASSUME NEW S
      PROVE  Queued(S) # {} <=> Count(io.tasks, S) > 0
  <2>1. /\ Count(io.tasks, S) \in Nat /\ Queued(S) = PlacesOf(io.tasks, S)
        /\ Count(io.tasks, S) = 0 <=> PlacesOf(io.tasks, S) = {}
    BY <1>3, <1>4
  <2> QED
    BY <2>1
<1> QED
  BY <1>1, <1>5, <1>6

(* The counter of fio_io_s is the number of its owners at every step, the  *)
(* last of them calls on_close, once, and no callback runs after it.       *)
THEOREM Life == Spec => []LifeOK
<1>1. IInv => LifeOK
  <2> SUFFICES ASSUME IInv
               PROVE  LifeOK
    OBVIOUS
  <2>1. io \in Object /\ \A S : Cardinality(Queued(S)) = Count(io.tasks, S)
    BY QueuedCount
  <2>2. TypeOK
    BY <2>1 DEF IInv, Surroundings, TypeOK, Object
  <2>3. RefsOK
    <3>1. io.refs = Count(io.tasks, RefTask) + One(Has(io, "OPEN")) + Outside
      BY DEF IInv, Sound, Counted
    <3>2. /\ Cardinality(Queued(RefTask)) = Count(io.tasks, RefTask)
          /\ Count(io.tasks, RefTask) \in Nat
      BY <2>1, CountType DEF Object
    <3>3. /\ One(Has(io, "OPEN")) \in Nat /\ One(userRef) \in Nat
          /\ One(running \notin {"none", "on_shutdown"}) \in Nat
      BY DEF One
    <3> QED
      BY <3>1, <3>2, <3>3 DEF RefsOK, Outside
  <2>4. OnCloseOnce
    <3>1. io.refs \in Nat /\ io.closes = One(io.refs = 0)
      BY <2>1 DEF IInv, Sound, Ended, Object
    <3>2. io.refs = 0 <=> ~Alive
      BY <3>1 DEF Alive
    <3> QED
      BY <3>1, <3>2 DEF IInv, OnCloseOnce, One
  <2> QED
    BY <2>2, <2>3, <2>4 DEF LifeOK
<1> QED
  BY <1>1, Invariance, PTL

(* WRITE_SCHD, DATA_SCHD, TOUCH, POLLIN_SET and POLLOUT_SET are never left *)
(* set without the task or the monitor they announce, so the functions     *)
(* that return early when they are set lose nothing.                       *)
THEOREM Flags == Spec => []FlagsOK
<1>1. IInv => FlagsOK
  <2> SUFFICES ASSUME IInv
               PROVE  FlagsOK
    OBVIOUS
  <2>1. /\ \A S : Cardinality(Queued(S)) = Count(io.tasks, S)
        /\ \A S : Queued(S) # {} <=> Count(io.tasks, S) > 0
    BY QueuedCount
  <2>2. ScheduledOK
    BY <2>1 DEF IInv, Sound, Scheduled, ScheduledOK
  <2>3. MonitoredOK
    BY <2>1 DEF IInv, Sound, Monitored, MonitoredOK
  <2> QED
    BY <2>2, <2>3 DEF FlagsOK
<1> QED
  BY <1>1, Invariance, PTL

(* An attached IO that is not suspended, throttled or closing never waits  *)
(* for input that nothing will report.                                     *)
THEOREM NotDeaf == Spec => []NeverDeaf
<1>1. IInv => NeverDeaf
  <2> SUFFICES ASSUME IInv
               PROVE  NeverDeaf
    OBVIOUS
  <2>1. \A S : Queued(S) # {} <=> Count(io.tasks, S) > 0
    BY QueuedCount
  <2> QED
    BY <2>1 DEF IInv, NeverDeaf, Hears, Hearing, Alive
<1> QED
  BY <1>1, Invariance, PTL

(* While the peer is open, output that waits is monitored or on_ready is   *)
(* scheduled: it never waits for nobody.                                   *)
THEOREM NotStuck == Spec => []NeverStuck
<1>1. IInv => NeverStuck
  <2> SUFFICES ASSUME IInv
               PROVE  NeverStuck
    OBVIOUS
  <2>1. \A S : Queued(S) # {} <=> Count(io.tasks, S) > 0
    BY QueuedCount
  <2> QED
    BY <2>1 DEF IInv, NeverStuck, OutputWaits, OutputNoticed, Sends, Sending
<1> QED
  BY <1>1, Invariance, PTL
=============================================================================
