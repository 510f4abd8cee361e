---------------------------- MODULE PubSub_proofs ---------------------------
(***************************************************************************)
(* Publish and subscribe in one process, for any names, patterns, owners   *)
(* and queues and any number of subscriptions, messages and deliveries put *)
(* off: every reference has a holder, on_unsubscribe comes once and last,  *)
(* messages come once and in order, and at most one call of on_message     *)
(* begins after its subscriber has cancelled.                              *)
(***************************************************************************)
EXTENDS PubSub, FiniteSetTheorems, SequenceTheorems, TLAPS

Fn == {"idle", "publish", "ended"} \cup OwnerFn

TaskRec == [fn : Fn, sub : Nat, msg : Nat, again : BOOLEAN]
SubRec ==
    [refs : Nat, key : Keys, owner : Owners, queue : {"io", "user"}, chan : Nat,
     live : BOOLEAN, cancelled : BOOLEAN, heard : Seq(Nat), ended : Nat, late : Nat]
ChanRec == [key : Keys, refs : Nat, list : SUBSET Nat]

Shape ==
    [sub : Seq(SubRec), chan : Seq(ChanRec), map : [Keys -> Nat], told : SUBSET Keys,
     io : Seq(TaskRec), user : Seq(TaskRec)]

SubscribeFn == {"subscribe"}
EndedFn == {"ended"}

Tally(t, F, i) == IF Is(t, F, i) THEN 1 ELSE 0

(* The tasks of subscription i: in the queues, in the hand of the function *)
(* (`h`), and those that the two threads are performing (`r`).             *)
Queued(p, F, i) == Count(p.io, F, i) + Count(p.user, F, i)
Both(r, F, i) == Tally(r.io, F, i) + Tally(r.user, F, i)
Total(p, h, r, F, i) == Queued(p, F, i) + Tally(h, F, i) + Both(r, F, i)

(* The subscriptions that hold a reference to channel c.                   *)
Users(p, c) == {i \in 1 .. Len(p.sub) : p.sub[i].chan = c /\ p.sub[i].refs > 0}

Named(p, h, r) ==
    /\ \A j \in 1 .. Len(p.io) :
           /\ p.io[j].sub \in 0 .. Len(p.sub)
           /\ p.io[j].fn # "publish" => p.io[j].sub # 0
           /\ p.io[j].fn \notin {"idle", "call", "called", "stub"}
    /\ \A j \in 1 .. Len(p.user) :
           p.user[j].sub \in 1 .. Len(p.sub) /\ p.user[j].fn \in {"deliver", "ended"}
    /\ h \in TaskRec /\ h.sub \in 0 .. Len(p.sub)
    /\ r.io \in TaskRec /\ r.io.sub \in 0 .. Len(p.sub)
    /\ r.user \in TaskRec /\ r.user.sub \in 0 .. Len(p.sub)

(* `H` are the subscriptions that an environment or a handle holds.        *)
Counted(p, h, r, H) ==
    \A i \in 1 .. Len(p.sub) :
        /\ p.sub[i].refs = Total(p, h, r, OwnerFn, i) + (IF i \in H THEN 1 ELSE 0)
        /\ Total(p, h, r, SubscribeFn, i) = IF p.sub[i].chan = 0 THEN 1 ELSE 0
        /\ Total(p, h, r, EndedFn, i) + p.sub[i].ended = IF p.sub[i].refs = 0 THEN 1 ELSE 0

(* Subscriptions, channels and the map refer to each other.                *)
SubLinked(p, i) ==
    /\ p.sub[i].chan \in 0 .. Len(p.chan)
    /\ p.sub[i].chan # 0 => p.chan[p.sub[i].chan].key = p.sub[i].key

FromMap(p, c) == IF p.map[p.chan[c].key] = c THEN 1 ELSE 0

(* A reference to channel x is in hand, if x # 0.                          *)
ChanLinked(p, x, c) ==
    /\ p.chan[c].list \subseteq Users(p, c)
    /\ p.chan[c].refs = FromMap(p, c) + Cardinality(Users(p, c)) + (IF c = x THEN 1 ELSE 0)

MapLinked(p, k) ==
    p.map[k] # 0 => p.map[k] \in 1 .. Len(p.chan) /\ p.chan[p.map[k]].key = k

Linked(p, x) ==
    /\ \A i \in 1 .. Len(p.sub) : SubLinked(p, i)
    /\ \A c \in 1 .. Len(p.chan) : ChanLinked(p, x, c)
    /\ \A k \in Keys : MapLinked(p, k)

(* What holds between any two of the functions.                            *)
Good(p, h, r, H) ==
    p \in Shape /\ Named(p, h, r) /\ Counted(p, h, r, H) /\ Linked(p, 0)

-----------------------------------------------------------------------------
(* Counting tasks *)

LEMMA CountType ==
    ASSUME NEW q \in Seq(TaskRec), NEW F, NEW i
    PROVE  /\ IsFiniteSet({j \in 1 .. Len(q) : Is(q[j], F, i)}) /\ Count(q, F, i) \in Nat
           /\ Count(q, F, i) = 0 <=> \A j \in 1 .. Len(q) : ~Is(q[j], F, i)
<1> DEFINE S == {j \in 1 .. Len(q) : Is(q[j], F, i)}
<1>1. Len(q) \in Nat
  BY LenProperties
<1>2. IsFiniteSet(1 .. Len(q))
  BY <1>1, FS_Interval
<1>3. IsFiniteSet(S)
  BY <1>2, FS_Subset
<1>4. Cardinality(S) \in Nat /\ (Cardinality(S) = 0 <=> S = {})
  BY <1>3, FS_CardinalityType, FS_EmptySet
<1> QED
  BY <1>3, <1>4 DEF Count

(* A queue with one task more at its end.                                  *)
LEMMA CountAppend ==
    ASSUME NEW q \in Seq(TaskRec), NEW t \in TaskRec
    PROVE  /\ Append(q, t) \in Seq(TaskRec) /\ Len(Append(q, t)) = Len(q) + 1
           /\ Append(q, t)[Len(q) + 1] = t /\ Len(q) \in Nat
           /\ \A j \in 1 .. Len(q) : Append(q, t)[j] = q[j]
           /\ \A F, i : Count(Append(q, t), F, i) = Count(q, F, i) + Tally(t, F, i)
<1>1. /\ Append(q, t) \in Seq(TaskRec) /\ Len(q) \in Nat
      /\ Len(Append(q, t)) = Len(q) + 1
      /\ Append(q, t)[Len(q) + 1] = t
      /\ \A j \in 1 .. Len(q) : Append(q, t)[j] = q[j]
  BY AppendProperties, LenProperties
<1>2. ASSUME NEW F, NEW i
      PROVE  Count(Append(q, t), F, i) = Count(q, F, i) + Tally(t, F, i)
  <2> DEFINE S == {j \in 1 .. Len(q) : Is(q[j], F, i)}
             T == {j \in 1 .. Len(Append(q, t)) : Is(Append(q, t)[j], F, i)}
  <2>0. /\ Count(q, F, i) = Cardinality(S)
        /\ Count(Append(q, t), F, i) = Cardinality(T)
    BY DEF Count
  <2>1. IsFiniteSet(S) /\ Cardinality(S) \in Nat
    BY <2>0, CountType
  <2>4. Len(q) + 1 \notin S
    BY <1>1
  <2>2. CASE Is(t, F, i)
    <3>1. T = S \cup {Len(q) + 1}
      BY <1>1, <2>2
    <3>2. Cardinality(T) = Cardinality(S) + 1
      BY <2>1, <2>4, <3>1, FS_AddElement
    <3> QED
      BY <2>0, <2>2, <3>2 DEF Tally
  <2>3. CASE ~Is(t, F, i)
    <3>1. T = S
      BY <1>1, <2>3
    <3> HIDE DEF S, T
    <3> QED
      BY <2>0, <2>1, <2>3, <3>1 DEF Tally
  <2> QED
    BY <2>2, <2>3
<1> QED
  BY <1>1, <1>2

(* A queue from which the first task was taken.                            *)
LEMMA CountTail ==
    ASSUME NEW q \in Seq(TaskRec), q # <<>>
    PROVE  /\ Tail(q) \in Seq(TaskRec) /\ Head(q) \in TaskRec /\ Head(q) = q[1]
           /\ Len(q) \in Nat \ {0} /\ Len(Tail(q)) = Len(q) - 1
           /\ \A j \in 1 .. Len(Tail(q)) : Tail(q)[j] = q[j + 1]
           /\ \A F, i : Count(q, F, i) = Count(Tail(q), F, i) + Tally(Head(q), F, i)
<1>1. /\ Tail(q) \in Seq(TaskRec) /\ Head(q) \in TaskRec /\ Head(q) = q[1]
      /\ Len(q) \in Nat \ {0} /\ Len(Tail(q)) = Len(q) - 1
      /\ \A j \in 1 .. Len(Tail(q)) : Tail(q)[j] = q[j + 1]
  BY HeadTailProperties, EmptySeq, LenProperties
<1>2. ASSUME NEW F, NEW i
      PROVE  Count(q, F, i) = Count(Tail(q), F, i) + Tally(Head(q), F, i)
  <2> DEFINE S == {j \in 1 .. Len(Tail(q)) : Is(Tail(q)[j], F, i)}
             T == {j \in 2 .. Len(q) : Is(q[j], F, i)}
             f == [j \in S |-> j + 1]
  <2>0. Count(Tail(q), F, i) = Cardinality(S)
    BY DEF Count
  <2>1. IsFiniteSet(S) /\ Cardinality(S) \in Nat
    BY <1>1, <2>0, CountType
  <2>2. IsFiniteSet(T) /\ Cardinality(T) = Cardinality(S)
    <3>1. \A j \in S : j \in Int /\ j + 1 \in T
      BY <1>1
    <3>2. \A j \in T : j - 1 \in S /\ (j - 1) + 1 = j
      BY <1>1
    <3>3. f \in Injection(S, T)
      <4>1. f \in [S -> T]
        BY <3>1
      <4>2. \A a, b \in S : f[a] = f[b] => a = b
        BY <3>1
      <4> QED
        BY <4>1, <4>2 DEF Injection, IsInjective
    <3>4. f \in Surjection(S, T)
      BY <3>1, <3>2 DEF Surjection
    <3>5. f \in Bijection(S, T)
      BY <3>3, <3>4 DEF Bijection
    <3> QED
      BY <2>1, <3>5, FS_Bijection, ZenonT(30) DEF ExistsBijection
  <2>3. CASE Is(Head(q), F, i)
    <3>1. {j \in 1 .. Len(q) : Is(q[j], F, i)} = T \cup {1} /\ 1 \notin T
      BY <1>1, <2>3
    <3>2. Cardinality(T \cup {1}) = Cardinality(T) + 1
      BY <2>2, <3>1, FS_AddElement
    <3>3. Count(q, F, i) = Cardinality(T \cup {1})
      BY <3>1 DEF Count
    <3> QED
      BY <2>0, <2>1, <2>2, <2>3, <3>2, <3>3 DEF Tally
  <2>4. CASE ~Is(Head(q), F, i)
    <3>1. {j \in 1 .. Len(q) : Is(q[j], F, i)} = T
      BY <1>1, <2>4
    <3>2. Count(q, F, i) = Cardinality(T)
      BY <3>1 DEF Count
    <3> HIDE DEF S, T
    <3> QED
      BY <2>0, <2>1, <2>2, <2>4, <3>2 DEF Tally
  <2> QED
    BY <2>3, <2>4
<1> QED
  BY <1>1, <1>2
-----------------------------------------------------------------------------
(* The record and its parts *)

LEMMA ShapeTypes ==
    ASSUME NEW p \in Shape
    PROVE  /\ p.sub \in Seq(SubRec) /\ p.chan \in Seq(ChanRec) /\ p.map \in [Keys -> Nat]
           /\ p.io \in Seq(TaskRec) /\ p.user \in Seq(TaskRec) /\ p.told \subseteq Keys
           /\ Len(p.sub) \in Nat /\ Len(p.chan) \in Nat /\ Len(p.io) \in Nat
           /\ Len(p.user) \in Nat
           /\ \A i \in 1 .. Len(p.sub) : p.sub[i] \in SubRec
           /\ \A c \in 1 .. Len(p.chan) : p.chan[c] \in ChanRec
           /\ \A j \in 1 .. Len(p.io) : p.io[j] \in TaskRec
           /\ \A j \in 1 .. Len(p.user) : p.user[j] \in TaskRec
<1>1. /\ p.sub \in Seq(SubRec) /\ p.chan \in Seq(ChanRec) /\ p.map \in [Keys -> Nat]
      /\ p.io \in Seq(TaskRec) /\ p.user \in Seq(TaskRec) /\ p.told \subseteq Keys
  BY DEF Shape
<1> QED
  BY <1>1, LenProperties, ElementOfSeq

(* One subscription, or one channel, is changed.                           *)
LEMMA WithSub ==
    ASSUME NEW p \in Shape, NEW i \in 1 .. Len(p.sub), NEW r \in SubRec,
           NEW d, d = [p EXCEPT !.sub[i] = r]
    PROVE  /\ d \in Shape /\ Len(d.sub) = Len(p.sub) /\ d.sub[i] = r
           /\ \A j \in 1 .. Len(p.sub) : j # i => d.sub[j] = p.sub[j]
           /\ d.chan = p.chan /\ d.map = p.map /\ d.told = p.told
           /\ d.io = p.io /\ d.user = p.user
<1>1. p.sub \in Seq(SubRec) /\ Len(p.sub) \in Nat
  BY ShapeTypes
<1>2. PICK s : s = [p.sub EXCEPT ![i] = r]
  OBVIOUS
<1>3. /\ s \in Seq(SubRec) /\ Len(s) = Len(p.sub)
      /\ \A j \in 1 .. Len(p.sub) : s[j] = IF j = i THEN r ELSE p.sub[j]
  BY <1>1, <1>2, ExceptSeq
<1>4. d = [p EXCEPT !.sub = s]
  BY <1>2
<1> QED
  BY <1>3, <1>4 DEF Shape

LEMMA WithChan ==
    ASSUME NEW p \in Shape, NEW c \in 1 .. Len(p.chan), NEW r \in ChanRec,
           NEW d, d = [p EXCEPT !.chan[c] = r]
    PROVE  /\ d \in Shape /\ Len(d.chan) = Len(p.chan) /\ d.chan[c] = r
           /\ \A j \in 1 .. Len(p.chan) : j # c => d.chan[j] = p.chan[j]
           /\ d.sub = p.sub /\ d.map = p.map /\ d.told = p.told
           /\ d.io = p.io /\ d.user = p.user
<1>1. p.chan \in Seq(ChanRec) /\ Len(p.chan) \in Nat
  BY ShapeTypes
<1>2. PICK s : s = [p.chan EXCEPT ![c] = r]
  OBVIOUS
<1>3. /\ s \in Seq(ChanRec) /\ Len(s) = Len(p.chan)
      /\ \A j \in 1 .. Len(p.chan) : s[j] = IF j = c THEN r ELSE p.chan[j]
  BY <1>1, <1>2, ExceptSeq
<1>4. d = [p EXCEPT !.chan = s]
  BY <1>2
<1> QED
  BY <1>3, <1>4 DEF Shape

(* A task was pushed to one of the queues.                                 *)
LEMMA PushShape ==
    ASSUME NEW p \in Shape, NEW q, NEW t \in TaskRec, NEW d, d = Push(p, q, t)
    PROVE  /\ d \in Shape /\ d.sub = p.sub /\ d.chan = p.chan /\ d.map = p.map
           /\ d.told = p.told
           /\ d.io = IF q = "io" THEN Append(p.io, t) ELSE p.io
           /\ d.user = IF q = "io" THEN p.user ELSE Append(p.user, t)
           /\ \A F, i : Queued(d, F, i) = Queued(p, F, i) + Tally(t, F, i)
<1>1. /\ p.io \in Seq(TaskRec) /\ p.user \in Seq(TaskRec)
  BY ShapeTypes
<1>2. \A F, i : Count(p.io, F, i) \in Nat /\ Count(p.user, F, i) \in Nat
  BY <1>1, CountType
<1>3. CASE q = "io"
  <2>1. PICK s \in Seq(TaskRec) : s = Append(p.io, t)
    BY <1>1, CountAppend
  <2>2. d = [p EXCEPT !.io = s]
    BY <1>3, <2>1 DEF Push
  <2>3. \A F, i : Count(s, F, i) = Count(p.io, F, i) + Tally(t, F, i)
    BY <1>1, <2>1, CountAppend
  <2>4. /\ d \in Shape /\ d.sub = p.sub /\ d.chan = p.chan /\ d.map = p.map
        /\ d.told = p.told /\ d.io = s /\ d.user = p.user
    BY <2>2 DEF Shape
  <2>5. ASSUME NEW F, NEW i
        PROVE  Queued(d, F, i) = Queued(p, F, i) + Tally(t, F, i)
    <3>1. /\ Count(p.io, F, i) \in Nat /\ Count(p.user, F, i) \in Nat
          /\ Tally(t, F, i) \in Nat
      BY <1>2 DEF Tally
    <3> QED
      BY <2>3, <2>4, <3>1 DEF Queued
  <2> QED
    BY <1>3, <2>1, <2>4, <2>5
<1>4. CASE q # "io"
  <2>1. PICK s \in Seq(TaskRec) : s = Append(p.user, t)
    BY <1>1, CountAppend
  <2>2. d = [p EXCEPT !.user = s]
    BY <1>4, <2>1 DEF Push
  <2>3. \A F, i : Count(s, F, i) = Count(p.user, F, i) + Tally(t, F, i)
    BY <1>1, <2>1, CountAppend
  <2>4. /\ d \in Shape /\ d.sub = p.sub /\ d.chan = p.chan /\ d.map = p.map
        /\ d.told = p.told /\ d.io = p.io /\ d.user = s
    BY <2>2 DEF Shape
  <2>5. ASSUME NEW F, NEW i
        PROVE  Queued(d, F, i) = Queued(p, F, i) + Tally(t, F, i)
    <3>1. /\ Count(p.io, F, i) \in Nat /\ Count(p.user, F, i) \in Nat
          /\ Tally(t, F, i) \in Nat
      BY <1>2 DEF Tally
    <3> QED
      BY <2>3, <2>4, <3>1 DEF Queued
  <2> QED
    BY <1>4, <2>1, <2>4, <2>5
<1> QED
  BY <1>3, <1>4
-----------------------------------------------------------------------------
(* Tasks change hands *)

LEMMA IdleTask == Idle \in TaskRec /\ \A F, i : "idle" \notin F => ~Is(Idle, F, i)
BY DEF Idle, TaskRec, Fn, Is

LEMMA Kinds ==
    /\ "idle" \notin OwnerFn /\ "idle" \notin SubscribeFn /\ "idle" \notin EndedFn
    /\ "ended" \notin OwnerFn /\ "publish" \notin OwnerFn
    /\ "deliver" \in OwnerFn /\ "free" \in OwnerFn /\ "unsubscribe" \in OwnerFn
    /\ "subscribe" \in OwnerFn /\ "call" \in OwnerFn /\ "called" \in OwnerFn
    /\ "stub" \in OwnerFn
    /\ OwnerFn \subseteq Fn
BY DEF OwnerFn, SubscribeFn, EndedFn, Fn

LEMMA TotalType ==
    ASSUME NEW p \in Shape, NEW F, NEW i
    PROVE  /\ Queued(p, F, i) \in Nat
           /\ \A t : Tally(t, F, i) \in {0, 1} /\ Tally(t, F, i) \in Nat
           /\ \A r : Both(r, F, i) \in Nat
           /\ \A h, r : Total(p, h, r, F, i) \in Nat
<1>1. Count(p.io, F, i) \in Nat /\ Count(p.user, F, i) \in Nat
  BY ShapeTypes, CountType
<1>2. \A t : Tally(t, F, i) \in {0, 1} /\ Tally(t, F, i) \in Nat
  BY DEF Tally
<1>3. Queued(p, F, i) \in Nat
  BY <1>1 DEF Queued
<1>4. \A r : Both(r, F, i) \in Nat
  BY <1>2 DEF Both
<1> QED
  BY <1>2, <1>3, <1>4 DEF Total

LEMMA LinkedSame ==
    ASSUME NEW p, NEW d, NEW x, Linked(p, x), Len(d.sub) = Len(p.sub),
           \A i \in 1 .. Len(p.sub) :
               /\ d.sub[i].chan = p.sub[i].chan /\ d.sub[i].key = p.sub[i].key
               /\ d.sub[i].refs > 0 <=> p.sub[i].refs > 0,
           d.chan = p.chan, d.map = p.map
    PROVE  Linked(d, x)
<1>1. \A c : Users(d, c) = Users(p, c)
  BY DEF Users
<1>2. \A i \in 1 .. Len(d.sub) : SubLinked(d, i)
  BY DEF Linked, SubLinked
<1>3. \A c \in 1 .. Len(d.chan) : ChanLinked(d, x, c)
  BY <1>1 DEF Linked, ChanLinked, FromMap
<1>4. \A k \in Keys : MapLinked(d, k)
  BY DEF Linked, MapLinked
<1> QED
  BY <1>2, <1>3, <1>4 DEF Linked

(* The same tasks, spread otherwise over the queues and the hands.         *)
LEMMA CountedSame ==
    ASSUME NEW p, NEW h, NEW r, NEW H, Counted(p, h, r, H), NEW d, d.sub = p.sub,
           NEW g, NEW s,
           \A i \in 1 .. Len(p.sub) :
               /\ Total(d, g, s, OwnerFn, i) = Total(p, h, r, OwnerFn, i)
               /\ Total(d, g, s, SubscribeFn, i) = Total(p, h, r, SubscribeFn, i)
               /\ Total(d, g, s, EndedFn, i) = Total(p, h, r, EndedFn, i)
    PROVE  Counted(d, g, s, H)
BY DEF Counted

Reactor == OwnerFn \ {"subscribe"}

(* One owner passes for another.                                           *)
LEMMA SameTally ==
    ASSUME NEW h, NEW t, t.sub = h.sub, h.fn \in Reactor, t.fn \in Reactor, NEW i
    PROVE  /\ Tally(h, OwnerFn, i) = Tally(t, OwnerFn, i)
           /\ Tally(h, SubscribeFn, i) = Tally(t, SubscribeFn, i)
           /\ Tally(h, EndedFn, i) = Tally(t, EndedFn, i)
BY DEF Reactor, Tally, Is, OwnerFn, SubscribeFn, EndedFn

LEMMA IdleTally ==
    ASSUME NEW i
    PROVE  /\ Tally(Idle, OwnerFn, i) = 0 /\ Tally(Idle, SubscribeFn, i) = 0
           /\ Tally(Idle, EndedFn, i) = 0
BY IdleTask, Kinds DEF Tally

(* What a thread performs is put in hand, or what is in hand is taken on.  *)
LEMMA SwapIo ==
    ASSUME NEW p, NEW h, NEW t, NEW u, NEW H, Good(p, h, [io |-> t, user |-> u], H)
    PROVE  Good(p, t, [io |-> h, user |-> u], H)
<1>1. PICK r : r = [io |-> t, user |-> u]
  OBVIOUS
<1>2. PICK s : s = [io |-> h, user |-> u]
  OBVIOUS
<1>3. p \in Shape /\ Named(p, h, r) /\ Counted(p, h, r, H) /\ Linked(p, 0)
  BY <1>1 DEF Good
<1>4. r.io = t /\ r.user = u /\ s.io = h /\ s.user = u
  BY <1>1, <1>2
<1>5. ASSUME NEW F, NEW i
      PROVE  Total(p, t, s, F, i) = Total(p, h, r, F, i)
  <2>1. /\ Queued(p, F, i) \in Nat /\ Tally(h, F, i) \in Nat /\ Tally(t, F, i) \in Nat
        /\ Tally(u, F, i) \in Nat
    BY <1>3, TotalType
  <2>2. /\ Total(p, t, s, F, i) = Queued(p, F, i) + Tally(t, F, i) + (Tally(h, F, i) + Tally(u, F, i))
        /\ Total(p, h, r, F, i) = Queued(p, F, i) + Tally(h, F, i) + (Tally(t, F, i) + Tally(u, F, i))
    BY <1>4 DEF Total, Both
  <2> QED
    BY <2>1, <2>2
<1>6. Counted(p, t, s, H)
  BY <1>3, <1>5, CountedSame
<1>7. Named(p, t, s)
  BY <1>3, <1>4 DEF Named
<1> QED
  BY <1>2, <1>3, <1>6, <1>7 DEF Good

LEMMA SwapUser ==
    ASSUME NEW p, NEW h, NEW t, NEW u, NEW H, Good(p, h, [io |-> t, user |-> u], H)
    PROVE  Good(p, u, [io |-> t, user |-> h], H)
<1>1. PICK r : r = [io |-> t, user |-> u]
  OBVIOUS
<1>2. PICK s : s = [io |-> t, user |-> h]
  OBVIOUS
<1>3. p \in Shape /\ Named(p, h, r) /\ Counted(p, h, r, H) /\ Linked(p, 0)
  BY <1>1 DEF Good
<1>4. r.io = t /\ r.user = u /\ s.io = t /\ s.user = h
  BY <1>1, <1>2
<1>5. ASSUME NEW F, NEW i
      PROVE  Total(p, u, s, F, i) = Total(p, h, r, F, i)
  <2>1. /\ Queued(p, F, i) \in Nat /\ Tally(h, F, i) \in Nat /\ Tally(t, F, i) \in Nat
        /\ Tally(u, F, i) \in Nat
    BY <1>3, TotalType
  <2>2. /\ Total(p, u, s, F, i) = Queued(p, F, i) + Tally(u, F, i) + (Tally(t, F, i) + Tally(h, F, i))
        /\ Total(p, h, r, F, i) = Queued(p, F, i) + Tally(h, F, i) + (Tally(t, F, i) + Tally(u, F, i))
    BY <1>4 DEF Total, Both
  <2> QED
    BY <2>1, <2>2
<1>6. Counted(p, u, s, H)
  BY <1>3, <1>5, CountedSame
<1>7. Named(p, u, s)
  BY <1>3, <1>4 DEF Named
<1> QED
  BY <1>2, <1>3, <1>6, <1>7 DEF Good

LEMMA RenameGood ==
    ASSUME NEW p, NEW h, NEW r, NEW H, Good(p, h, r, H), h.fn \in Reactor,
           NEW t \in TaskRec, t.sub = h.sub, t.fn \in Reactor
    PROVE  Good(p, t, r, H)
<1>1. \A i : /\ Total(p, t, r, OwnerFn, i) = Total(p, h, r, OwnerFn, i)
             /\ Total(p, t, r, SubscribeFn, i) = Total(p, h, r, SubscribeFn, i)
             /\ Total(p, t, r, EndedFn, i) = Total(p, h, r, EndedFn, i)
  BY SameTally DEF Total
<1>2. Counted(p, t, r, H)
  BY <1>1, CountedSame DEF Good
<1>3. Named(p, t, r)
  BY DEF Good, Named
<1> QED
  BY <1>2, <1>3 DEF Good
(* The first task was taken off a queue: it is in hand.                    *)
LEMMA PopIoShape ==
    ASSUME NEW p \in Shape, p.io # <<>>, NEW d, d = [p EXCEPT !.io = Tail(@)]
    PROVE  /\ d \in Shape
           /\ d.sub = p.sub /\ d.chan = p.chan /\ d.map = p.map /\ d.told = p.told
           /\ d.io = Tail(p.io) /\ d.user = p.user
<1>1. PICK s \in Seq(TaskRec) : s = Tail(p.io)
  BY ShapeTypes, CountTail
<1>2. d = [p EXCEPT !.io = s]
  BY <1>1
<1> QED
  BY <1>1, <1>2 DEF Shape

LEMMA PopIoGood ==
    ASSUME NEW p, NEW r, NEW H, Good(p, Idle, r, H), p.io # <<>>,
           NEW d \in Shape, d.sub = p.sub, d.chan = p.chan, d.map = p.map,
           d.io = Tail(p.io), d.user = p.user
    PROVE  Good(d, Head(p.io), r, H)
<1>1. p \in Shape /\ p.io \in Seq(TaskRec) /\ p.user \in Seq(TaskRec)
  BY ShapeTypes DEF Good
<1>2. PICK s \in Seq(TaskRec) : s = Tail(p.io)
  BY <1>1, CountTail
<1>3. PICK t \in TaskRec : t = Head(p.io)
  BY <1>1, CountTail
<1>4. d.io = s
  BY <1>2
<1>5. /\ Len(s) = Len(p.io) - 1 /\ Len(p.io) \in Nat \ {0} /\ t = p.io[1]
      /\ \A j \in 1 .. Len(s) : s[j] = p.io[j + 1]
  BY <1>1, <1>2, <1>3, CountTail
<1>6. Named(d, t, r)
  <2>1. /\ \A j \in 1 .. Len(s) : j + 1 \in 1 .. Len(p.io)
        /\ 1 \in 1 .. Len(p.io)
    BY <1>5
  <2>2. Named(p, Idle, r) /\ Len(p.sub) \in Nat
    BY <1>1, ShapeTypes DEF Good
  <2> QED
    BY <1>3, <1>4, <1>5, <2>1, <2>2 DEF Named
<1>7. ASSUME NEW F, NEW i
      PROVE  Queued(d, F, i) + Tally(t, F, i) = Queued(p, F, i)
  <2>1. Count(p.io, F, i) = Count(s, F, i) + Tally(t, F, i)
    BY <1>1, <1>2, <1>3, CountTail
  <2>2. /\ Count(s, F, i) \in Nat /\ Count(p.user, F, i) \in Nat
        /\ Tally(t, F, i) \in Nat
    BY <1>1, CountType DEF Tally
  <2> QED
    BY <1>4, <2>1, <2>2 DEF Queued
<1>8. ASSUME NEW F, NEW i, Tally(Idle, F, i) = 0
      PROVE  Total(d, t, r, F, i) = Total(p, Idle, r, F, i)
  <2>1. Queued(p, F, i) \in Nat /\ Both(r, F, i) \in Nat
    BY <1>1, TotalType
  <2> QED
    BY <1>7, <1>8, <2>1 DEF Total
<1>9. Counted(d, t, r, H)
  BY <1>4, <1>8, IdleTally, CountedSame DEF Good
<1>10. Linked(d, 0)
  BY <1>4, LinkedSame DEF Good
<1> QED
  BY <1>2, <1>3, <1>4, <1>6, <1>9, <1>10 DEF Good

LEMMA PopUserShape ==
    ASSUME NEW p \in Shape, p.user # <<>>, NEW d, d = [p EXCEPT !.user = Tail(@)]
    PROVE  /\ d \in Shape
           /\ d.sub = p.sub /\ d.chan = p.chan /\ d.map = p.map /\ d.told = p.told
           /\ d.user = Tail(p.user) /\ d.io = p.io
<1>1. PICK s \in Seq(TaskRec) : s = Tail(p.user)
  BY ShapeTypes, CountTail
<1>2. d = [p EXCEPT !.user = s]
  BY <1>1
<1> QED
  BY <1>1, <1>2 DEF Shape

LEMMA PopUserGood ==
    ASSUME NEW p, NEW r, NEW H, Good(p, Idle, r, H), p.user # <<>>,
           NEW d \in Shape, d.sub = p.sub, d.chan = p.chan, d.map = p.map,
           d.user = Tail(p.user), d.io = p.io
    PROVE  Good(d, Head(p.user), r, H)
<1>1. p \in Shape /\ p.io \in Seq(TaskRec) /\ p.user \in Seq(TaskRec)
  BY ShapeTypes DEF Good
<1>2. PICK s \in Seq(TaskRec) : s = Tail(p.user)
  BY <1>1, CountTail
<1>3. PICK t \in TaskRec : t = Head(p.user)
  BY <1>1, CountTail
<1>4. d.user = s
  BY <1>2
<1>5. /\ Len(s) = Len(p.user) - 1 /\ Len(p.user) \in Nat \ {0} /\ t = p.user[1]
      /\ \A j \in 1 .. Len(s) : s[j] = p.user[j + 1]
  BY <1>1, <1>2, <1>3, CountTail
<1>6. Named(d, t, r)
  <2>1. /\ \A j \in 1 .. Len(s) : j + 1 \in 1 .. Len(p.user)
        /\ 1 \in 1 .. Len(p.user)
    BY <1>5
  <2>2. Named(p, Idle, r) /\ Len(p.sub) \in Nat
    BY <1>1, ShapeTypes DEF Good
  <2> QED
    BY <1>3, <1>4, <1>5, <2>1, <2>2 DEF Named
<1>7. ASSUME NEW F, NEW i
      PROVE  Queued(d, F, i) + Tally(t, F, i) = Queued(p, F, i)
  <2>1. Count(p.user, F, i) = Count(s, F, i) + Tally(t, F, i)
    BY <1>1, <1>2, <1>3, CountTail
  <2>2. /\ Count(s, F, i) \in Nat /\ Count(p.io, F, i) \in Nat
        /\ Tally(t, F, i) \in Nat
    BY <1>1, CountType DEF Tally
  <2> QED
    BY <1>4, <2>1, <2>2 DEF Queued
<1>8. ASSUME NEW F, NEW i, Tally(Idle, F, i) = 0
      PROVE  Total(d, t, r, F, i) = Total(p, Idle, r, F, i)
  <2>1. Queued(p, F, i) \in Nat /\ Both(r, F, i) \in Nat
    BY <1>1, TotalType
  <2> QED
    BY <1>7, <1>8, <2>1 DEF Total
<1>9. Counted(d, t, r, H)
  BY <1>4, <1>8, IdleTally, CountedSame DEF Good
<1>10. Linked(d, 0)
  BY <1>4, LinkedSame DEF Good
<1> QED
  BY <1>2, <1>3, <1>4, <1>6, <1>9, <1>10 DEF Good

(* A task was added to a queue that may hold it.                           *)
LEMMA PushNamed ==
    ASSUME NEW p \in Shape, NEW h, NEW r, Named(p, h, r),
           NEW t \in TaskRec, t.sub \in 1 .. Len(p.sub),
           NEW q, t.fn \in {"subscribe", "unsubscribe", "free"} => q = "io",
           t.fn \in {"subscribe", "unsubscribe", "free", "deliver", "ended"},
           NEW d, d.sub = p.sub,
           d.io = (IF q = "io" THEN Append(p.io, t) ELSE p.io),
           d.user = (IF q = "io" THEN p.user ELSE Append(p.user, t))
    PROVE  Named(d, Idle, r)
<1>1. /\ Len(p.sub) \in Nat /\ Len(p.io) \in Nat /\ Len(p.user) \in Nat
      /\ p.io \in Seq(TaskRec) /\ p.user \in Seq(TaskRec)
  BY ShapeTypes
<1>2. /\ Idle \in TaskRec /\ Idle.sub = 0 /\ 0 \in 0 .. Len(p.sub)
  BY <1>1, IdleTask DEF Idle
<1>3. \A j \in 1 .. Len(d.io) :
          (d.io[j] = t /\ q = "io") \/ \E k \in 1 .. Len(p.io) : d.io[j] = p.io[k]
  BY <1>1, CountAppend
<1>4. \A j \in 1 .. Len(d.user) :
          (d.user[j] = t /\ q # "io") \/ \E k \in 1 .. Len(p.user) : d.user[j] = p.user[k]
  BY <1>1, CountAppend
<1>5. \A j \in 1 .. Len(d.io) :
         /\ d.io[j].sub \in 0 .. Len(p.sub)
         /\ d.io[j].fn # "publish" => d.io[j].sub # 0
         /\ d.io[j].fn \notin {"idle", "call", "called", "stub"}
  BY <1>1, <1>3 DEF Named
<1>6. \A j \in 1 .. Len(d.user) :
         d.user[j].sub \in 1 .. Len(p.sub) /\ d.user[j].fn \in {"deliver", "ended"}
  BY <1>1, <1>4 DEF Named
<1>7. /\ r.io \in TaskRec /\ r.io.sub \in 0 .. Len(p.sub)
      /\ r.user \in TaskRec /\ r.user.sub \in 0 .. Len(p.sub)
  BY DEF Named
<1> QED
  BY <1>2, <1>5, <1>6, <1>7 DEF Named

(* The task in hand, or what comes of it, goes to the end of a queue.      *)
LEMMA PushGood ==
    ASSUME NEW p, NEW h, NEW r, NEW H, Good(p, h, r, H), h.fn \in Reactor, h.sub # 0,
           NEW t \in TaskRec, t.sub = h.sub, t.fn \in {"deliver", "unsubscribe", "free"},
           NEW q, q = "io" \/ t.fn = "deliver", NEW d, d = Push(p, q, t)
    PROVE  Good(d, Idle, r, H)
<1>1. p \in Shape /\ Named(p, h, r) /\ Len(p.sub) \in Nat
  BY ShapeTypes DEF Good
<1>2. /\ d \in Shape /\ d.sub = p.sub /\ d.chan = p.chan /\ d.map = p.map
      /\ d.io = IF q = "io" THEN Append(p.io, t) ELSE p.io
      /\ d.user = IF q = "io" THEN p.user ELSE Append(p.user, t)
      /\ \A F, i : Queued(d, F, i) = Queued(p, F, i) + Tally(t, F, i)
  BY <1>1, PushShape
<1>3. Named(d, Idle, r)
  <2>1. t.sub \in 1 .. Len(p.sub)
    BY <1>1 DEF Named
  <2> QED
    BY <1>1, <1>2, <2>1, PushNamed
<1>4. ASSUME NEW F, NEW i, Tally(Idle, F, i) = 0, Tally(h, F, i) = Tally(t, F, i)
      PROVE  Total(d, Idle, r, F, i) = Total(p, h, r, F, i)
  <2>1. /\ Queued(p, F, i) \in Nat /\ Both(r, F, i) \in Nat /\ Tally(t, F, i) \in Nat
        /\ Queued(d, F, i) = Queued(p, F, i) + Tally(t, F, i)
    BY <1>1, <1>2, TotalType
  <2> QED
    BY <1>4, <2>1 DEF Total
<1>5. t.fn \in Reactor
  BY DEF Reactor, OwnerFn
<1>6. Counted(d, Idle, r, H)
  BY <1>2, <1>4, <1>5, IdleTally, SameTally, CountedSame DEF Good
<1>7. Linked(d, 0)
  BY <1>2, LinkedSame DEF Good
<1> QED
  BY <1>2, <1>3, <1>6, <1>7 DEF Good

-----------------------------------------------------------------------------
(* Channels *)

LEMMA LinkedTypes ==
    ASSUME NEW p \in Shape, NEW x, Linked(p, x), NEW c \in 1 .. Len(p.chan)
    PROVE  /\ IsFiniteSet(Users(p, c)) /\ Cardinality(Users(p, c)) \in Nat
           /\ p.chan[c].refs \in Nat /\ p.chan[c].key \in Keys
           /\ p.map[p.chan[c].key] = c => p.chan[c].refs > 0
           /\ c = x => p.chan[c].refs > 0
           /\ Cardinality(Users(p, c)) > 0 => p.chan[c].refs > 0
<1>1. p.chan[c] \in ChanRec
  BY ShapeTypes
<1>0. Len(p.sub) \in Nat
  BY ShapeTypes
<1>2. IsFiniteSet(1 .. Len(p.sub))
  BY <1>0, FS_Interval
<1>3. IsFiniteSet(Users(p, c))
  BY <1>2, FS_Subset DEF Users
<1>4. Cardinality(Users(p, c)) \in Nat
  BY <1>3, FS_CardinalityType
<1>5. p.chan[c].refs \in Nat /\ p.chan[c].key \in Keys
  BY <1>1 DEF ChanRec
<1>6. p.chan[c].refs = (IF p.map[p.chan[c].key] = c THEN 1 ELSE 0)
                       + Cardinality(Users(p, c)) + (IF c = x THEN 1 ELSE 0)
  BY DEF Linked, ChanLinked, FromMap
<1> QED
  BY <1>3, <1>4, <1>5, <1>6

LEMMA FreeChannelShape ==
    ASSUME NEW p \in Shape, NEW c \in 1 .. Len(p.chan), p.chan[c].refs > 0,
           NEW d, d = FreeChannel(p, c)
    PROVE  /\ d \in Shape /\ d.sub = p.sub /\ d.map = p.map /\ d.io = p.io /\ d.user = p.user
           /\ Len(d.chan) = Len(p.chan) /\ d.chan[c].refs = p.chan[c].refs - 1
           /\ d.chan[c].key = p.chan[c].key /\ d.chan[c].list = p.chan[c].list
           /\ \A j \in 1 .. Len(p.chan) : j # c => d.chan[j] = p.chan[j]
<1>1. p.chan[c] \in ChanRec
  BY ShapeTypes
<1>2. PICK n \in Nat : n = p.chan[c].refs - 1
  BY <1>1 DEF ChanRec
<1>3. PICK a \in ChanRec : a = [p.chan[c] EXCEPT !.refs = n]
  BY <1>1, <1>2 DEF ChanRec
<1>4. a.refs = n /\ a.key = p.chan[c].key /\ a.list = p.chan[c].list
  BY <1>1, <1>3 DEF ChanRec
<1>5. PICK e : e = [p EXCEPT !.chan[c] = a]
  OBVIOUS
<1>6. /\ e \in Shape /\ Len(e.chan) = Len(p.chan) /\ e.chan[c] = a
      /\ \A j \in 1 .. Len(p.chan) : j # c => e.chan[j] = p.chan[j]
      /\ e.sub = p.sub /\ e.map = p.map /\ e.told = p.told
      /\ e.io = p.io /\ e.user = p.user
  BY <1>5, WithChan
<1>7. e = [p EXCEPT !.chan[c].refs = @ - 1]
  BY <1>2, <1>3, <1>5
<1>8. d = e \/ d = [e EXCEPT !.told = @ \ {p.chan[c].key}]
  BY <1>7 DEF FreeChannel
<1>9. /\ d \in Shape /\ d.sub = e.sub /\ d.map = e.map /\ d.io = e.io /\ d.user = e.user
      /\ d.chan = e.chan
  <2>1. CASE d = e
    BY <1>6, <2>1
  <2>2. CASE d = [e EXCEPT !.told = @ \ {p.chan[c].key}]
    <3>1. PICK T \in SUBSET Keys : T = e.told \ {p.chan[c].key}
      BY <1>6, ShapeTypes
    <3>2. d = [e EXCEPT !.told = T]
      BY <2>2, <3>1
    <3> QED
      BY <1>6, <3>1, <3>2 DEF Shape
  <2> QED
    BY <1>8, <2>1, <2>2
<1> QED
  BY <1>2, <1>4, <1>6, <1>9

(* The reference in hand is given back.                                    *)
LEMMA FreeChannelLinked ==
    ASSUME NEW p \in Shape, NEW c \in 1 .. Len(p.chan), Linked(p, c),
           NEW d, d = FreeChannel(p, c)
    PROVE  /\ d \in Shape /\ Linked(d, 0)
           /\ d.sub = p.sub /\ d.map = p.map /\ d.io = p.io /\ d.user = p.user
<1>1. p.chan[c].refs > 0 /\ p.chan[c].refs \in Nat /\ Cardinality(Users(p, c)) \in Nat
  BY LinkedTypes
<1>2. /\ d \in Shape /\ d.sub = p.sub /\ d.map = p.map /\ d.io = p.io /\ d.user = p.user
      /\ Len(d.chan) = Len(p.chan) /\ d.chan[c].refs = p.chan[c].refs - 1
      /\ d.chan[c].key = p.chan[c].key /\ d.chan[c].list = p.chan[c].list
      /\ \A j \in 1 .. Len(p.chan) : j # c => d.chan[j] = p.chan[j]
  BY <1>1, FreeChannelShape
<1>3. \A j : Users(d, j) = Users(p, j)
  BY <1>2 DEF Users
<1>4. \A j \in 1 .. Len(p.chan) : d.chan[j].key = p.chan[j].key /\ d.chan[j].list = p.chan[j].list
  BY <1>2
<1>5. ASSUME NEW j \in 1 .. Len(p.chan)
      PROVE  ChanLinked(d, 0, j)
  <2>1. /\ d.chan[j].refs = p.chan[j].refs - (IF j = c THEN 1 ELSE 0)
        /\ Cardinality(Users(p, j)) \in Nat /\ j # 0
    BY <1>2, LinkedTypes
  <2>2. p.chan[j].refs = FromMap(p, j) + Cardinality(Users(p, j)) + (IF j = c THEN 1 ELSE 0)
    BY DEF Linked, ChanLinked
  <2>3. FromMap(d, j) = FromMap(p, j) /\ FromMap(p, j) \in Nat
    BY <1>2, <1>4 DEF FromMap
  <2>4. d.chan[j].refs = FromMap(d, j) + Cardinality(Users(d, j)) + 0
    BY <1>3, <2>1, <2>2, <2>3
  <2>5. d.chan[j].list \subseteq Users(d, j)
    BY <1>3, <1>4 DEF Linked, ChanLinked
  <2> QED
    BY <2>1, <2>4, <2>5 DEF ChanLinked
<1>6. \A i \in 1 .. Len(d.sub) : SubLinked(d, i)
  <2>1. \A i \in 1 .. Len(p.sub) : SubLinked(p, i)
    BY DEF Linked
  <2>2. Len(p.chan) \in Nat
    BY ShapeTypes
  <2>3. \A x \in 0 .. Len(p.chan) : x # 0 => x \in 1 .. Len(p.chan)
    BY <2>2
  <2>4. d.sub = p.sub /\ Len(d.chan) = Len(p.chan)
    BY <1>2
  <2>5. ASSUME NEW i \in 1 .. Len(p.sub)
        PROVE  SubLinked(d, i)
    <3>1. SubLinked(p, i)
      BY <2>1
    <3>2. PICK b : b = p.sub[i].chan
      OBVIOUS
    <3>3. b # 0 => b \in 1 .. Len(p.chan)
      BY <3>1, <3>2 DEF SubLinked
    <3>4. b # 0 => d.chan[b].key = p.chan[b].key /\ d.chan[b].list = p.chan[b].list
      BY <1>4, <2>4, <3>3
    <3> QED
      BY <2>4, <3>1, <3>2, <3>3, <3>4 DEF SubLinked
  <2> QED
    BY <2>4, <2>5
<1>7. \A k \in Keys : MapLinked(d, k)
  BY <1>2, <1>4 DEF Linked, MapLinked
<1> QED
  BY <1>2, <1>5, <1>6, <1>7 DEF Linked

LEMMA MapRemoveLinked ==
    ASSUME NEW p \in Shape, NEW x, Linked(p, x), NEW k \in Keys, NEW d, d = MapRemove(p, k)
    PROVE  /\ d \in Shape /\ Linked(d, x) /\ Len(d.chan) = Len(p.chan)
           /\ d.sub = p.sub /\ d.io = p.io /\ d.user = p.user
<1>1. CASE p.map[k] = 0
  BY <1>1 DEF MapRemove
<1>2. CASE p.map[k] # 0
  <2>1. PICK c : c = p.map[k]
    OBVIOUS
  <2>2. /\ c \in 1 .. Len(p.chan) /\ p.chan[c].key = k
    BY <1>2, <2>1 DEF Linked, MapLinked
  <2>3. PICK v : v = [p EXCEPT !.map[k] = 0]
    OBVIOUS
  <2>4. /\ v \in Shape /\ v.sub = p.sub /\ v.io = p.io /\ v.user = p.user /\ v.chan = p.chan
        /\ \A y \in Keys : v.map[y] = IF y = k THEN 0 ELSE p.map[y]
    <3>1. PICK f \in [Keys -> Nat] : f = [p.map EXCEPT ![k] = 0]
      BY ShapeTypes
    <3>2. \A y \in Keys : f[y] = IF y = k THEN 0 ELSE p.map[y]
      BY <3>1, ShapeTypes
    <3>3. v = [p EXCEPT !.map = f]
      BY <2>3, <3>1
    <3> QED
      BY <3>2, <3>3 DEF Shape
  <2>5. p.chan[c].refs > 0
    BY <2>1, <2>2, LinkedTypes
  <2>6. d = FreeChannel(v, c)
    BY <1>2, <2>1, <2>3 DEF MapRemove
  <2>7. /\ d \in Shape /\ d.sub = v.sub /\ d.map = v.map /\ d.io = v.io /\ d.user = v.user
        /\ Len(d.chan) = Len(v.chan) /\ d.chan[c].refs = v.chan[c].refs - 1
        /\ d.chan[c].key = v.chan[c].key /\ d.chan[c].list = v.chan[c].list
        /\ \A j \in 1 .. Len(v.chan) : j # c => d.chan[j] = v.chan[j]
    BY <2>2, <2>4, <2>5, <2>6, FreeChannelShape
  <2>8. \A j : Users(d, j) = Users(p, j)
    BY <2>4, <2>7 DEF Users
  <2>9. \A j \in 1 .. Len(p.chan) :
            d.chan[j].key = p.chan[j].key /\ d.chan[j].list = p.chan[j].list
    BY <2>4, <2>7
  <2>10. ASSUME NEW j \in 1 .. Len(p.chan)
         PROVE  ChanLinked(d, x, j)
    <3>1. /\ d.chan[j].refs = p.chan[j].refs - (IF j = c THEN 1 ELSE 0)
          /\ Cardinality(Users(p, j)) \in Nat /\ j # 0
          /\ p.chan[j].key \in Keys
      BY <2>4, <2>7, LinkedTypes
    <3>2. PICK n \in Nat : n = Cardinality(Users(p, j)) + (IF j = x THEN 1 ELSE 0)
      BY <3>1
    <3>3. p.chan[j].refs = FromMap(p, j) + n
      BY <3>1, <3>2 DEF Linked, ChanLinked, FromMap
    <3>4. FromMap(p, j) = FromMap(d, j) + (IF j = c THEN 1 ELSE 0) /\ FromMap(d, j) \in Nat
      BY <2>1, <2>2, <2>4, <2>7, <2>9, <3>1 DEF FromMap
    <3>5. d.chan[j].refs = FromMap(d, j) + n
      BY <3>1, <3>3, <3>4
    <3>6. d.chan[j].list \subseteq Users(d, j)
      BY <2>8, <2>9 DEF Linked, ChanLinked
    <3> QED
      BY <2>8, <3>1, <3>2, <3>5, <3>6 DEF ChanLinked, FromMap
  <2>11. \A i \in 1 .. Len(d.sub) : SubLinked(d, i)
    <3>1. ASSUME NEW i \in 1 .. Len(p.sub)
          PROVE  SubLinked(d, i)
      <4>1. SubLinked(p, i)
        BY DEF Linked
      <4>2. PICK b : b = p.sub[i].chan
        OBVIOUS
      <4>3. b # 0 => b \in 1 .. Len(p.chan)
        BY <4>1, <4>2 DEF SubLinked
      <4>4. b # 0 => d.chan[b].key = p.chan[b].key /\ d.chan[b].list = p.chan[b].list
        BY <2>9, <4>3
      <4> QED
        BY <2>4, <2>7, <4>1, <4>2, <4>3, <4>4 DEF SubLinked
    <3> QED
      BY <2>4, <2>7, <3>1
  <2>12. \A y \in Keys : MapLinked(d, y)
    BY <2>4, <2>7, <2>9 DEF Linked, MapLinked
  <2>13. Linked(d, x)
    BY <2>4, <2>7, <2>10, <2>11, <2>12 DEF Linked
  <2> QED
    BY <2>4, <2>7, <2>13
<1> QED
  BY <1>1, <1>2
-----------------------------------------------------------------------------
(* What no function changes of a subscription, and what it may add to a    *)
(* queue.                                                                  *)
Fresh(t) == t.fn = "deliver" /\ ~t.again

SameSub(a, b) ==
    /\ b.key = a.key /\ b.owner = a.owner /\ b.queue = a.queue /\ b.heard = a.heard
    /\ b.cancelled = a.cancelled /\ (b.live => a.live) /\ b.late = a.late

(* The subscriptions whose messages wait in queue n.                       *)
With(p, n) == {i \in 1 .. Len(p.sub) : p.sub[i].queue = n}

Added(t, l, S) ==
    t.fn # "publish" /\ ~Fresh(t) /\ t.msg <= l /\ (t.fn = "deliver" => t.sub \in S)

Adds(q, s, l, S) ==
    /\ Len(q) <= Len(s) /\ \A j \in 1 .. Len(q) : s[j] = q[j]
    /\ \A j \in Len(q) + 1 .. Len(s) : Added(s[j], l, S)

Keeps(p, d, l) ==
    /\ Len(p.sub) = Len(d.sub) /\ \A i \in 1 .. Len(p.sub) : SameSub(p.sub[i], d.sub[i])
    /\ Adds(p.io, d.io, l, With(d, "io")) /\ Adds(p.user, d.user, l, With(d, "user"))

LEMMA AddsSame ==
    ASSUME NEW q \in Seq(TaskRec), NEW l, NEW S
    PROVE  Adds(q, q, l, S)
BY LenProperties DEF Adds

LEMMA AddsOne ==
    ASSUME NEW q \in Seq(TaskRec), NEW l, NEW S, NEW t \in TaskRec, Added(t, l, S)
    PROVE  Adds(q, Append(q, t), l, S)
<1>1. PICK s \in Seq(TaskRec) : s = Append(q, t)
  BY CountAppend
<1>2. /\ Len(s) = Len(q) + 1 /\ s[Len(q) + 1] = t /\ Len(q) \in Nat
      /\ \A j \in 1 .. Len(q) : s[j] = q[j]
  BY <1>1, CountAppend
<1>3. \A j \in Len(q) + 1 .. Len(s) : s[j] = t
  BY <1>2
<1> QED
  BY <1>1, <1>2, <1>3 DEF Adds

(* Additions one after the other.                                          *)
LEMMA AddsTwice ==
    ASSUME NEW q \in Seq(TaskRec), NEW s \in Seq(TaskRec), NEW u \in Seq(TaskRec), NEW l,
           NEW S, NEW T, S \subseteq T, Adds(q, s, l, S), Adds(s, u, l, T)
    PROVE  Adds(q, u, l, T)
<1>1. Len(q) \in Nat /\ Len(s) \in Nat /\ Len(u) \in Nat
  BY LenProperties
<1>2. Len(q) <= Len(s) /\ Len(s) <= Len(u)
  BY DEF Adds
<1>3. ASSUME NEW j \in 1 .. Len(q)
      PROVE  u[j] = q[j]
  <2>1. j \in 1 .. Len(s)
    BY <1>1, <1>2
  <2> QED
    BY <2>1 DEF Adds
<1>4. ASSUME NEW j \in Len(q) + 1 .. Len(u)
      PROVE  Added(u[j], l, T)
  <2>1. CASE j <= Len(s)
    <3>1. j \in Len(q) + 1 .. Len(s) /\ j \in 1 .. Len(s)
      BY <1>1, <2>1
    <3>2. Added(s[j], l, S) /\ u[j] = s[j]
      BY <3>1 DEF Adds
    <3> QED
      BY <3>2 DEF Added
  <2>2. CASE ~(j <= Len(s))
    <3>1. j \in Len(s) + 1 .. Len(u)
      BY <1>1, <2>2
    <3> QED
      BY <3>1 DEF Adds
  <2> QED
    BY <2>1, <2>2
<1>5. Len(q) <= Len(u)
  BY <1>1, <1>2
<1> QED
  BY <1>3, <1>4, <1>5 DEF Adds

LEMMA KeepsTwice ==
    ASSUME NEW p \in Shape, NEW c \in Shape, NEW d \in Shape, NEW l,
           Keeps(p, c, l), Keeps(c, d, l)
    PROVE  Keeps(p, d, l)
<1>1. \A i \in 1 .. Len(p.sub) : SameSub(p.sub[i], d.sub[i])
  BY DEF Keeps, SameSub
<1>2. \A n : With(c, n) \subseteq With(d, n)
  BY DEF Keeps, SameSub, With
<1>3. Adds(p.io, d.io, l, With(d, "io")) /\ Adds(p.user, d.user, l, With(d, "user"))
  BY <1>2, AddsTwice, ShapeTypes DEF Keeps
<1> QED
  BY <1>1, <1>3 DEF Keeps

(* A task that is neither a message nor a publication was pushed.          *)
LEMMA PushKeeps ==
    ASSUME NEW p \in Shape, NEW q \in {"io", "user"}, NEW t \in TaskRec, NEW l,
           NEW d, d = Push(p, q, t), Added(t, l, With(p, q))
    PROVE  Keeps(p, d, l)
<1>1. /\ d.sub = p.sub
      /\ d.io = IF q = "io" THEN Append(p.io, t) ELSE p.io
      /\ d.user = IF q = "io" THEN p.user ELSE Append(p.user, t)
  BY PushShape
<1>2. p.io \in Seq(TaskRec) /\ p.user \in Seq(TaskRec)
  BY ShapeTypes
<1>3. \A n : With(d, n) = With(p, n)
  BY <1>1 DEF With
<1>4. Adds(p.io, d.io, l, With(d, "io")) /\ Adds(p.user, d.user, l, With(d, "user"))
  BY <1>1, <1>2, <1>3, AddsSame, AddsOne
<1> QED
  BY <1>1, <1>4 DEF Keeps, SameSub

LEMMA TaskType ==
    ASSUME NEW fn \in Fn, NEW i \in Nat, NEW l \in Nat
    PROVE  /\ Task(fn, i) \in TaskRec /\ Task(fn, i).fn = fn /\ Task(fn, i).sub = i
           /\ Task(fn, i).msg <= l /\ (fn # "deliver" => ~Fresh(Task(fn, i)))
BY DEF Task, TaskRec, Fresh

LEMMA TaskAdded ==
    ASSUME NEW fn \in Fn \ {"deliver", "publish"}, NEW i, NEW l \in Nat
    PROVE  \A S : Added(Task(fn, i), l, S)
BY DEF Task, Fresh, Added

-----------------------------------------------------------------------------
(* Giving up a reference to a subscription *)

Lower(p, i) == [p EXCEPT !.sub[i].refs = @ - 1]

LEMMA LowerShape ==
    ASSUME NEW p \in Shape, NEW i \in 1 .. Len(p.sub), p.sub[i].refs > 0,
           NEW d, d = Lower(p, i)
    PROVE  /\ d \in Shape /\ Len(d.sub) = Len(p.sub)
           /\ \A j \in 1 .. Len(p.sub) : j # i => d.sub[j] = p.sub[j]
           /\ d.sub[i].refs = p.sub[i].refs - 1 /\ SameSub(p.sub[i], d.sub[i])
           /\ d.sub[i].chan = p.sub[i].chan /\ d.sub[i].ended = p.sub[i].ended
           /\ d.chan = p.chan /\ d.map = p.map /\ d.io = p.io /\ d.user = p.user
<1>1. p.sub[i] \in SubRec
  BY ShapeTypes
<1>2. PICK n \in Nat : n = p.sub[i].refs - 1
  BY <1>1 DEF SubRec
<1>3. PICK a : a = [p.sub[i] EXCEPT !.refs = n]
  OBVIOUS
<1>4. /\ a \in SubRec /\ a.refs = n /\ a.chan = p.sub[i].chan /\ a.ended = p.sub[i].ended
      /\ SameSub(p.sub[i], a)
  BY <1>1, <1>3 DEF SubRec, SameSub
<1>5. PICK e : e = [p EXCEPT !.sub[i] = a]
  OBVIOUS
<1>6. /\ e \in Shape /\ Len(e.sub) = Len(p.sub) /\ e.sub[i] = a
      /\ \A j \in 1 .. Len(p.sub) : j # i => e.sub[j] = p.sub[j]
      /\ e.chan = p.chan /\ e.map = p.map /\ e.told = p.told
      /\ e.io = p.io /\ e.user = p.user
  BY <1>4, <1>5, WithSub
<1>7. d = e
  BY <1>2, <1>3, <1>5 DEF Lower
<1> QED
  BY <1>2, <1>4, <1>6, <1>7

(* The lists without subscription i.                                       *)
Unlisted(p, d, i, c) ==
    /\ d.map = p.map /\ Len(d.chan) = Len(p.chan)
    /\ \A j \in 1 .. Len(p.chan) :
           d.chan[j].key = p.chan[j].key /\ d.chan[j].refs = p.chan[j].refs
    /\ \A j \in 1 .. Len(p.chan) : j # c => d.chan[j].list = p.chan[j].list
    /\ \A j \in 1 .. Len(p.chan) : j = c => d.chan[j].list = p.chan[j].list \ {i}

LEMMA UnlinkShape ==
    ASSUME NEW p \in Shape, NEW i \in 1 .. Len(p.sub), NEW c, c = p.sub[i].chan,
           c \in 0 .. Len(p.chan), NEW d, d = Unlink(p, i)
    PROVE  /\ d \in Shape /\ d.sub = p.sub /\ d.io = p.io /\ d.user = p.user
           /\ Unlisted(p, d, i, c)
<1>1. Len(p.chan) \in Nat
  BY ShapeTypes
<1>2. CASE c = 0
  BY <1>1, <1>2 DEF Unlink, Unlisted
<1>3. CASE c # 0
  <2>1. c \in 1 .. Len(p.chan)
    BY <1>1, <1>3
  <2>2. p.chan[c] \in ChanRec
    BY <2>1, ShapeTypes
  <2>3. PICK L \in SUBSET Nat : L = p.chan[c].list \ {i}
    BY <2>2 DEF ChanRec
  <2>4. PICK a : a = [p.chan[c] EXCEPT !.list = L]
    BY ZenonT(30)
  <2>5. a \in ChanRec /\ a.key = p.chan[c].key /\ a.refs = p.chan[c].refs /\ a.list = L
    BY <2>2, <2>4 DEF ChanRec
  <2>6. d = [p EXCEPT !.chan[c] = a]
    BY <1>3, <2>3, <2>4 DEF Unlink
  <2>7. /\ d \in Shape /\ Len(d.chan) = Len(p.chan) /\ d.chan[c] = a
        /\ \A j \in 1 .. Len(p.chan) : j # c => d.chan[j] = p.chan[j]
        /\ d.sub = p.sub /\ d.map = p.map /\ d.io = p.io /\ d.user = p.user
    BY <2>1, <2>5, <2>6, WithChan
  <2> QED
    BY <2>3, <2>5, <2>7 DEF Unlisted
<1> QED
  BY <1>2, <1>3
(* The last reference goes: the subscription ends.                         *)
LEMMA LastReference ==
    ASSUME NEW p, NEW h, NEW r, NEW H, Good(p, h, r, H), h.fn \in Reactor,
           NEW i, i = h.sub, i # 0
    PROVE  /\ i \in 1 .. Len(p.sub) /\ p.sub[i].refs \in Nat \ {0}
           /\ p.sub[i].chan \in 0 .. Len(p.chan)
           /\ p.sub[i].refs = 1 => /\ Total(p, h, r, OwnerFn, i) = 1 /\ i \notin H
                                   /\ p.sub[i].chan # 0
<1>1. /\ p \in Shape /\ Named(p, h, r) /\ Counted(p, h, r, H) /\ Linked(p, 0)
  BY DEF Good
<1>2. /\ Len(p.sub) \in Nat /\ p.io \in Seq(TaskRec) /\ p.user \in Seq(TaskRec)
  BY <1>1, ShapeTypes
<1>3. i \in 1 .. Len(p.sub)
  BY <1>1, <1>2 DEF Named
<1>4. Tally(h, OwnerFn, i) = 1 /\ Tally(h, SubscribeFn, i) = 0
  BY DEF Tally, Is, Reactor, SubscribeFn
<1>5. PICK n \in Nat : n = Queued(p, OwnerFn, i)
  BY <1>1, TotalType
<1>6. PICK m \in Nat : m = Both(r, OwnerFn, i)
  BY <1>1, TotalType
<1>7. Total(p, h, r, OwnerFn, i) = n + 1 + m
  BY <1>4, <1>5, <1>6 DEF Total
<1>8. p.sub[i].refs = Total(p, h, r, OwnerFn, i) + (IF i \in H THEN 1 ELSE 0)
  BY <1>1, <1>3 DEF Counted
<1>9. p.sub[i].refs = 1 => n = 0 /\ m = 0 /\ i \notin H
  BY <1>7, <1>8
<1>10. ASSUME n = 0, m = 0
       PROVE  p.sub[i].chan # 0
  <2>1. Count(p.io, OwnerFn, i) = 0 /\ Count(p.user, OwnerFn, i) = 0
    <3>1. Count(p.io, OwnerFn, i) \in Nat /\ Count(p.user, OwnerFn, i) \in Nat
      BY <1>2, CountType
    <3> QED
      BY <1>5, <1>10, <3>1 DEF Queued
  <2>2. \A t : Is(t, SubscribeFn, i) => Is(t, OwnerFn, i)
    BY DEF Is, SubscribeFn, OwnerFn
  <2>3. Count(p.io, SubscribeFn, i) = 0 /\ Count(p.user, SubscribeFn, i) = 0
    BY <1>2, <2>1, <2>2, CountType
  <2>4. Both(r, SubscribeFn, i) = 0
    BY <1>6, <1>10, <2>2 DEF Tally, Both
  <2>5. Total(p, h, r, SubscribeFn, i) = 0
    BY <1>4, <2>3, <2>4 DEF Total, Queued
  <2> QED
    BY <1>1, <1>3, <2>5 DEF Counted
<1>11. p.sub[i].chan \in 0 .. Len(p.chan)
  BY <1>1, <1>3 DEF Linked, SubLinked
<1> QED
  BY <1>3, <1>7, <1>8, <1>9, <1>10, <1>11

(* Its place in the list and its reference to the channel: the reference   *)
(* is in hand once the subscription has none and is off the list.          *)
LEMMA DropLinked ==
    ASSUME NEW p \in Shape, Linked(p, 0), NEW i \in 1 .. Len(p.sub), p.sub[i].refs > 0,
           NEW c, c = p.sub[i].chan, c # 0,
           NEW d \in Shape, Len(d.sub) = Len(p.sub),
           \A j \in 1 .. Len(p.sub) : j # i => d.sub[j] = p.sub[j],
           d.sub[i].refs = 0, d.sub[i].chan = c, d.sub[i].key = p.sub[i].key,
           Unlisted(p, d, i, c)
    PROVE  c \in 1 .. Len(p.chan) /\ Linked(d, c)
<1>1. Len(p.chan) \in Nat
  BY ShapeTypes
<1>2. c \in 1 .. Len(p.chan)
  BY <1>1 DEF Linked, SubLinked
<1>3. Users(p, c) = Users(d, c) \cup {i} /\ i \notin Users(d, c)
  BY DEF Users
<1>4. \A j : j # c => Users(d, j) = Users(p, j)
  BY DEF Users
<1>5. IsFiniteSet(Users(p, c)) /\ Cardinality(Users(p, c)) = Cardinality(Users(d, c)) + 1
      /\ Cardinality(Users(d, c)) \in Nat
  <2>1. IsFiniteSet(Users(p, c))
    BY <1>2, LinkedTypes
  <2>2. IsFiniteSet(Users(d, c))
    BY <1>3, <2>1, FS_Subset
  <2> QED
    BY <1>3, <2>1, <2>2, FS_AddElement, FS_CardinalityType
<1>6. ASSUME NEW j \in 1 .. Len(p.chan)
      PROVE  ChanLinked(d, c, j)
  <2>1. FromMap(d, j) = FromMap(p, j) /\ FromMap(p, j) \in Nat /\ j # 0
    BY DEF FromMap, Unlisted
  <2>6. d.chan[j].refs = p.chan[j].refs
    BY DEF Unlisted
  <2>2. p.chan[j].refs = FromMap(p, j) + Cardinality(Users(p, j)) + 0
    BY <2>1 DEF Linked, ChanLinked
  <2>3. p.chan[j].list \subseteq Users(p, j)
    BY DEF Linked, ChanLinked
  <2>4. CASE j = c
    <3>1. d.chan[j].refs = FromMap(d, j) + Cardinality(Users(d, j)) + 1
      BY <1>5, <2>1, <2>2, <2>4, <2>6
    <3>2. d.chan[j].list \subseteq Users(d, j)
      BY <1>3, <2>3, <2>4 DEF Unlisted
    <3> QED
      BY <2>4, <3>1, <3>2 DEF ChanLinked
  <2>5. CASE j # c
    <3>1. d.chan[j].refs = FromMap(d, j) + Cardinality(Users(d, j)) + 0
      BY <1>4, <2>1, <2>2, <2>5, <2>6
    <3>2. d.chan[j].list \subseteq Users(d, j)
      BY <1>4, <2>3, <2>5 DEF Unlisted
    <3> QED
      BY <2>5, <3>1, <3>2 DEF ChanLinked
  <2> QED
    BY <2>4, <2>5
<1>7. ASSUME NEW j \in 1 .. Len(p.sub)
      PROVE  SubLinked(d, j)
  <2>1. d.sub[j].chan = p.sub[j].chan /\ d.sub[j].key = p.sub[j].key
    OBVIOUS
  <2>2. SubLinked(p, j)
    BY DEF Linked
  <2>3. \A x \in 0 .. Len(p.chan) : x # 0 => d.chan[x].key = p.chan[x].key
    BY <1>1 DEF Unlisted
  <2> QED
    BY <2>1, <2>2, <2>3 DEF SubLinked, Unlisted
<1>8. \A k \in Keys : MapLinked(d, k)
  BY DEF Linked, MapLinked, Unlisted
<1> QED
  BY <1>2, <1>6, <1>7, <1>8 DEF Linked, Unlisted

LEMMA HandTally ==
    ASSUME NEW h, h.fn \in Reactor, NEW j
    PROVE  /\ Tally(h, SubscribeFn, j) = 0 /\ Tally(h, EndedFn, j) = 0
           /\ Tally(h, OwnerFn, j) = IF j = h.sub THEN 1 ELSE 0
BY DEF Reactor, Tally, Is, OwnerFn, SubscribeFn, EndedFn

LEMMA EndedTally ==
    ASSUME NEW h, h.fn = "ended", NEW j
    PROVE  /\ Tally(h, SubscribeFn, j) = 0 /\ Tally(h, OwnerFn, j) = 0
           /\ Tally(h, EndedFn, j) = IF j = h.sub THEN 1 ELSE 0
BY DEF Tally, Is, OwnerFn, SubscribeFn, EndedFn

(* fio___pubsub_subscription_free2 gives back the reference that the task  *)
(* in hand owns.                                                           *)
LEMMA FreeSubGood ==
    ASSUME NEW p, NEW h, NEW r, NEW H, Good(p, h, r, H), h.fn \in Reactor,
           NEW i, i = h.sub, i # 0, NEW l \in Nat, NEW d, d = FreeSub(p, i)
    PROVE  Good(d, Idle, r, H) /\ Keeps(p, d, l)
<1>1. /\ p \in Shape /\ Named(p, h, r) /\ Counted(p, h, r, H) /\ Linked(p, 0)
  BY DEF Good
<1>2. /\ i \in 1 .. Len(p.sub) /\ p.sub[i].refs \in Nat \ {0}
      /\ p.sub[i].chan \in 0 .. Len(p.chan)
      /\ p.sub[i].refs = 1 => /\ Total(p, h, r, OwnerFn, i) = 1 /\ i \notin H
                              /\ p.sub[i].chan # 0
  BY LastReference
<1>11. p.sub[i].refs > 0
  BY <1>2
<1>3. PICK a : a = Lower(p, i)
  OBVIOUS
<1>4. /\ a \in Shape /\ Len(a.sub) = Len(p.sub)
      /\ \A j \in 1 .. Len(p.sub) : j # i => a.sub[j] = p.sub[j]
      /\ a.sub[i].refs = p.sub[i].refs - 1 /\ SameSub(p.sub[i], a.sub[i])
      /\ a.sub[i].chan = p.sub[i].chan /\ a.sub[i].ended = p.sub[i].ended
      /\ a.chan = p.chan /\ a.map = p.map /\ a.io = p.io /\ a.user = p.user
  BY <1>1, <1>2, <1>3, <1>11, LowerShape
<1>5. d = IF a.sub[i].refs > 0 THEN a ELSE OnDestroy(a, i)
  BY <1>3 DEF FreeSub, Lower
<1>6. /\ \A j \in 1 .. Len(p.sub) : SameSub(p.sub[j], a.sub[j]) /\ a.sub[j].key = p.sub[j].key
      /\ \A j \in 1 .. Len(p.sub) : a.sub[j].chan = p.sub[j].chan /\ a.sub[j].ended = p.sub[j].ended
  BY <1>4 DEF SameSub
<1>7. ASSUME NEW F, NEW j, Tally(Idle, F, j) = 0
      PROVE  Total(p, h, r, F, j) = Queued(p, F, j) + Both(r, F, j) + Tally(h, F, j)
             /\ Queued(p, F, j) \in Nat /\ Both(r, F, j) \in Nat /\ Tally(h, F, j) \in Nat
  <2>1. Queued(p, F, j) \in Nat /\ Both(r, F, j) \in Nat /\ Tally(h, F, j) \in Nat
    BY <1>1, TotalType
  <2> QED
    BY <2>1 DEF Total
<1>8. p.io \in Seq(TaskRec) /\ p.user \in Seq(TaskRec)
  BY <1>1, ShapeTypes
<1>9. CASE p.sub[i].refs # 1
  <2>1. d = a
    BY <1>2, <1>4, <1>5, <1>9
  <2>2. Named(a, Idle, r)
    <3>1. Idle \in TaskRec /\ Idle.sub = 0 /\ 0 \in 0 .. Len(p.sub)
      BY <1>1, IdleTask, ShapeTypes DEF Idle
    <3> QED
      BY <1>1, <1>4, <3>1 DEF Named
  <2>3. ASSUME NEW F, NEW j, Tally(Idle, F, j) = 0
        PROVE  Total(p, h, r, F, j) = Total(a, Idle, r, F, j) + Tally(h, F, j)
    <3>1. Queued(a, F, j) = Queued(p, F, j)
      BY <1>4 DEF Queued
    <3> QED
      BY <1>7, <2>3, <3>1 DEF Total
  <2>4. ASSUME NEW j \in 1 .. Len(p.sub)
        PROVE  /\ a.sub[j].refs = Total(a, Idle, r, OwnerFn, j) + (IF j \in H THEN 1 ELSE 0)
               /\ Total(a, Idle, r, SubscribeFn, j) = IF a.sub[j].chan = 0 THEN 1 ELSE 0
               /\ Total(a, Idle, r, EndedFn, j) + a.sub[j].ended = IF a.sub[j].refs = 0 THEN 1 ELSE 0
    <3>1. /\ p.sub[j].refs = Total(p, h, r, OwnerFn, j) + (IF j \in H THEN 1 ELSE 0)
          /\ Total(p, h, r, SubscribeFn, j) = IF p.sub[j].chan = 0 THEN 1 ELSE 0
          /\ Total(p, h, r, EndedFn, j) + p.sub[j].ended = IF p.sub[j].refs = 0 THEN 1 ELSE 0
      BY <1>1 DEF Counted
    <3>2. /\ Total(p, h, r, OwnerFn, j) = Total(a, Idle, r, OwnerFn, j) + Tally(h, OwnerFn, j)
          /\ Total(p, h, r, SubscribeFn, j) = Total(a, Idle, r, SubscribeFn, j) + Tally(h, SubscribeFn, j)
          /\ Total(p, h, r, EndedFn, j) = Total(a, Idle, r, EndedFn, j) + Tally(h, EndedFn, j)
      BY <2>3, IdleTally
    <3>3. /\ Total(a, Idle, r, OwnerFn, j) \in Nat /\ Total(a, Idle, r, SubscribeFn, j) \in Nat
          /\ Total(a, Idle, r, EndedFn, j) \in Nat
      BY <1>4, TotalType
    <3>4. /\ Tally(h, SubscribeFn, j) = 0 /\ Tally(h, EndedFn, j) = 0
          /\ Tally(h, OwnerFn, j) = IF j = i THEN 1 ELSE 0
      BY HandTally
    <3>5. a.sub[j].refs = p.sub[j].refs - (IF j = i THEN 1 ELSE 0)
      <4>1. p.sub[j].refs \in Nat
        BY <1>1, ShapeTypes DEF SubRec
      <4> QED
        BY <1>4, <4>1
    <3>6. a.sub[j].refs = 0 <=> p.sub[j].refs = 0
      <4>1. CASE j = i
        BY <1>2, <1>9, <3>5, <4>1
      <4>2. CASE j # i
        BY <1>4, <4>2
      <4> QED
        BY <4>1, <4>2
    <3> QED
      BY <1>6, <3>1, <3>2, <3>3, <3>4, <3>5, <3>6
  <2>5. Counted(a, Idle, r, H)
    BY <1>4, <2>4 DEF Counted
  <2>6. Linked(a, 0)
    <3>1. a.sub[i].refs > 0 /\ p.sub[i].refs > 0
      BY <1>2, <1>4, <1>9
    <3> QED
      BY <1>1, <1>4, <1>6, <3>1, LinkedSame
  <2>7. Keeps(p, a, l)
    BY <1>4, <1>6, <1>8, AddsSame DEF Keeps
  <2> QED
    BY <1>4, <2>1, <2>2, <2>5, <2>6, <2>7 DEF Good
<1>10. CASE p.sub[i].refs = 1
  <2>1. PICK c : c = p.sub[i].chan
    OBVIOUS
  <2>2. PICK v : v = Unlink(a, i)
    OBVIOUS
  <2>3. /\ v \in Shape /\ v.sub = a.sub /\ v.io = p.io /\ v.user = p.user
        /\ Unlisted(p, v, i, c)
    <3>1. /\ v \in Shape /\ v.sub = a.sub /\ v.io = a.io /\ v.user = a.user
          /\ Unlisted(a, v, i, c)
      BY <1>2, <1>4, <2>1, <2>2, UnlinkShape
    <3> QED
      BY <1>4, <3>1 DEF Unlisted
  <2>4. a.sub[i].refs = 0 /\ c # 0
    BY <1>2, <1>4, <1>10, <2>1
  <2>5. c \in 1 .. Len(p.chan) /\ Linked(v, c)
    <3>1. /\ Len(v.sub) = Len(p.sub) /\ v.sub[i].refs = 0 /\ v.sub[i].chan = c
          /\ v.sub[i].key = p.sub[i].key
          /\ \A j \in 1 .. Len(p.sub) : j # i => v.sub[j] = p.sub[j]
      BY <1>2, <1>4, <1>6, <2>1, <2>3, <2>4
    <3> QED
      BY <1>1, <1>2, <1>11, <2>1, <2>3, <2>4, <3>1, DropLinked
  <2>6. PICK t \in TaskRec : t = Task("ended", i)
    BY <1>2, TaskType DEF Fn
  <2>7. /\ t.fn = "ended" /\ t.sub = i /\ \A S : Added(t, l, S)
    <3>1. Task("ended", i).fn = "ended" /\ Task("ended", i).sub = i
      BY DEF Task
    <3> QED
      BY <2>6, <3>1, TaskAdded DEF Fn
  <2>8. PICK q : q = a.sub[i].queue
    OBVIOUS
  <2>9. PICK u : u = Push(v, q, t)
    OBVIOUS
  <2>10. /\ u \in Shape /\ u.sub = v.sub /\ u.chan = v.chan /\ u.map = v.map
         /\ u.io = (IF q = "io" THEN Append(p.io, t) ELSE p.io)
         /\ u.user = (IF q = "io" THEN p.user ELSE Append(p.user, t))
         /\ \A F, j : Queued(u, F, j) = Queued(v, F, j) + Tally(t, F, j)
    BY <2>3, <2>9, PushShape
  <2>11. Linked(u, c)
    BY <2>5, <2>10, LinkedSame
  <2>12. PICK m : m = IF u.chan[c].list # {} THEN MapRemove(u, a.sub[i].key) ELSE u
    OBVIOUS
  <2>13. /\ m \in Shape /\ Linked(m, c) /\ Len(m.chan) = Len(u.chan)
         /\ m.sub = u.sub /\ m.io = u.io /\ m.user = u.user
    <3>1. a.sub[i].key \in Keys
      BY <1>2, <1>4, ShapeTypes DEF SubRec
    <3> QED
      BY <2>10, <2>11, <2>12, <3>1, MapRemoveLinked
  <2>14. d = FreeChannel(m, c)
    <3>1. d = OnDestroy(a, i)
      BY <1>5, <2>4
    <3> QED
      BY <1>4, <2>1, <2>2, <2>6, <2>8, <2>9, <2>12, <3>1, ZenonT(30) DEF OnDestroy
  <2>15. /\ d \in Shape /\ Linked(d, 0) /\ d.sub = a.sub /\ d.io = u.io /\ d.user = u.user
    <3>1. c \in 1 .. Len(m.chan)
      BY <2>3, <2>5, <2>10, <2>13 DEF Unlisted
    <3> QED
      BY <2>3, <2>10, <2>13, <2>14, <3>1, FreeChannelLinked
  <2>16. Named(d, Idle, r)
    <3>1. Named(a, h, r)
      BY <1>1, <1>4 DEF Named
    <3> QED
      BY <1>2, <1>4, <2>7, <2>10, <2>15, <3>1, PushNamed, ZenonT(30)
  <2>17. \A F, j : Queued(d, F, j) = Queued(p, F, j) + Tally(t, F, j)
    BY <2>3, <2>10, <2>15 DEF Queued
  <2>18. ASSUME NEW F, NEW j, Tally(Idle, F, j) = 0
         PROVE  Total(d, Idle, r, F, j) + Tally(h, F, j) = Total(p, h, r, F, j) + Tally(t, F, j)
    <3>1. Tally(t, F, j) \in Nat
      BY <1>1, TotalType
    <3> QED
      BY <1>7, <2>17, <2>18, <3>1 DEF Total
  <2>19. ASSUME NEW j \in 1 .. Len(p.sub)
         PROVE  /\ d.sub[j].refs = Total(d, Idle, r, OwnerFn, j) + (IF j \in H THEN 1 ELSE 0)
                /\ Total(d, Idle, r, SubscribeFn, j) = IF d.sub[j].chan = 0 THEN 1 ELSE 0
                /\ Total(d, Idle, r, EndedFn, j) + d.sub[j].ended = IF d.sub[j].refs = 0 THEN 1 ELSE 0
    <3>1. /\ p.sub[j].refs = Total(p, h, r, OwnerFn, j) + (IF j \in H THEN 1 ELSE 0)
          /\ Total(p, h, r, SubscribeFn, j) = IF p.sub[j].chan = 0 THEN 1 ELSE 0
          /\ Total(p, h, r, EndedFn, j) + p.sub[j].ended = IF p.sub[j].refs = 0 THEN 1 ELSE 0
      BY <1>1 DEF Counted
    <3>2. /\ Total(d, Idle, r, OwnerFn, j) + Tally(h, OwnerFn, j)
                 = Total(p, h, r, OwnerFn, j) + Tally(t, OwnerFn, j)
          /\ Total(d, Idle, r, SubscribeFn, j) + Tally(h, SubscribeFn, j)
                 = Total(p, h, r, SubscribeFn, j) + Tally(t, SubscribeFn, j)
          /\ Total(d, Idle, r, EndedFn, j) + Tally(h, EndedFn, j)
                 = Total(p, h, r, EndedFn, j) + Tally(t, EndedFn, j)
      BY <2>18, IdleTally
    <3>3. /\ Total(d, Idle, r, OwnerFn, j) \in Nat /\ Total(d, Idle, r, SubscribeFn, j) \in Nat
          /\ Total(d, Idle, r, EndedFn, j) \in Nat
      BY <2>15, TotalType
    <3>4. /\ Total(p, h, r, OwnerFn, j) \in Nat /\ Total(p, h, r, SubscribeFn, j) \in Nat
          /\ Total(p, h, r, EndedFn, j) \in Nat
      BY <1>1, TotalType
    <3>5. /\ Tally(h, SubscribeFn, j) = 0 /\ Tally(h, EndedFn, j) = 0
          /\ Tally(h, OwnerFn, j) = IF j = i THEN 1 ELSE 0
      BY HandTally
    <3>6. /\ Tally(t, SubscribeFn, j) = 0 /\ Tally(t, OwnerFn, j) = 0
          /\ Tally(t, EndedFn, j) = IF j = i THEN 1 ELSE 0
      BY <2>7, EndedTally
    <3>7. d.sub[j].chan = p.sub[j].chan /\ d.sub[j].ended = p.sub[j].ended
      BY <1>6, <2>15
    <3>8. CASE j = i
      <4>1. d.sub[j].refs = 0 /\ Total(p, h, r, OwnerFn, j) = 1 /\ j \notin H
        BY <1>2, <1>10, <2>4, <2>15, <3>8
      <4>2. Total(d, Idle, r, OwnerFn, j) = 0
        BY <3>2, <3>3, <3>5, <3>6, <3>8, <4>1
      <4>3. Total(p, h, r, EndedFn, j) + p.sub[j].ended = 0
        BY <1>10, <3>1, <3>8
      <4>4. Total(d, Idle, r, EndedFn, j) = Total(p, h, r, EndedFn, j) + 1
        BY <3>2, <3>3, <3>5, <3>6, <3>8
      <4>5. p.sub[j].ended \in Nat
        BY <1>1, ShapeTypes DEF SubRec
      <4>6. Total(d, Idle, r, EndedFn, j) + d.sub[j].ended = 1
        BY <3>4, <3>7, <4>3, <4>4, <4>5
      <4>7. Total(d, Idle, r, SubscribeFn, j) = Total(p, h, r, SubscribeFn, j)
        BY <3>2, <3>3, <3>4, <3>5, <3>6
      <4> QED
        BY <3>1, <3>7, <4>1, <4>2, <4>6, <4>7
    <3>9. CASE j # i
      <4>1. d.sub[j].refs = p.sub[j].refs
        BY <1>4, <2>15, <3>9
      <4>2. /\ Total(d, Idle, r, OwnerFn, j) = Total(p, h, r, OwnerFn, j)
            /\ Total(d, Idle, r, SubscribeFn, j) = Total(p, h, r, SubscribeFn, j)
            /\ Total(d, Idle, r, EndedFn, j) = Total(p, h, r, EndedFn, j)
        BY <3>2, <3>3, <3>4, <3>5, <3>6, <3>9
      <4> QED
        BY <3>1, <3>7, <4>1, <4>2
    <3> QED
      BY <3>8, <3>9
  <2>20. Counted(d, Idle, r, H)
    BY <1>4, <2>15, <2>19 DEF Counted
  <2>21. Keeps(p, d, l)
    <3>1. Adds(p.io, d.io, l, With(d, "io")) /\ Adds(p.user, d.user, l, With(d, "user"))
      BY <1>8, <2>7, <2>10, <2>15, AddsSame, AddsOne
    <3> QED
      BY <1>4, <1>6, <2>15, <3>1 DEF Keeps
  <2> QED
    BY <2>15, <2>16, <2>20, <2>21 DEF Good
<1> QED
  BY <1>9, <1>10
-----------------------------------------------------------------------------
(* Other changes of one subscription *)

OneSub(p, d, i) ==
    /\ Len(d.sub) = Len(p.sub) /\ \A j \in 1 .. Len(p.sub) : j # i => d.sub[j] = p.sub[j]
    /\ d.sub[i].key = p.sub[i].key /\ d.sub[i].chan = p.sub[i].chan
    /\ d.sub[i].refs = 0 <=> p.sub[i].refs = 0
    /\ d.chan = p.chan /\ d.map = p.map /\ d.io = p.io /\ d.user = p.user

Holds(H, i) == IF i \in H THEN 1 ELSE 0

LEMMA Balance ==
    ASSUME NEW R \in Nat, NEW D \in Nat, NEW a \in Nat, NEW b \in Nat, NEW x \in Nat,
           NEW y \in Nat, NEW u \in Nat, NEW v \in Nat,
           R = a + x + b + u, D + x + u = R + y + v
    PROVE  D = a + y + b + v
OBVIOUS

(* What the subscription gains in references it gains in holders.          *)
LEMMA SubGood ==
    ASSUME NEW p, NEW h, NEW r, NEW H, Good(p, h, r, H), NEW i \in 1 .. Len(p.sub),
           NEW d \in Shape, OneSub(p, d, i), NEW g \in TaskRec, g.sub \in 0 .. Len(p.sub),
           NEW G, \A j \in 1 .. Len(p.sub) : j # i =>
                      /\ Holds(G, j) = Holds(H, j)
                      /\ Tally(g, OwnerFn, j) = Tally(h, OwnerFn, j)
                      /\ Tally(g, SubscribeFn, j) = Tally(h, SubscribeFn, j)
                      /\ Tally(g, EndedFn, j) = Tally(h, EndedFn, j),
           d.sub[i].refs + Tally(h, OwnerFn, i) + Holds(H, i)
               = p.sub[i].refs + Tally(g, OwnerFn, i) + Holds(G, i),
           Tally(g, SubscribeFn, i) = Tally(h, SubscribeFn, i),
           Tally(g, EndedFn, i) + d.sub[i].ended = Tally(h, EndedFn, i) + p.sub[i].ended
    PROVE  Good(d, g, r, G)
<1>1. /\ p \in Shape /\ Named(p, h, r) /\ Counted(p, h, r, H) /\ Linked(p, 0)
  BY DEF Good
<1>2. Named(d, g, r)
  BY <1>1 DEF Named, OneSub
<1>3. Linked(d, 0)
  <2>1. ASSUME NEW j \in 1 .. Len(p.sub)
        PROVE  /\ d.sub[j].chan = p.sub[j].chan /\ d.sub[j].key = p.sub[j].key
               /\ d.sub[j].refs > 0 <=> p.sub[j].refs > 0
    <3>1. CASE j # i
      BY <3>1 DEF OneSub
    <3>2. CASE j = i
      <4>1. d.sub[i].refs \in Nat /\ p.sub[i].refs \in Nat
        BY <1>1, ShapeTypes DEF SubRec, OneSub
      <4> QED
        BY <3>2, <4>1 DEF OneSub
    <3> QED
      BY <3>1, <3>2
  <2> QED
    BY <1>1, <2>1, LinkedSame DEF OneSub
<1>4. ASSUME NEW F, NEW j
      PROVE  /\ Queued(d, F, j) = Queued(p, F, j) /\ Queued(p, F, j) \in Nat
             /\ Both(r, F, j) \in Nat /\ Tally(h, F, j) \in Nat /\ Tally(g, F, j) \in Nat
  BY <1>1, TotalType DEF Queued, OneSub
<1>5. ASSUME NEW j \in 1 .. Len(p.sub)
      PROVE  /\ p.sub[j].refs = Total(p, h, r, OwnerFn, j) + Holds(H, j)
             /\ Total(p, h, r, SubscribeFn, j) = IF p.sub[j].chan = 0 THEN 1 ELSE 0
             /\ Total(p, h, r, EndedFn, j) + p.sub[j].ended = IF p.sub[j].refs = 0 THEN 1 ELSE 0
  BY <1>1 DEF Counted, Holds
<1>6. ASSUME NEW j \in 1 .. Len(p.sub)
      PROVE  /\ d.sub[j].refs = Total(d, g, r, OwnerFn, j) + Holds(G, j)
             /\ Total(d, g, r, SubscribeFn, j) = IF d.sub[j].chan = 0 THEN 1 ELSE 0
             /\ Total(d, g, r, EndedFn, j) + d.sub[j].ended = IF d.sub[j].refs = 0 THEN 1 ELSE 0
  <2>1. CASE j # i
    <3>1. /\ Total(d, g, r, OwnerFn, j) = Total(p, h, r, OwnerFn, j)
          /\ Total(d, g, r, SubscribeFn, j) = Total(p, h, r, SubscribeFn, j)
          /\ Total(d, g, r, EndedFn, j) = Total(p, h, r, EndedFn, j)
      BY <1>4, <2>1 DEF Total
    <3> QED
      BY <1>5, <2>1, <3>1 DEF OneSub
  <2>2. CASE j = i
    <3>1. p.sub[i].refs \in Nat /\ d.sub[i].refs \in Nat
          /\ p.sub[i].ended \in Nat /\ d.sub[i].ended \in Nat
      BY <1>1, ShapeTypes DEF SubRec, OneSub
    <3>2. Holds(H, i) \in Nat /\ Holds(G, i) \in Nat
      BY DEF Holds
    <3>3. d.sub[i].refs = Total(d, g, r, OwnerFn, i) + Holds(G, i)
      <4>1. PICK a \in Nat, b \in Nat, x \in Nat, y \in Nat :
                /\ a = Queued(p, OwnerFn, i) /\ b = Both(r, OwnerFn, i)
                /\ x = Tally(h, OwnerFn, i) /\ y = Tally(g, OwnerFn, i)
        BY <1>4
      <4>2. /\ p.sub[i].refs = a + x + b + Holds(H, i)
            /\ Total(d, g, r, OwnerFn, i) = a + y + b
        BY <1>4, <1>5, <4>1 DEF Total
      <4>4. d.sub[i].refs + x + Holds(H, i) = p.sub[i].refs + y + Holds(G, i)
        BY <4>1
      <4>5. PICK R \in Nat, D \in Nat, u \in Nat, v \in Nat :
                R = p.sub[i].refs /\ D = d.sub[i].refs /\ u = Holds(H, i) /\ v = Holds(G, i)
        BY <3>1, <3>2
      <4>6. R = a + x + b + u /\ D + x + u = R + y + v
        BY <4>2, <4>4, <4>5
      <4>7. D = a + y + b + v
        BY <4>6, Balance
      <4> QED
        BY <4>2, <4>5, <4>7
    <3>4. Total(d, g, r, SubscribeFn, i) = Total(p, h, r, SubscribeFn, i)
      BY <1>4 DEF Total
    <3>5. Total(d, g, r, EndedFn, i) + d.sub[i].ended
              = Total(p, h, r, EndedFn, i) + p.sub[i].ended
      <4>1. PICK a \in Nat, b \in Nat, x \in Nat, y \in Nat :
                /\ a = Queued(p, EndedFn, i) /\ b = Both(r, EndedFn, i)
                /\ x = Tally(h, EndedFn, i) /\ y = Tally(g, EndedFn, i)
        BY <1>4
      <4>2. /\ Total(p, h, r, EndedFn, i) = a + x + b
            /\ Total(d, g, r, EndedFn, i) = a + y + b
        BY <1>4, <4>1 DEF Total
      <4>3. \A E, D \in Nat : y + D = x + E => (a + y + b) + D = (a + x + b) + E
        OBVIOUS
      <4>4. y + d.sub[i].ended = x + p.sub[i].ended
        BY <4>1
      <4>5. (a + y + b) + d.sub[i].ended = (a + x + b) + p.sub[i].ended
        BY <3>1, <4>3, <4>4
      <4> QED
        BY <4>2, <4>5
    <3> QED
      BY <1>5, <2>2, <3>3, <3>4, <3>5 DEF OneSub
  <2> QED
    BY <2>1, <2>2
<1>7. Counted(d, g, r, G)
  BY <1>6 DEF Counted, Holds, OneSub
<1> QED
  BY <1>2, <1>3, <1>7 DEF Good
-----------------------------------------------------------------------------
(* What every function keeps, those included that make a subscription or   *)
(* cancel one.                                                             *)
SameWho(a, b) ==
    /\ b.key = a.key /\ b.owner = a.owner /\ b.queue = a.queue /\ b.heard = a.heard
    /\ (b.live => a.live) /\ b.late = a.late

Follows(p, d, l) ==
    /\ Len(p.sub) <= Len(d.sub)
    /\ \A i \in 1 .. Len(p.sub) : SameWho(p.sub[i], d.sub[i])
    /\ \A i \in Len(p.sub) + 1 .. Len(d.sub) : d.sub[i].heard = <<>> /\ d.sub[i].late = 0
    /\ Adds(p.io, d.io, l, With(d, "io")) /\ Adds(p.user, d.user, l, With(d, "user"))

LEMMA KeepsFollows ==
    ASSUME NEW p \in Shape, NEW d \in Shape, NEW l, Keeps(p, d, l)
    PROVE  Follows(p, d, l)
<1>1. Len(p.sub) = Len(d.sub) /\ Len(p.sub) \in Nat
  BY ShapeTypes DEF Keeps
<1>2. \A i \in 1 .. Len(p.sub) : SameWho(p.sub[i], d.sub[i])
  BY DEF Keeps, SameSub, SameWho
<1>3. Len(p.sub) <= Len(d.sub) /\ Len(p.sub) + 1 .. Len(d.sub) = {}
  BY <1>1
<1> QED
  BY <1>2, <1>3 DEF Keeps, Follows

LEMMA FollowsTwice ==
    ASSUME NEW p \in Shape, NEW c \in Shape, NEW d \in Shape, NEW l,
           Follows(p, c, l), Follows(c, d, l)
    PROVE  Follows(p, d, l)
<1>1. Len(p.sub) \in Nat /\ Len(c.sub) \in Nat /\ Len(d.sub) \in Nat
  BY ShapeTypes
<1>2. Len(p.sub) <= Len(c.sub) /\ Len(c.sub) <= Len(d.sub)
  BY DEF Follows
<1>3. ASSUME NEW i \in 1 .. Len(p.sub)
      PROVE  SameWho(p.sub[i], d.sub[i])
  <2>1. i \in 1 .. Len(c.sub)
    BY <1>1, <1>2
  <2> QED
    BY <2>1 DEF Follows, SameWho
<1>4. ASSUME NEW i \in Len(p.sub) + 1 .. Len(d.sub)
      PROVE  d.sub[i].heard = <<>> /\ d.sub[i].late = 0
  <2>1. CASE i <= Len(c.sub)
    <3>1. i \in Len(p.sub) + 1 .. Len(c.sub) /\ i \in 1 .. Len(c.sub)
      BY <1>1, <2>1
    <3> QED
      BY <3>1 DEF Follows, SameWho
  <2>2. CASE ~(i <= Len(c.sub))
    <3>1. i \in Len(c.sub) + 1 .. Len(d.sub)
      BY <1>1, <2>2
    <3> QED
      BY <3>1 DEF Follows
  <2> QED
    BY <2>1, <2>2
<1>5. \A n : With(c, n) \subseteq With(d, n)
  BY <1>1, <1>2 DEF Follows, SameWho, With
<1>6. Adds(p.io, d.io, l, With(d, "io"))
  BY <1>5, AddsTwice, ShapeTypes DEF Follows
<1>7. Adds(p.user, d.user, l, With(d, "user"))
  BY <1>5, AddsTwice, ShapeTypes DEF Follows
<1> QED
  BY <1>1, <1>2, <1>3, <1>4, <1>6, <1>7 DEF Follows

(* One subscription gets another record, in which it keeps its channel.    *)
LEMMA RecordShape ==
    ASSUME NEW p \in Shape, NEW i \in 1 .. Len(p.sub), NEW a \in SubRec,
           a.key = p.sub[i].key, a.chan = p.sub[i].chan, a.refs = 0 <=> p.sub[i].refs = 0,
           NEW d, d = [p EXCEPT !.sub[i] = a]
    PROVE  /\ d \in Shape /\ OneSub(p, d, i) /\ d.sub[i] = a
<1>1. /\ d \in Shape /\ Len(d.sub) = Len(p.sub) /\ d.sub[i] = a
      /\ \A j \in 1 .. Len(p.sub) : j # i => d.sub[j] = p.sub[j]
      /\ d.chan = p.chan /\ d.map = p.map /\ d.told = p.told
      /\ d.io = p.io /\ d.user = p.user
  BY WithSub
<1> QED
  BY <1>1 DEF OneSub

CancelOnly(p, d, i) ==
    /\ d.chan = p.chan /\ d.map = p.map /\ Len(d.sub) = Len(p.sub)
    /\ \A j \in 1 .. Len(p.sub) : j # i => d.sub[j] = p.sub[j]
    /\ d.sub[i].refs = p.sub[i].refs /\ SameWho(p.sub[i], d.sub[i])
    /\ d.sub[i].cancelled = TRUE /\ d.sub[i].live = FALSE

(* fio___pubsub_subscription_env_unsubscribe: the holder's reference goes  *)
(* with the task.                                                          *)
LEMMA CancelGood ==
    ASSUME NEW p, NEW r, NEW H, Good(p, Idle, r, H), NEW i \in 1 .. Len(p.sub), i \in H,
           NEW l \in Nat, NEW d, d = EnvUnsubscribe(p, i)
    PROVE  Good(d, Idle, r, H \ {i}) /\ Follows(p, d, l) /\ CancelOnly(p, d, i)
<1>1. p \in Shape /\ p.sub[i] \in SubRec /\ Len(p.sub) \in Nat
  BY ShapeTypes DEF Good
<1>2. PICK a : a = [p.sub[i] EXCEPT !.live = FALSE, !.cancelled = TRUE]
  OBVIOUS
<1>3. /\ a \in SubRec /\ a.key = p.sub[i].key /\ a.chan = p.sub[i].chan
      /\ a.refs = p.sub[i].refs /\ a.ended = p.sub[i].ended
      /\ a.cancelled = TRUE /\ a.live = FALSE /\ SameWho(p.sub[i], a)
  BY <1>1, <1>2 DEF SubRec, SameWho
<1>4. PICK e : e = [p EXCEPT !.sub[i] = a]
  OBVIOUS
<1>5. e \in Shape /\ OneSub(p, e, i) /\ e.sub[i] = a
  BY <1>1, <1>3, <1>4, RecordShape
<1>6. PICK t \in TaskRec : t = Task("unsubscribe", i)
  BY <1>1, TaskType DEF Fn, OwnerFn
<1>7. t.fn = "unsubscribe" /\ t.sub = i /\ t.fn \in Reactor /\ \A S : Added(t, l, S)
  BY <1>1, <1>6, TaskType, TaskAdded DEF Fn, OwnerFn, Reactor
<1>8. d = Push(e, "io", t)
  <2>1. i # 0
    BY <1>1
  <2>2. e = [p EXCEPT !.sub[i].live = FALSE, !.sub[i].cancelled = TRUE]
    BY <1>1, <1>2, <1>4 DEF Shape
  <2>3. d = Push([p EXCEPT !.sub[i].live = FALSE, !.sub[i].cancelled = TRUE], "io",
                 Task("unsubscribe", i))
    BY <2>1 DEF EnvUnsubscribe
  <2> QED
    BY <1>6, <2>2, <2>3
<1>9. Good(e, t, r, H \ {i})
  <2> DEFINE G == H \ {i}
  <2>1. \A j \in 1 .. Len(p.sub) : j # i =>
            /\ Holds(G, j) = Holds(H, j)
            /\ Tally(t, OwnerFn, j) = Tally(Idle, OwnerFn, j)
            /\ Tally(t, SubscribeFn, j) = Tally(Idle, SubscribeFn, j)
            /\ Tally(t, EndedFn, j) = Tally(Idle, EndedFn, j)
    BY <1>7, IdleTally, HandTally DEF Holds
  <2>2. /\ Tally(t, OwnerFn, i) = 1 /\ Tally(t, SubscribeFn, i) = 0 /\ Tally(t, EndedFn, i) = 0
    BY <1>7, HandTally
  <2>3. Holds(H, i) = 1 /\ Holds(G, i) = 0
    BY DEF Holds
  <2>4. t.sub \in 0 .. Len(p.sub)
    BY <1>1, <1>7
  <2>5. /\ e.sub[i].refs + Tally(Idle, OwnerFn, i) + Holds(H, i)
               = p.sub[i].refs + Tally(t, OwnerFn, i) + Holds(G, i)
        /\ Tally(t, SubscribeFn, i) = Tally(Idle, SubscribeFn, i)
        /\ Tally(t, EndedFn, i) + e.sub[i].ended = Tally(Idle, EndedFn, i) + p.sub[i].ended
    <3>1. a.refs \in Nat /\ a.ended \in Nat
      BY <1>3 DEF SubRec
    <3> QED
      BY <1>3, <1>5, <2>2, <2>3, <3>1, IdleTally
  <2> HIDE DEF G
  <2>6. Good(e, t, r, G)
    BY <1>5, <2>1, <2>4, <2>5, SubGood
  <2> QED
    BY <2>6 DEF G
<1>10. Good(d, Idle, r, H \ {i})
  <2>1. t.sub # 0
    BY <1>7
  <2> QED
    BY <1>7, <1>8, <1>9, <2>1, PushGood
<1>11. /\ d.sub = e.sub /\ d.chan = e.chan /\ d.map = e.map
       /\ d.io = Append(p.io, t) /\ d.user = p.user
  <2>1. PICK q : q = "io"
    OBVIOUS
  <2>2. /\ d.sub = e.sub /\ d.chan = e.chan /\ d.map = e.map
        /\ d.io = IF q = "io" THEN Append(e.io, t) ELSE e.io
        /\ d.user = IF q = "io" THEN e.user ELSE Append(e.user, t)
    <3>1. d = Push(e, q, t)
      BY <1>8, <2>1
    <3> QED
      BY <1>5, <3>1, PushShape
  <2> QED
    BY <1>5, <2>1, <2>2 DEF OneSub
<1>12. /\ Len(d.sub) = Len(p.sub) /\ d.chan = p.chan /\ d.map = p.map /\ d.sub[i] = a
       /\ \A j \in 1 .. Len(p.sub) : j # i => d.sub[j] = p.sub[j]
  BY <1>5, <1>11 DEF OneSub
<1>13. Follows(p, d, l)
  <2>1. Adds(p.io, d.io, l, With(d, "io")) /\ Adds(p.user, d.user, l, With(d, "user"))
    BY <1>1, <1>7, <1>11, ShapeTypes, AddsSame, AddsOne
  <2>2. \A j \in 1 .. Len(p.sub) : SameWho(p.sub[j], d.sub[j])
    BY <1>3, <1>12 DEF SameWho
  <2>3. Len(p.sub) <= Len(d.sub) /\ Len(p.sub) + 1 .. Len(d.sub) = {}
    BY <1>1, <1>12
  <2> QED
    BY <2>1, <2>2, <2>3 DEF Follows
<1> QED
  BY <1>3, <1>10, <1>12, <1>13 DEF CancelOnly

(* A message is on its way to the subscription: another reference.         *)
Raise(p, i) == [p EXCEPT !.sub[i].refs = @ + 1]

LEMMA RaiseGood ==
    ASSUME NEW p, NEW r, NEW H, Good(p, Idle, r, H), NEW i \in 1 .. Len(p.sub),
           p.sub[i].refs > 0, NEW t \in TaskRec, t.fn = "deliver", t.sub = i,
           NEW name, name = p.sub[i].queue, NEW d, d = Push(Raise(p, i), name, t)
    PROVE  /\ Good(d, Idle, r, H)
           /\ d.chan = p.chan /\ d.map = p.map /\ Len(d.sub) = Len(p.sub)
           /\ \A j \in 1 .. Len(p.sub) : j # i => d.sub[j] = p.sub[j]
           /\ SameSub(p.sub[i], d.sub[i]) /\ d.sub[i].refs > 0
           /\ d.io = (IF name = "io" THEN Append(p.io, t) ELSE p.io)
           /\ d.user = (IF name = "io" THEN p.user ELSE Append(p.user, t))
<1>1. p \in Shape /\ p.sub[i] \in SubRec /\ Len(p.sub) \in Nat
  BY ShapeTypes DEF Good
<1>2. PICK n \in Nat : n = p.sub[i].refs + 1
  BY <1>1 DEF SubRec
<1>3. PICK a : a = [p.sub[i] EXCEPT !.refs = n]
  OBVIOUS
<1>4. /\ a \in SubRec /\ a.key = p.sub[i].key /\ a.chan = p.sub[i].chan
      /\ a.refs = n /\ a.ended = p.sub[i].ended /\ a.live = p.sub[i].live
      /\ SameSub(p.sub[i], a)
  BY <1>1, <1>3 DEF SubRec, SameSub
<1>5. n # 0 /\ n > 0 /\ p.sub[i].refs # 0
  BY <1>1, <1>2 DEF SubRec
<1>6. PICK e : e = [p EXCEPT !.sub[i] = a]
  OBVIOUS
<1>7. e \in Shape /\ OneSub(p, e, i) /\ e.sub[i] = a
  BY <1>1, <1>4, <1>5, <1>6, RecordShape
<1>8. PICK q \in {"io", "user"} : q = p.sub[i].queue
  BY <1>1 DEF SubRec
<1>9. d = Push(e, q, t)
  BY <1>2, <1>3, <1>6, <1>8 DEF Raise
<1>10. t.fn \in Reactor /\ t.sub # 0 /\ t.sub \in 0 .. Len(p.sub)
  BY <1>1 DEF Reactor, OwnerFn
<1>11. Good(e, t, r, H)
  <2>1. \A j \in 1 .. Len(p.sub) : j # i =>
            /\ Holds(H, j) = Holds(H, j)
            /\ Tally(t, OwnerFn, j) = Tally(Idle, OwnerFn, j)
            /\ Tally(t, SubscribeFn, j) = Tally(Idle, SubscribeFn, j)
            /\ Tally(t, EndedFn, j) = Tally(Idle, EndedFn, j)
    BY <1>10, IdleTally, HandTally
  <2>2. /\ Tally(t, OwnerFn, i) = 1 /\ Tally(t, SubscribeFn, i) = 0 /\ Tally(t, EndedFn, i) = 0
    BY <1>10, HandTally
  <2>3. Holds(H, i) \in Nat
    BY DEF Holds
  <2>4. /\ e.sub[i].refs + Tally(Idle, OwnerFn, i) + Holds(H, i)
               = p.sub[i].refs + Tally(t, OwnerFn, i) + Holds(H, i)
        /\ Tally(t, SubscribeFn, i) = Tally(Idle, SubscribeFn, i)
        /\ Tally(t, EndedFn, i) + e.sub[i].ended = Tally(Idle, EndedFn, i) + p.sub[i].ended
    <3>1. p.sub[i].refs \in Nat /\ p.sub[i].ended \in Nat
      BY <1>1 DEF SubRec
    <3> QED
      BY <1>2, <1>4, <1>7, <2>2, <2>3, <3>1, IdleTally
  <2> QED
    BY <1>7, <1>10, <2>1, <2>4, SubGood
<1>12. Good(d, Idle, r, H)
  BY <1>9, <1>10, <1>11, PushGood
<1>13. /\ d.sub = e.sub /\ d.chan = e.chan /\ d.map = e.map
       /\ d.io = IF q = "io" THEN Append(e.io, t) ELSE e.io
       /\ d.user = IF q = "io" THEN e.user ELSE Append(e.user, t)
  BY <1>7, <1>9, PushShape
<1> QED
  BY <1>4, <1>5, <1>7, <1>8, <1>12, <1>13 DEF OneSub

(* on_message and on_unsubscribe are called.                               *)
Hears(p, i, m) == [p EXCEPT !.sub[i].heard = Append(@, m)]

OnlyHeard(a, b, m) ==
    /\ a.heard \in Seq(Nat) /\ b.heard = Append(a.heard, m)
    /\ b.refs = a.refs /\ b.queue = a.queue /\ b.owner = a.owner /\ b.key = a.key
    /\ b.cancelled = a.cancelled /\ b.live = a.live /\ b.late = a.late

LEMMA HeardGood ==
    ASSUME NEW p, NEW h, NEW r, NEW H, Good(p, h, r, H), NEW i \in 1 .. Len(p.sub),
           NEW m \in Nat, NEW d, d = Hears(p, i, m)
    PROVE  /\ Good(d, h, r, H)
           /\ d.chan = p.chan /\ d.map = p.map /\ d.io = p.io /\ d.user = p.user
           /\ Len(d.sub) = Len(p.sub)
           /\ \A j \in 1 .. Len(p.sub) : j # i => d.sub[j] = p.sub[j]
           /\ OnlyHeard(p.sub[i], d.sub[i], m)
<1>1. p \in Shape /\ p.sub[i] \in SubRec /\ Len(p.sub) \in Nat
  BY ShapeTypes DEF Good
<1>2. p.sub[i].heard \in Seq(Nat)
  BY <1>1 DEF SubRec
<1>3. PICK s \in Seq(Nat) : s = Append(p.sub[i].heard, m)
  BY <1>2, AppendProperties
<1>4. PICK a : a = [p.sub[i] EXCEPT !.heard = s]
  OBVIOUS
<1>5. /\ a \in SubRec /\ a.key = p.sub[i].key /\ a.chan = p.sub[i].chan /\ a.heard = s
      /\ a.refs = p.sub[i].refs /\ a.ended = p.sub[i].ended
      /\ OnlyHeard(p.sub[i], a, m)
  BY <1>1, <1>3, <1>4 DEF SubRec, OnlyHeard
<1>6. d = [p EXCEPT !.sub[i] = a]
  BY <1>3, <1>4 DEF Hears
<1>7. d \in Shape /\ OneSub(p, d, i) /\ d.sub[i] = a
  <2>1. PICK e : e = [p EXCEPT !.sub[i] = a]
    OBVIOUS
  <2>2. e \in Shape /\ OneSub(p, e, i) /\ e.sub[i] = a
    BY <1>1, <1>5, <2>1, RecordShape
  <2> QED
    BY <1>6, <2>1, <2>2
<1>8. h \in TaskRec /\ h.sub \in 0 .. Len(p.sub)
  BY DEF Good, Named
<1>9. Good(d, h, r, H)
  BY <1>5, <1>7, <1>8, SubGood
<1> QED
  BY <1>5, <1>7, <1>9 DEF OneSub

LEMMA EndedGood ==
    ASSUME NEW p, NEW h, NEW r, NEW H, Good(p, h, r, H), h.fn = "ended",
           NEW i \in 1 .. Len(p.sub), i = h.sub, NEW l \in Nat,
           NEW d, d = [p EXCEPT !.sub[i].ended = @ + 1]
    PROVE  Good(d, Idle, r, H) /\ Keeps(p, d, l) /\ d.chan = p.chan /\ d.map = p.map
           /\ \A j \in 1 .. Len(p.sub) : d.sub[j].refs = p.sub[j].refs
<1>1. p \in Shape /\ p.sub[i] \in SubRec /\ Len(p.sub) \in Nat
  BY ShapeTypes DEF Good
<1>2. PICK n \in Nat : n = p.sub[i].ended + 1
  BY <1>1 DEF SubRec
<1>3. PICK a : a = [p.sub[i] EXCEPT !.ended = n]
  OBVIOUS
<1>4. /\ a \in SubRec /\ a.key = p.sub[i].key /\ a.chan = p.sub[i].chan
      /\ a.refs = p.sub[i].refs /\ a.ended = n /\ SameSub(p.sub[i], a)
  BY <1>1, <1>3 DEF SubRec, SameSub
<1>5. d = [p EXCEPT !.sub[i] = a]
  BY <1>2, <1>3
<1>6. d \in Shape /\ OneSub(p, d, i) /\ d.sub[i] = a
  <2>1. PICK e : e = [p EXCEPT !.sub[i] = a]
    OBVIOUS
  <2>2. e \in Shape /\ OneSub(p, e, i) /\ e.sub[i] = a
    BY <1>1, <1>4, <2>1, RecordShape
  <2> QED
    BY <1>5, <2>1, <2>2
<1>7. Good(d, Idle, r, H)
  <2>0. PICK g : g = Idle
    OBVIOUS
  <2>1. \A j \in 1 .. Len(p.sub) : j # i =>
            /\ Holds(H, j) = Holds(H, j)
            /\ Tally(g, OwnerFn, j) = Tally(h, OwnerFn, j)
            /\ Tally(g, SubscribeFn, j) = Tally(h, SubscribeFn, j)
            /\ Tally(g, EndedFn, j) = Tally(h, EndedFn, j)
    BY <2>0, IdleTally, EndedTally
  <2>2. /\ Tally(h, OwnerFn, i) = 0 /\ Tally(h, SubscribeFn, i) = 0 /\ Tally(h, EndedFn, i) = 1
    BY EndedTally
  <2>3. g \in TaskRec /\ g.sub \in 0 .. Len(p.sub)
    BY <1>1, <2>0, IdleTask DEF Idle
  <2>4. Holds(H, i) \in Nat
    BY DEF Holds
  <2>5. /\ d.sub[i].refs + Tally(h, OwnerFn, i) + Holds(H, i)
               = p.sub[i].refs + Tally(g, OwnerFn, i) + Holds(H, i)
        /\ Tally(g, SubscribeFn, i) = Tally(h, SubscribeFn, i)
        /\ Tally(g, EndedFn, i) + d.sub[i].ended = Tally(h, EndedFn, i) + p.sub[i].ended
    <3>1. p.sub[i].refs \in Nat /\ p.sub[i].ended \in Nat
      BY <1>1 DEF SubRec
    <3> QED
      BY <1>2, <1>4, <1>6, <2>2, <2>0, <2>4, <3>1, IdleTally
  <2>6. Good(d, g, r, H)
    <3>1. Good(p, h, r, H) /\ d \in Shape /\ OneSub(p, d, i) /\ i \in 1 .. Len(p.sub)
      BY <1>6
    <3> QED
      BY ONLY <2>1, <2>3, <2>5, <3>1, SubGood
  <2> QED
    BY <2>0, <2>6
<1>8. Keeps(p, d, l)
  <2>1. \A j \in 1 .. Len(p.sub) : SameSub(p.sub[j], d.sub[j])
    BY <1>4, <1>6 DEF OneSub, SameSub
  <2>2. Adds(p.io, d.io, l, With(d, "io")) /\ Adds(p.user, d.user, l, With(d, "user"))
    BY <1>1, <1>6, ShapeTypes, AddsSame DEF OneSub
  <2> QED
    BY <1>6, <2>1, <2>2 DEF Keeps, OneSub
<1> QED
  BY <1>4, <1>6, <1>7, <1>8 DEF OneSub
(* fio_pubsub_subscribe: a subscription with a reference for its holder    *)
(* and one for the task.                                                   *)
AddSub(p, a) == [p EXCEPT !.sub = Append(@, a)]

LEMMA AddSubShape ==
    ASSUME NEW p \in Shape, NEW a \in SubRec, NEW d, d = AddSub(p, a)
    PROVE  /\ d \in Shape /\ Len(d.sub) = Len(p.sub) + 1 /\ d.sub[Len(p.sub) + 1] = a
           /\ \A j \in 1 .. Len(p.sub) : d.sub[j] = p.sub[j]
           /\ d.chan = p.chan /\ d.map = p.map /\ d.io = p.io /\ d.user = p.user
<1>1. p.sub \in Seq(SubRec)
  BY ShapeTypes
<1>2. PICK s : s = Append(p.sub, a)
  OBVIOUS
<1>3. /\ s \in Seq(SubRec) /\ Len(s) = Len(p.sub) + 1 /\ s[Len(p.sub) + 1] = a
      /\ \A j \in 1 .. Len(p.sub) : s[j] = p.sub[j]
  BY <1>1, <1>2, AppendProperties
<1>4. d = [p EXCEPT !.sub = s]
  BY <1>2 DEF AddSub
<1> QED
  BY <1>3, <1>4 DEF Shape

(* No task names a subscription that is not there yet.                     *)
LEMMA Unnamed ==
    ASSUME NEW p, NEW r, NEW H, Good(p, Idle, r, H), NEW i \in Nat, i > Len(p.sub), NEW F
    PROVE  Queued(p, F, i) = 0 /\ Both(r, F, i) = 0 /\ Tally(Idle, F, i) = 0
<1>1. p \in Shape /\ Named(p, Idle, r) /\ Len(p.sub) \in Nat
  BY ShapeTypes DEF Good
<1>2. \A j \in 1 .. Len(p.io) : p.io[j].sub # i
  BY <1>1 DEF Named
<1>3. \A j \in 1 .. Len(p.user) : p.user[j].sub # i
  BY <1>1 DEF Named
<1>4. Count(p.io, F, i) = 0
  BY <1>1, <1>2, ShapeTypes, CountType DEF Is
<1>5. Count(p.user, F, i) = 0
  BY <1>1, <1>3, ShapeTypes, CountType DEF Is
<1>6. r.io.sub # i /\ r.user.sub # i /\ Idle.sub # i
  BY <1>1 DEF Named
<1> QED
  BY <1>4, <1>5, <1>6 DEF Queued, Both, Tally, Is

LEMMA AddSubLinked ==
    ASSUME NEW p \in Shape, NEW d \in Shape, Linked(p, 0), Len(d.sub) = Len(p.sub) + 1,
           \A j \in 1 .. Len(p.sub) : d.sub[j] = p.sub[j],
           d.sub[Len(p.sub) + 1].chan = 0, d.chan = p.chan, d.map = p.map
    PROVE  Linked(d, 0)
<1>1. Len(p.sub) \in Nat /\ Len(p.chan) \in Nat
  BY ShapeTypes
<1>2. ASSUME NEW j \in 1 .. Len(d.sub)
      PROVE  j \in 1 .. Len(p.sub) \/ (j = Len(p.sub) + 1 /\ j \notin 1 .. Len(p.sub))
  BY <1>1
<1>3. ASSUME NEW c \in 1 .. Len(p.chan)
      PROVE  Users(d, c) = Users(p, c)
  <2>1. c # 0
    OBVIOUS
  <2>2. \A j \in 1 .. Len(p.sub) : j \in 1 .. Len(d.sub)
    BY <1>1
  <2> QED
    BY <1>2, <2>1, <2>2 DEF Users
<1>4. \A c \in 1 .. Len(d.chan) : ChanLinked(d, 0, c)
  <2>1. \A c : FromMap(d, c) = FromMap(p, c)
    BY DEF FromMap
  <2> QED
    BY <1>3, <2>1 DEF Linked, ChanLinked
<1>5. ASSUME NEW j \in 1 .. Len(d.sub)
      PROVE  SubLinked(d, j)
  <2>1. CASE j \in 1 .. Len(p.sub)
    BY <2>1 DEF Linked, SubLinked
  <2>2. CASE j = Len(p.sub) + 1
    BY <1>1, <2>2 DEF SubLinked
  <2> QED
    BY <1>2, <2>1, <2>2
<1>6. \A k \in Keys : MapLinked(d, k)
  BY DEF Linked, MapLinked
<1> QED
  BY <1>4, <1>5, <1>6 DEF Linked

Enlist(p, a, n) == Push(AddSub(p, a), "io", Task("subscribe", n))
Unused(p, a, n) ==
    /\ n = Len(p.sub) + 1 /\ a.refs = 2 /\ a.chan = 0 /\ a.ended = 0 /\ a.heard = <<>>
    /\ a.late = 0

AddOnly(p, d, a, n) ==
    /\ d.chan = p.chan /\ d.map = p.map /\ Len(d.sub) = n /\ d.sub[n] = a
    /\ \A j \in 1 .. Len(p.sub) : d.sub[j] = p.sub[j]

LEMMA SubscribedGood ==
    ASSUME NEW p, NEW r, NEW H, Good(p, Idle, r, H), NEW a \in SubRec, NEW n, Unused(p, a, n),
           NEW l \in Nat, NEW d, d = Enlist(p, a, n)
    PROVE  Good(d, Idle, r, H \cup {n}) /\ Follows(p, d, l) /\ AddOnly(p, d, a, n)
<1>0. /\ n = Len(p.sub) + 1 /\ a.refs = 2 /\ a.chan = 0 /\ a.ended = 0 /\ a.heard = <<>>
      /\ a.late = 0 /\ d = Push(AddSub(p, a), "io", Task("subscribe", n))
  BY DEF Unused, Enlist
<1>1. /\ p \in Shape /\ Len(p.sub) \in Nat /\ Named(p, Idle, r) /\ Counted(p, Idle, r, H)
      /\ Linked(p, 0) /\ n \in Nat /\ n > Len(p.sub)
  BY <1>0, ShapeTypes DEF Good, AddOnly
<1>2. PICK e : e = AddSub(p, a)
  OBVIOUS
<1>3. /\ e \in Shape /\ Len(e.sub) = n /\ e.sub[n] = a
      /\ \A j \in 1 .. Len(p.sub) : e.sub[j] = p.sub[j]
      /\ e.chan = p.chan /\ e.map = p.map /\ e.io = p.io /\ e.user = p.user
  BY <1>0, <1>1, <1>2, AddSubShape
<1>4. PICK t \in TaskRec : t = Task("subscribe", n)
  BY <1>1, TaskType, Kinds
<1>5. t.fn = "subscribe" /\ t.sub = n /\ \A S : Added(t, l, S)
  BY <1>1, <1>4, TaskType, TaskAdded, Kinds DEF Fn
<1>6. /\ d \in Shape /\ d.sub = e.sub /\ d.chan = e.chan /\ d.map = e.map
      /\ d.io = Append(p.io, t) /\ d.user = p.user
      /\ \A F, i : Queued(d, F, i) = Queued(e, F, i) + Tally(t, F, i)
  <2>1. PICK q : q = "io"
    OBVIOUS
  <2>2. d = Push(e, q, t)
    BY <1>0, <1>2, <1>4, <2>1
  <2>3. /\ d \in Shape /\ d.sub = e.sub /\ d.chan = e.chan /\ d.map = e.map
        /\ d.io = IF q = "io" THEN Append(e.io, t) ELSE e.io
        /\ d.user = IF q = "io" THEN e.user ELSE Append(e.user, t)
        /\ \A F, i : Queued(d, F, i) = Queued(e, F, i) + Tally(t, F, i)
    BY <1>3, <2>2, PushShape
  <2> QED
    BY <1>3, <2>1, <2>3
<1>7. \A F, i : Queued(d, F, i) = Queued(p, F, i) + Tally(t, F, i)
  BY <1>3, <1>6 DEF Queued
<1>8. ASSUME NEW j \in 1 .. n
      PROVE  j \in 1 .. Len(p.sub) \/ j = n
  BY <1>0, <1>1
<1>9. Named(d, Idle, r)
  <2>1. Named(e, Idle, r)
    <3>1. 0 .. Len(p.sub) \subseteq 0 .. n /\ 1 .. Len(p.sub) \subseteq 1 .. n
      BY <1>1
    <3> QED
      BY <1>1, <1>3, <3>1 DEF Named
  <2>2. t.sub \in 1 .. Len(e.sub)
    BY <1>1, <1>3, <1>5
  <2>3. PICK q : q = "io"
    OBVIOUS
  <2>4. /\ d.io = IF q = "io" THEN Append(e.io, t) ELSE e.io
        /\ d.user = IF q = "io" THEN e.user ELSE Append(e.user, t)
    BY <1>3, <1>6, <2>3
  <2> QED
    BY <1>3, <1>5, <1>6, <2>1, <2>2, <2>3, <2>4, PushNamed
<1>10. ASSUME NEW F, NEW j
       PROVE  /\ Total(d, Idle, r, F, j) = Total(p, Idle, r, F, j) + Tally(t, F, j)
              /\ Total(p, Idle, r, F, j) \in Nat
  <2>1. /\ Queued(p, F, j) \in Nat /\ Both(r, F, j) \in Nat /\ Tally(t, F, j) \in Nat
        /\ Tally(Idle, F, j) \in Nat
    BY <1>1, TotalType
  <2>2. Queued(d, F, j) = Queued(p, F, j) + Tally(t, F, j)
    BY <1>7
  <2>3. PICK x \in Nat, y \in Nat, z \in Nat, w \in Nat :
            /\ x = Queued(p, F, j) /\ y = Tally(Idle, F, j) /\ z = Both(r, F, j)
            /\ w = Tally(t, F, j)
    BY <2>1
  <2>4. Total(d, Idle, r, F, j) = (x + w) + y + z /\ Total(p, Idle, r, F, j) = x + y + z
    BY <2>2, <2>3 DEF Total
  <2>5. (x + w) + y + z = (x + y + z) + w /\ x + y + z \in Nat
    BY ONLY x \in Nat, y \in Nat, z \in Nat, w \in Nat
  <2> QED
    BY <2>3, <2>4, <2>5
<1>11. ASSUME NEW j \in 1 .. n
       PROVE  /\ d.sub[j].refs = Total(d, Idle, r, OwnerFn, j) + (IF j \in H \cup {n} THEN 1 ELSE 0)
              /\ Total(d, Idle, r, SubscribeFn, j) = IF d.sub[j].chan = 0 THEN 1 ELSE 0
              /\ Total(d, Idle, r, EndedFn, j) + d.sub[j].ended = IF d.sub[j].refs = 0 THEN 1 ELSE 0
  <2>1. CASE j \in 1 .. Len(p.sub)
    <3>1. /\ p.sub[j].refs = Total(p, Idle, r, OwnerFn, j) + (IF j \in H THEN 1 ELSE 0)
          /\ Total(p, Idle, r, SubscribeFn, j) = IF p.sub[j].chan = 0 THEN 1 ELSE 0
          /\ Total(p, Idle, r, EndedFn, j) + p.sub[j].ended = IF p.sub[j].refs = 0 THEN 1 ELSE 0
      BY <1>1, <2>1 DEF Counted
    <3>2. j # n
      BY <1>1, <2>1
    <3>3. \A F : Tally(t, F, j) = 0
      BY <1>5, <3>2 DEF Tally, Is
    <3>4. \A F : Total(d, Idle, r, F, j) = Total(p, Idle, r, F, j)
      BY <1>10, <3>3
    <3>5. d.sub[j] = p.sub[j]
      BY <1>3, <1>6, <2>1
    <3> QED
      BY <3>1, <3>2, <3>4, <3>5
  <2>2. CASE j = n
    <3>1. ASSUME NEW F
          PROVE  Total(p, Idle, r, F, n) = 0
      BY <1>1, Unnamed DEF Total
    <3>2. Tally(t, OwnerFn, n) = 1 /\ Tally(t, SubscribeFn, n) = 1 /\ Tally(t, EndedFn, n) = 0
      BY <1>5, Kinds DEF Tally, Is, SubscribeFn, EndedFn
    <3>3. /\ Total(d, Idle, r, OwnerFn, n) = 1 /\ Total(d, Idle, r, SubscribeFn, n) = 1
          /\ Total(d, Idle, r, EndedFn, n) = 0
      BY <1>10, <3>1, <3>2
    <3>4. d.sub[n] = a /\ n \in H \cup {n}
      BY <1>3, <1>6
    <3> QED
      BY <1>0, <2>2, <3>3, <3>4
  <2> QED
    BY <1>8, <2>1, <2>2
<1>12. Counted(d, Idle, r, H \cup {n})
  BY <1>3, <1>6, <1>11 DEF Counted
<1>13. Linked(d, 0)
  <2>1. /\ d.sub[Len(p.sub) + 1].chan = 0 /\ Len(d.sub) = Len(p.sub) + 1
        /\ d.chan = p.chan /\ d.map = p.map
        /\ \A j \in 1 .. Len(p.sub) : d.sub[j] = p.sub[j]
    BY <1>0, <1>3, <1>6
  <2> QED
    BY <1>1, <1>6, <2>1, AddSubLinked
<1>14. Follows(p, d, l)
  <2>1. Adds(p.io, d.io, l, With(d, "io")) /\ Adds(p.user, d.user, l, With(d, "user"))
    BY <1>1, <1>5, <1>6, ShapeTypes, AddsSame, AddsOne
  <2>2. \A j \in 1 .. Len(p.sub) : SameWho(p.sub[j], d.sub[j])
    BY <1>3, <1>6 DEF SameWho
  <2>3. Len(p.sub) <= Len(d.sub) /\ \A j \in Len(p.sub) + 1 .. Len(d.sub) : j = n
    BY <1>0, <1>1, <1>3, <1>6
  <2> QED
    BY <1>0, <1>3, <1>6, <2>1, <2>2, <2>3 DEF Follows
<1> QED
  BY <1>3, <1>6, <1>9, <1>12, <1>13, <1>14 DEF Good, AddOnly
-----------------------------------------------------------------------------
(* fio___pubsub_subscribe_task *)
LEMMA MapSetLinked ==
    ASSUME NEW p \in Shape, Linked(p, 0), NEW k \in Keys, NEW d, d = MapSet(p, k)
    PROVE  /\ d \in Shape /\ Linked(d, 0) /\ d.sub = p.sub /\ d.io = p.io /\ d.user = p.user
           /\ d.map[k] \in 1 .. Len(d.chan) /\ d.chan[d.map[k]].key = k
<1>1. /\ p.chan \in Seq(ChanRec) /\ p.map \in [Keys -> Nat] /\ p.told \subseteq Keys
      /\ Len(p.chan) \in Nat /\ p.sub \in Seq(SubRec)
  BY ShapeTypes
<1>2. CASE p.map[k] # 0
  BY <1>2 DEF MapSet, Linked, MapLinked
<1>3. CASE p.map[k] = 0
  <2>1. PICK n \in Nat : n = Len(p.chan) + 1
    BY <1>1
  <2>2. PICK a \in ChanRec : a = [key |-> k, refs |-> 1, list |-> {}]
    BY DEF ChanRec
  <2>3. a.key = k /\ a.refs = 1 /\ a.list = {}
    BY <2>2
  <2>4. PICK s : s = Append(p.chan, a)
    OBVIOUS
  <2>5. /\ s \in Seq(ChanRec) /\ Len(s) = n /\ s[n] = a
        /\ \A j \in 1 .. Len(p.chan) : s[j] = p.chan[j]
    BY <1>1, <2>1, <2>4, AppendProperties
  <2>6. PICK f \in [Keys -> Nat] : f = [p.map EXCEPT ![k] = n]
    BY <1>1
  <2>7. f[k] = n /\ \A x \in Keys : x # k => f[x] = p.map[x]
    BY <1>1, <2>6
  <2>8. PICK T \in SUBSET Keys : T = p.told \cup {k}
    BY <1>1
  <2>9. d = [p EXCEPT !.chan = s, !.map = f, !.told = T]
    <3>1. d = [p EXCEPT !.chan = Append(@, [key |-> k, refs |-> 1, list |-> {}]),
                        !.map[k] = Len(p.chan) + 1, !.told = @ \cup {k}]
      BY <1>3 DEF MapSet
    <3> QED
      BY <2>1, <2>2, <2>4, <2>6, <2>8, <3>1 DEF Shape
  <2>10. /\ d \in Shape /\ d.sub = p.sub /\ d.io = p.io /\ d.user = p.user
         /\ d.chan = s /\ d.map = f
    BY <2>5, <2>9 DEF Shape
  <2>11. n \notin 1 .. Len(p.chan) /\ n # 0 /\ \A c \in 1 .. n : c \in 1 .. Len(p.chan) \/ c = n
    BY <1>1, <2>1
  <2>12. \A c : Users(d, c) = Users(p, c)
    BY <2>10 DEF Users
  <2>13. Users(p, n) = {}
    <3>1. \A j \in 1 .. Len(p.sub) : p.sub[j].chan # n
      <4>1. n \notin 0 .. Len(p.chan)
        BY <1>1, <2>1
      <4> QED
        BY <4>1 DEF Linked, SubLinked
    <3> QED
      BY <3>1 DEF Users
  <2>14. ASSUME NEW c \in 1 .. n
         PROVE  ChanLinked(d, 0, c)
    <3>1. CASE c = n
      <4>1. FromMap(d, c) = 1
        BY <2>3, <2>5, <2>7, <2>10, <3>1 DEF FromMap
      <4>2. Cardinality(Users(d, c)) = 0
        BY <2>12, <2>13, <3>1, FS_EmptySet
      <4>3. d.chan[c].refs = FromMap(d, c) + Cardinality(Users(d, c)) + 0
        BY <2>3, <2>5, <2>10, <3>1, <4>1, <4>2
      <4> QED
        BY <2>3, <2>5, <2>10, <2>11, <3>1, <4>3 DEF ChanLinked
    <3>2. CASE c # n
      <4>1. c \in 1 .. Len(p.chan) /\ d.chan[c] = p.chan[c]
        BY <2>5, <2>10, <2>11, <3>2
      <4>2. p.chan[c].key \in Keys
        BY <4>1, ShapeTypes DEF ChanRec
      <4>3. FromMap(d, c) = FromMap(p, c)
        <5>1. CASE p.chan[c].key = k
          <6>1. p.map[p.chan[c].key] # c
            BY <1>3, <4>1, <5>1
          <6>2. d.map[d.chan[c].key] # c
            BY <2>7, <2>10, <3>2, <4>1, <5>1
          <6> QED
            BY <6>1, <6>2 DEF FromMap
        <5>2. CASE p.chan[c].key # k
          BY <2>7, <2>10, <4>1, <4>2, <5>2 DEF FromMap
        <5> QED
          BY <5>1, <5>2
      <4>4. ChanLinked(p, 0, c)
        BY <4>1 DEF Linked
      <4> QED
        BY <2>12, <4>1, <4>3, <4>4 DEF ChanLinked
    <3> QED
      BY <3>1, <3>2
  <2>15. ASSUME NEW j \in 1 .. Len(p.sub)
         PROVE  SubLinked(d, j)
    <3>1. SubLinked(p, j)
      BY DEF Linked
    <3>2. p.sub[j].chan \in 0 .. n
      BY <1>1, <2>1, <3>1 DEF SubLinked
    <3>3. p.sub[j].chan # 0 => p.sub[j].chan \in 1 .. Len(p.chan)
      BY <1>1, <3>1 DEF SubLinked
    <3> QED
      BY <2>5, <2>10, <3>1, <3>2, <3>3 DEF SubLinked
  <2>16. ASSUME NEW x \in Keys
         PROVE  MapLinked(d, x)
    <3>1. CASE x = k
      <4>1. n \in 1 .. n
        BY <2>1, <2>11
      <4> QED
        BY <2>3, <2>5, <2>7, <2>10, <3>1, <4>1 DEF MapLinked
    <3>2. CASE x # k
      <4>1. d.map[x] = p.map[x]
        BY <2>7, <2>10, <3>2
      <4>2. 1 .. Len(p.chan) \subseteq 1 .. n
        BY <1>1, <2>1
      <4> QED
        BY <2>5, <2>10, <4>1, <4>2 DEF Linked, MapLinked
    <3> QED
      BY <3>1, <3>2
  <2>17. Linked(d, 0)
    BY <2>5, <2>10, <2>14, <2>15, <2>16 DEF Linked
  <2>18. n \in 1 .. n
    BY <2>1, <2>11
  <2> QED
    BY <2>3, <2>5, <2>7, <2>10, <2>17, <2>18
<1> QED
  BY <1>2, <1>3

Join(p, i, c) ==
    [p EXCEPT !.sub[i].chan = c, !.chan[c].refs = @ + 1, !.chan[c].list = @ \cup {i}]

Joined(p, d, i, c) ==
    /\ Len(d.sub) = Len(p.sub) /\ Len(d.chan) = Len(p.chan)
    /\ \A j \in 1 .. Len(p.sub) : j # i => d.sub[j] = p.sub[j]
    /\ d.sub[i].chan = c /\ SameSub(p.sub[i], d.sub[i])
    /\ d.sub[i].refs = p.sub[i].refs /\ d.sub[i].ended = p.sub[i].ended
    /\ \A x \in 1 .. Len(p.chan) : x # c => d.chan[x] = p.chan[x]
    /\ d.chan[c].key = p.chan[c].key /\ d.chan[c].refs = p.chan[c].refs + 1
    /\ d.chan[c].list = p.chan[c].list \cup {i}
    /\ d.map = p.map /\ d.io = p.io /\ d.user = p.user

LEMMA JoinShape ==
    ASSUME NEW p \in Shape, NEW i \in 1 .. Len(p.sub), NEW c \in 1 .. Len(p.chan),
           NEW d, d = Join(p, i, c)
    PROVE  d \in Shape /\ Joined(p, d, i, c)
<1>1. /\ p.sub[i] \in SubRec /\ p.chan[c] \in ChanRec /\ c \in Nat /\ i \in Nat
      /\ Len(p.sub) \in Nat /\ Len(p.chan) \in Nat
  BY ShapeTypes
<1>2. PICK a : a = [p.sub[i] EXCEPT !.chan = c]
  OBVIOUS
<1>3. /\ a \in SubRec /\ a.chan = c /\ a.refs = p.sub[i].refs /\ a.ended = p.sub[i].ended
      /\ SameSub(p.sub[i], a)
  BY <1>1, <1>2 DEF SubRec, SameSub
<1>4. PICK e : e = [p EXCEPT !.sub[i].chan = c]
  OBVIOUS
<1>5. /\ e \in Shape /\ Len(e.sub) = Len(p.sub) /\ e.sub[i] = a
      /\ \A j \in 1 .. Len(p.sub) : j # i => e.sub[j] = p.sub[j]
      /\ e.chan = p.chan /\ e.map = p.map /\ e.told = p.told
      /\ e.io = p.io /\ e.user = p.user
  <2>1. e = [p EXCEPT !.sub[i] = a]
    BY <1>2, <1>4
  <2> QED
    BY <1>3, <2>1, WithSub
<1>6. PICK f : f = [e EXCEPT !.chan[c].refs = @ + 1]
  OBVIOUS
<1>7. /\ f \in Shape /\ Len(f.chan) = Len(p.chan)
      /\ \A x \in 1 .. Len(p.chan) : x # c => f.chan[x] = p.chan[x]
      /\ f.sub = e.sub /\ f.map = e.map /\ f.io = e.io /\ f.user = e.user
      /\ f.chan[c].key = p.chan[c].key /\ f.chan[c].refs = p.chan[c].refs + 1
      /\ f.chan[c].list = p.chan[c].list
  <2>1. PICK n \in Nat : n = p.chan[c].refs + 1
    BY <1>1 DEF ChanRec
  <2>2. PICK b : b = [p.chan[c] EXCEPT !.refs = n]
    OBVIOUS
  <2>3. b \in ChanRec /\ b.key = p.chan[c].key /\ b.refs = n /\ b.list = p.chan[c].list
    BY <1>1, <2>2 DEF ChanRec
  <2>4. f = [e EXCEPT !.chan[c] = b] /\ c \in 1 .. Len(e.chan)
    BY <1>5, <1>6, <2>1, <2>2
  <2>5. /\ f \in Shape /\ Len(f.chan) = Len(e.chan) /\ f.chan[c] = b
        /\ \A x \in 1 .. Len(e.chan) : x # c => f.chan[x] = e.chan[x]
        /\ f.sub = e.sub /\ f.map = e.map /\ f.told = e.told
        /\ f.io = e.io /\ f.user = e.user
    BY <1>5, <2>3, <2>4, WithChan
  <2> QED
    BY <1>5, <2>1, <2>3, <2>5
<1>8. PICK g : g = [f EXCEPT !.chan[c].list = @ \cup {i}]
  OBVIOUS
<1>9. /\ g \in Shape /\ Len(g.chan) = Len(p.chan)
      /\ \A x \in 1 .. Len(p.chan) : x # c => g.chan[x] = p.chan[x]
      /\ g.sub = e.sub /\ g.map = e.map /\ g.io = e.io /\ g.user = e.user
      /\ g.chan[c].key = p.chan[c].key /\ g.chan[c].refs = p.chan[c].refs + 1
      /\ g.chan[c].list = p.chan[c].list \cup {i}
  <2>1. c \in 1 .. Len(f.chan)
    BY <1>7
  <2>2. f.chan[c] \in ChanRec
    BY <1>7, <2>1, ShapeTypes
  <2>3. PICK L \in SUBSET Nat : L = f.chan[c].list \cup {i}
    <3>1. f.chan[c].list \in SUBSET Nat
      BY <2>2 DEF ChanRec
    <3> QED
      BY <1>1, <3>1
  <2>4. PICK b : b = [f.chan[c] EXCEPT !.list = L]
    OBVIOUS
  <2>5. b \in ChanRec /\ b.key = f.chan[c].key /\ b.refs = f.chan[c].refs /\ b.list = L
    BY <2>2, <2>4 DEF ChanRec
  <2>6. g = [f EXCEPT !.chan[c] = b]
    BY <1>8, <2>3, <2>4
  <2>7. /\ g \in Shape /\ Len(g.chan) = Len(f.chan) /\ g.chan[c] = b
        /\ \A x \in 1 .. Len(f.chan) : x # c => g.chan[x] = f.chan[x]
        /\ g.sub = f.sub /\ g.map = f.map /\ g.told = f.told
        /\ g.io = f.io /\ g.user = f.user
    BY <1>7, <2>1, <2>5, <2>6, WithChan
  <2> QED
    BY <1>7, <2>3, <2>5, <2>7
<1>10. d = g
  <2>1. d = [[[p EXCEPT !.sub[i].chan = c] EXCEPT !.chan[c].refs = @ + 1]
                EXCEPT !.chan[c].list = @ \cup {i}]
    BY ZenonT(30) DEF Join
  <2> QED
    BY <1>4, <1>6, <1>8, <2>1, Zenon
<1> QED
  BY <1>3, <1>5, <1>9, <1>10 DEF Joined

LEMMA JoinLinked ==
    ASSUME NEW p \in Shape, Linked(p, 0), NEW i \in 1 .. Len(p.sub), p.sub[i].refs > 0,
           p.sub[i].chan = 0, NEW c \in 1 .. Len(p.chan), p.chan[c].key = p.sub[i].key,
           NEW d \in Shape, Joined(p, d, i, c)
    PROVE  Linked(d, 0)
<1>1. /\ Len(d.sub) = Len(p.sub) /\ Len(d.chan) = Len(p.chan)
      /\ \A j \in 1 .. Len(p.sub) : j # i => d.sub[j] = p.sub[j]
      /\ d.sub[i].chan = c /\ SameSub(p.sub[i], d.sub[i])
      /\ d.sub[i].refs = p.sub[i].refs /\ d.sub[i].ended = p.sub[i].ended
      /\ \A x \in 1 .. Len(p.chan) : x # c => d.chan[x] = p.chan[x]
      /\ d.chan[c].key = p.chan[c].key /\ d.chan[c].refs = p.chan[c].refs + 1
      /\ d.chan[c].list = p.chan[c].list \cup {i}
      /\ d.map = p.map /\ d.io = p.io /\ d.user = p.user
  BY DEF Joined
<1>2. d.sub[i].key = p.sub[i].key /\ Len(p.chan) \in Nat /\ Len(p.sub) \in Nat
  BY <1>1, ShapeTypes DEF SameSub
<1>3. Users(d, c) = Users(p, c) \cup {i} /\ i \notin Users(p, c)
  BY <1>1 DEF Users
<1>4. ASSUME NEW x \in 1 .. Len(p.chan), x # c
      PROVE  Users(d, x) = Users(p, x)
  <2>1. i \notin Users(d, x) /\ i \notin Users(p, x)
    BY <1>1, <1>4 DEF Users
  <2>2. \A j \in 1 .. Len(p.sub) : j # i => (j \in Users(d, x) <=> j \in Users(p, x))
    BY <1>1 DEF Users
  <2>3. Users(d, x) \subseteq 1 .. Len(p.sub) /\ Users(p, x) \subseteq 1 .. Len(p.sub)
    BY <1>1 DEF Users
  <2>4. \A j \in 1 .. Len(p.sub) : j \in Users(d, x) <=> j \in Users(p, x)
    BY <2>1, <2>2
  <2> QED
    BY <2>3, <2>4
<1>5. /\ Cardinality(Users(d, c)) = Cardinality(Users(p, c)) + 1
      /\ Cardinality(Users(p, c)) \in Nat
  <2>1. IsFiniteSet(Users(p, c)) /\ Cardinality(Users(p, c)) \in Nat
    BY LinkedTypes
  <2> QED
    BY <1>3, <2>1, FS_AddElement, ZenonT(30)
<1>6. \A x \in 1 .. Len(p.chan) : d.chan[x].key = p.chan[x].key
  BY <1>1
<1>7. \A x \in 1 .. Len(p.chan) : FromMap(d, x) = FromMap(p, x) /\ FromMap(p, x) \in Nat
  BY <1>1, <1>6 DEF FromMap
<1>8. ASSUME NEW x \in 1 .. Len(p.chan)
      PROVE  ChanLinked(d, 0, x)
  <2>1. p.chan[x].refs = FromMap(p, x) + Cardinality(Users(p, x)) + 0
        /\ p.chan[x].list \subseteq Users(p, x) /\ x # 0
    BY DEF Linked, ChanLinked
  <2>2. CASE x = c
    <3>1. d.chan[x].refs = FromMap(d, x) + Cardinality(Users(d, x)) + 0
      BY <1>1, <1>5, <1>7, <2>1, <2>2
    <3>2. d.chan[x].list \subseteq Users(d, x)
      BY <1>1, <1>3, <2>1, <2>2
    <3> QED
      BY <2>1, <3>1, <3>2 DEF ChanLinked
  <2>3. CASE x # c
    BY <1>1, <1>4, <1>7, <2>1, <2>3 DEF ChanLinked
  <2> QED
    BY <2>2, <2>3
<1>9. ASSUME NEW j \in 1 .. Len(p.sub)
      PROVE  SubLinked(d, j)
  <2>1. CASE j = i
    <3>1. c \in 0 .. Len(p.chan)
      BY <1>2
    <3> QED
      BY <1>1, <1>2, <2>1, <3>1 DEF SubLinked
  <2>2. CASE j # i
    <3>1. SubLinked(p, j) /\ d.sub[j] = p.sub[j]
      BY <1>1, <2>2 DEF Linked
    <3>2. p.sub[j].chan # 0 => p.sub[j].chan \in 1 .. Len(p.chan)
      BY <1>2, <3>1 DEF SubLinked
    <3> QED
      BY <1>1, <1>6, <3>1, <3>2 DEF SubLinked
  <2> QED
    BY <2>1, <2>2
<1>10. ASSUME NEW k \in Keys
       PROVE  MapLinked(d, k)
  <2>1. MapLinked(p, k)
    BY DEF Linked
  <2>2. d.map[k] = p.map[k] /\ Len(d.chan) = Len(p.chan)
    BY <1>1
  <2> QED
    BY <1>6, <2>1, <2>2 DEF MapLinked
<1> QED
  BY <1>1, <1>8, <1>9, <1>10 DEF Linked

LEMMA JoinedGood ==
    ASSUME NEW p, NEW h, NEW r, NEW H, Good(p, h, r, H), h.fn = "subscribe",
           NEW i \in 1 .. Len(p.sub), h.sub = i, NEW l \in Nat, p.sub[i].refs > 0,
           p.sub[i].chan = 0, Queued(p, SubscribeFn, i) = 0, Both(r, SubscribeFn, i) = 0,
           NEW q \in Shape, Linked(q, 0), q.sub = p.sub, q.io = p.io, q.user = p.user,
           NEW c \in 1 .. Len(q.chan), q.chan[c].key = p.sub[i].key,
           NEW d \in Shape, Joined(q, d, i, c),
           NEW t \in TaskRec, t.fn = "free", t.sub = i
    PROVE  Good(d, t, r, H) /\ Keeps(p, d, l)
<1>1. /\ p \in Shape /\ Named(p, h, r) /\ Counted(p, h, r, H)
      /\ Len(p.sub) \in Nat
  BY ShapeTypes DEF Good
<1>6. ASSUME NEW F, NEW j
      PROVE  /\ Queued(p, F, j) \in Nat /\ Tally(h, F, j) \in Nat /\ Both(r, F, j) \in Nat
             /\ Tally(t, F, j) \in Nat
             /\ Total(p, h, r, F, j) = Queued(p, F, j) + Tally(h, F, j) + Both(r, F, j)
  BY <1>1, TotalType DEF Total
<1>10. /\ Len(d.sub) = Len(p.sub)
       /\ \A j \in 1 .. Len(p.sub) : j # i => d.sub[j] = p.sub[j]
       /\ d.sub[i].chan = c /\ SameSub(p.sub[i], d.sub[i])
       /\ d.sub[i].refs = p.sub[i].refs /\ d.sub[i].ended = p.sub[i].ended
       /\ d.io = p.io /\ d.user = p.user
  BY DEF Joined
<1>11. Linked(d, 0)
  BY JoinLinked
<1>12. Named(d, t, r)
  <2>1. i \in 0 .. Len(p.sub)
    BY <1>1
  <2> QED
    BY <1>1, <1>10, <2>1 DEF Named
<1>13. ASSUME NEW F, NEW j
       PROVE  /\ Total(d, t, r, F, j) = Queued(p, F, j) + Tally(t, F, j) + Both(r, F, j)
              /\ Total(p, h, r, F, j) = Queued(p, F, j) + Tally(h, F, j) + Both(r, F, j)
              /\ Tally(t, F, j) = Tally(h, F, j) => Total(d, t, r, F, j) = Total(p, h, r, F, j)
  BY <1>10 DEF Total, Queued
<1>14. t.fn \in Reactor /\ c # 0
  BY Kinds DEF Reactor
<1>15. ASSUME NEW j \in 1 .. Len(p.sub)
       PROVE  /\ d.sub[j].refs = Total(d, t, r, OwnerFn, j) + (IF j \in H THEN 1 ELSE 0)
              /\ Total(d, t, r, SubscribeFn, j) = IF d.sub[j].chan = 0 THEN 1 ELSE 0
              /\ Total(d, t, r, EndedFn, j) + d.sub[j].ended = IF d.sub[j].refs = 0 THEN 1 ELSE 0
  <2>1. /\ p.sub[j].refs = Total(p, h, r, OwnerFn, j) + (IF j \in H THEN 1 ELSE 0)
        /\ Total(p, h, r, SubscribeFn, j) = IF p.sub[j].chan = 0 THEN 1 ELSE 0
        /\ Total(p, h, r, EndedFn, j) + p.sub[j].ended = IF p.sub[j].refs = 0 THEN 1 ELSE 0
    BY <1>1 DEF Counted
  <2>2. /\ Tally(t, SubscribeFn, j) = 0 /\ Tally(t, EndedFn, j) = 0
        /\ Tally(t, OwnerFn, j) = IF j = i THEN 1 ELSE 0
    BY <1>14, HandTally
  <2>3. CASE j = i
    <3>1. /\ Total(d, t, r, OwnerFn, j) = Total(p, h, r, OwnerFn, j)
          /\ Total(d, t, r, EndedFn, j) = Total(p, h, r, EndedFn, j)
      <4>1. Tally(h, OwnerFn, j) = 1 /\ Tally(h, EndedFn, j) = 0
        BY <2>3, Kinds DEF Tally, Is, EndedFn
      <4> QED
        BY <1>13, <2>2, <2>3, <4>1
    <3>2. Total(d, t, r, SubscribeFn, j) = 0
      BY <1>13, <2>2, <2>3
    <3> QED
      BY <1>10, <1>14, <2>1, <2>3, <3>1, <3>2
  <2>4. CASE j # i
    <3>1. Tally(h, OwnerFn, j) = 0 /\ Tally(h, SubscribeFn, j) = 0 /\ Tally(h, EndedFn, j) = 0
      BY <2>4 DEF Tally, Is
    <3>2. /\ Total(d, t, r, OwnerFn, j) = Total(p, h, r, OwnerFn, j)
          /\ Total(d, t, r, SubscribeFn, j) = Total(p, h, r, SubscribeFn, j)
          /\ Total(d, t, r, EndedFn, j) = Total(p, h, r, EndedFn, j)
      BY <1>13, <2>2, <2>4, <3>1
    <3> QED
      BY <1>10, <2>1, <2>4, <3>2
  <2> QED
    BY <2>3, <2>4
<1>16. Counted(d, t, r, H)
  BY <1>10, <1>15 DEF Counted
<1>17. Keeps(p, d, l)
  <2>1. \A j \in 1 .. Len(p.sub) : SameSub(p.sub[j], d.sub[j])
    BY <1>10 DEF SameSub
  <2>2. Adds(p.io, d.io, l, With(d, "io")) /\ Adds(p.user, d.user, l, With(d, "user"))
    BY <1>1, <1>10, ShapeTypes, AddsSame
  <2> QED
    BY <1>10, <2>1, <2>2 DEF Keeps
<1> QED
  BY <1>10, <1>11, <1>12, <1>16, <1>17 DEF Good

LEMMA LinkGood ==
    ASSUME NEW p, NEW h, NEW r, NEW H, Good(p, h, r, H), h.fn = "subscribe",
           NEW i, h.sub = i, i # 0, NEW l \in Nat,
           NEW k, k = p.sub[i].key, NEW q, q = MapSet(p, k), NEW c, c = q.map[k],
           NEW d, d = Join(q, i, c), NEW t \in TaskRec, t.fn = "free", t.sub = i
    PROVE  Good(d, t, r, H) /\ Keeps(p, d, l)
<1>1. /\ p \in Shape /\ Named(p, h, r) /\ Counted(p, h, r, H) /\ Linked(p, 0)
      /\ Len(p.sub) \in Nat
  BY ShapeTypes DEF Good
<1>2. i \in 1 .. Len(p.sub)
  BY <1>1 DEF Named
<1>3. k \in Keys /\ p.sub[i].refs \in Nat
  BY <1>1, <1>2, ShapeTypes DEF SubRec
<1>4. /\ Tally(h, OwnerFn, i) = 1 /\ Tally(h, SubscribeFn, i) = 1 /\ Tally(h, EndedFn, i) = 0
  BY Kinds DEF Tally, Is, SubscribeFn, EndedFn
<1>5. /\ p.sub[i].refs = Total(p, h, r, OwnerFn, i) + (IF i \in H THEN 1 ELSE 0)
      /\ Total(p, h, r, SubscribeFn, i) = IF p.sub[i].chan = 0 THEN 1 ELSE 0
  BY <1>1, <1>2 DEF Counted
<1>6. ASSUME NEW F, NEW j
      PROVE  /\ Queued(p, F, j) \in Nat /\ Tally(h, F, j) \in Nat /\ Both(r, F, j) \in Nat
             /\ Total(p, h, r, F, j) = Queued(p, F, j) + Tally(h, F, j) + Both(r, F, j)
  BY <1>1, TotalType DEF Total
<1>7. p.sub[i].refs > 0
  BY <1>3, <1>4, <1>5, <1>6
<1>8. p.sub[i].chan = 0 /\ Queued(p, SubscribeFn, i) = 0 /\ Both(r, SubscribeFn, i) = 0
  <2>1. Total(p, h, r, SubscribeFn, i) > 0
    BY <1>4, <1>6
  <2>2. p.sub[i].chan = 0 /\ Total(p, h, r, SubscribeFn, i) = 1
    BY <1>5, <2>1
  <2> QED
    BY <1>4, <1>6, <2>2
<1>9. /\ q \in Shape /\ Linked(q, 0) /\ q.sub = p.sub /\ q.io = p.io /\ q.user = p.user
      /\ c \in 1 .. Len(q.chan) /\ q.chan[c].key = k
  <2>1. /\ q \in Shape /\ Linked(q, 0) /\ q.sub = p.sub /\ q.io = p.io /\ q.user = p.user
        /\ q.map[k] \in 1 .. Len(q.chan) /\ q.chan[q.map[k]].key = k
    BY <1>1, <1>3, MapSetLinked, ZenonT(30)
  <2> QED
    BY <2>1, ZenonT(30)
<1>18. d \in Shape /\ Joined(q, d, i, c)
  <2>1. i \in 1 .. Len(q.sub)
    BY <1>2, <1>9, ZenonT(30)
  <2> QED
    BY <1>9, <2>1, JoinShape, ZenonT(30)
<1>19. /\ Good(p, h, r, H) /\ h.fn = "subscribe" /\ h.sub = i /\ l \in Nat
       /\ t \in TaskRec /\ t.fn = "free" /\ t.sub = i /\ q.chan[c].key = p.sub[i].key
  BY <1>9, ZenonT(30)
<1> QED
  BY ONLY <1>2, <1>7, <1>8, <1>9, <1>18, <1>19, JoinedGood

(* fio___pubsub_unsubscribe_task, before the reference is given back.      *)
Quieted(p, d, i) ==
    /\ Len(d.sub) = Len(p.sub) /\ d.io = p.io /\ d.user = p.user
    /\ \A j \in 1 .. Len(p.sub) :
          /\ d.sub[j].refs = p.sub[j].refs /\ d.sub[j].chan = p.sub[j].chan
          /\ d.sub[j].key = p.sub[j].key /\ d.sub[j].ended = p.sub[j].ended
          /\ SameSub(p.sub[j], d.sub[j])

LEMMA QuietedGood ==
    ASSUME NEW p, NEW h, NEW r, NEW H, Good(p, h, r, H), NEW i \in 1 .. Len(p.sub),
           NEW l \in Nat, NEW d \in Shape, Quieted(p, d, i),
           NEW c \in 0 .. Len(p.chan), Unlisted(p, d, i, c)
    PROVE  Good(d, h, r, H) /\ Keeps(p, d, l)
<1>1. /\ p \in Shape /\ Named(p, h, r) /\ Counted(p, h, r, H) /\ Linked(p, 0)
      /\ p.sub[i] \in SubRec /\ Len(p.chan) \in Nat
  BY ShapeTypes DEF Good
<1>9. Len(d.sub) = Len(p.sub) /\ d.io = p.io /\ d.user = p.user
  BY DEF Quieted
<1>10. \A j \in 1 .. Len(p.sub) :
           /\ d.sub[j].refs = p.sub[j].refs /\ d.sub[j].chan = p.sub[j].chan
           /\ d.sub[j].key = p.sub[j].key /\ d.sub[j].ended = p.sub[j].ended
           /\ SameSub(p.sub[j], d.sub[j])
  BY DEF Quieted
<1>11. Named(d, h, r)
  BY <1>1, <1>9 DEF Named
<1>12. \A F, j : Total(d, h, r, F, j) = Total(p, h, r, F, j)
  BY <1>9 DEF Total, Queued
<1>13. Counted(d, h, r, H)
  BY <1>1, <1>9, <1>10, <1>12 DEF Counted
<1>14. Linked(d, 0)
  <2>1. \A x : Users(d, x) = Users(p, x)
    BY <1>9, <1>10 DEF Users
  <2>2. ASSUME NEW x \in 1 .. Len(p.chan)
        PROVE  ChanLinked(d, 0, x)
    <3>1. d.chan[x].key = p.chan[x].key /\ d.chan[x].refs = p.chan[x].refs /\ d.map = p.map
      BY <1>9 DEF Unlisted
    <3>2. d.chan[x].list \subseteq p.chan[x].list
      BY <1>9 DEF Unlisted
    <3>3. FromMap(d, x) = FromMap(p, x)
      BY <3>1 DEF FromMap
    <3>4. ChanLinked(p, 0, x)
      BY <1>1 DEF Linked
    <3> QED
      BY <2>1, <3>1, <3>2, <3>3, <3>4 DEF ChanLinked
  <2>3. ASSUME NEW j \in 1 .. Len(p.sub)
        PROVE  SubLinked(d, j)
    <3>1. SubLinked(p, j)
      BY <1>1 DEF Linked
    <3>2. p.sub[j].chan # 0 => p.sub[j].chan \in 1 .. Len(p.chan)
      BY <1>1, <3>1 DEF SubLinked
    <3> QED
      BY <1>10, <3>1, <3>2, ZenonT(30) DEF SubLinked, Unlisted
  <2>4. ASSUME NEW k \in Keys
        PROVE  MapLinked(d, k)
    <3>1. MapLinked(p, k)
      BY <1>1 DEF Linked
    <3>2. d.map = p.map /\ Len(d.chan) = Len(p.chan)
      BY DEF Unlisted
    <3>3. \A x \in 1 .. Len(p.chan) : d.chan[x].key = p.chan[x].key
      BY DEF Unlisted
    <3> QED
      BY <3>1, <3>2, <3>3 DEF MapLinked
  <2> QED
    BY <1>9, <2>2, <2>3, <2>4 DEF Linked, Unlisted
<1>15. Keeps(p, d, l)
  <2>1. Adds(p.io, d.io, l, With(d, "io")) /\ Adds(p.user, d.user, l, With(d, "user"))
    BY <1>1, <1>9, ShapeTypes, AddsSame
  <2> QED
    BY <1>9, <1>10, <2>1 DEF Keeps
<1> QED
  BY <1>11, <1>13, <1>14, <1>15 DEF Good

LEMMA UnlistGood ==
    ASSUME NEW p, NEW h, NEW r, NEW H, Good(p, h, r, H), NEW i \in 1 .. Len(p.sub),
           NEW l \in Nat, NEW d, d = [Unlink(p, i) EXCEPT !.sub[i].live = FALSE]
    PROVE  Good(d, h, r, H) /\ Keeps(p, d, l)
<1>1. /\ p \in Shape /\ Named(p, h, r) /\ Counted(p, h, r, H) /\ Linked(p, 0)
      /\ p.sub[i] \in SubRec /\ Len(p.chan) \in Nat
  BY ShapeTypes DEF Good
<1>2. PICK c \in 0 .. Len(p.chan) : c = p.sub[i].chan
  BY <1>1 DEF Linked, SubLinked
<1>3. PICK u : u = Unlink(p, i)
  OBVIOUS
<1>4. /\ u \in Shape /\ u.sub = p.sub /\ u.io = p.io /\ u.user = p.user
      /\ Unlisted(p, u, i, c)
  BY <1>1, <1>2, <1>3, UnlinkShape
<1>5. PICK a : a = [p.sub[i] EXCEPT !.live = FALSE]
  OBVIOUS
<1>6. /\ a \in SubRec /\ a.key = p.sub[i].key /\ a.chan = p.sub[i].chan
      /\ a.refs = p.sub[i].refs /\ a.ended = p.sub[i].ended /\ SameSub(p.sub[i], a)
  BY <1>1, <1>5 DEF SubRec, SameSub
<1>7. d = [u EXCEPT !.sub[i] = a]
  BY <1>3, <1>4, <1>5
<1>8. /\ d \in Shape /\ Len(d.sub) = Len(u.sub) /\ d.sub[i] = a
      /\ \A j \in 1 .. Len(u.sub) : j # i => d.sub[j] = u.sub[j]
      /\ d.chan = u.chan /\ d.map = u.map /\ d.told = u.told
      /\ d.io = u.io /\ d.user = u.user
  <2>1. PICK e : e = [u EXCEPT !.sub[i] = a]
    OBVIOUS
  <2>2. i \in 1 .. Len(u.sub)
    BY <1>4
  <2>3. /\ e \in Shape /\ Len(e.sub) = Len(u.sub) /\ e.sub[i] = a
        /\ \A j \in 1 .. Len(u.sub) : j # i => e.sub[j] = u.sub[j]
        /\ e.chan = u.chan /\ e.map = u.map /\ e.told = u.told
        /\ e.io = u.io /\ e.user = u.user
    BY <1>4, <1>6, <2>1, <2>2, WithSub
  <2> QED
    BY <1>7, <2>1, <2>3
<1>9. /\ Len(d.sub) = Len(p.sub) /\ \A j \in 1 .. Len(p.sub) : j # i => d.sub[j] = p.sub[j]
      /\ d.io = p.io /\ d.user = p.user /\ Unlisted(p, d, i, c)
  BY <1>4, <1>8 DEF Unlisted
<1>10. ASSUME NEW j \in 1 .. Len(p.sub)
       PROVE  /\ d.sub[j].refs = p.sub[j].refs /\ d.sub[j].chan = p.sub[j].chan
              /\ d.sub[j].key = p.sub[j].key /\ d.sub[j].ended = p.sub[j].ended
              /\ SameSub(p.sub[j], d.sub[j])
  BY <1>6, <1>8, <1>9 DEF SameSub
<1>11. Quieted(p, d, i)
  BY <1>9, <1>10 DEF Quieted
<1> QED
  BY <1>8, <1>9, <1>11, QuietedGood
-----------------------------------------------------------------------------
(* The order of the messages: `d` is the message that the reactor is       *)
(* distributing and `l` the number of messages published.                  *)
Due(p, d, i) == i \in d.list \/ \E k \in d.keys : i \in p.chan[p.map[k]].list

(* Message x is older than every message still to come to subscription i.  *)
Below(p, d, l, i, x) ==
    /\ x <= l
    /\ \A j \in 1 .. Len(p.io) : p.io[j].fn = "publish" => x < p.io[j].msg
    /\ d.msg # 0 => x <= d.msg
    /\ d.msg # 0 /\ Due(p, d, i) => x < d.msg

(* What waits in a queue is newer than what was heard.                     *)
Later(q, i, x) ==
    \A b \in 1 .. Len(q) : Fresh(q[b]) /\ q[b].sub = i => x < q[b].msg

Ahead(p, q, name, d, l) ==
    \A a \in 1 .. Len(q) : Fresh(q[a]) =>
        /\ p.sub[q[a].sub].queue = name
        /\ Below(p, d, l, q[a].sub, q[a].msg)
        /\ \A b \in 1 .. Len(q) :
               a < b /\ Fresh(q[b]) /\ q[b].sub = q[a].sub => q[a].msg < q[b].msg

HeardInOrder(p, d, l, i) ==
    /\ \A a \in 1 .. Len(p.sub[i].heard) :
           /\ Below(p, d, l, i, p.sub[i].heard[a])
           /\ Later(p.io, i, p.sub[i].heard[a]) /\ Later(p.user, i, p.sub[i].heard[a])
    /\ \A a, b \in 1 .. Len(p.sub[i].heard) : a < b => p.sub[i].heard[a] < p.sub[i].heard[b]

Publications(q, d, l) ==
    \A a \in 1 .. Len(q) : q[a].fn = "publish" =>
        /\ q[a].msg \in 1 .. l /\ d.msg < q[a].msg
        /\ \A b \in 1 .. Len(q) : a < b /\ q[b].fn = "publish" => q[a].msg < q[b].msg

Limited(q, l) == \A a \in 1 .. Len(q) : q[a].msg <= l

(* Messages, those included that are to be heard again, wait in the queue  *)
(* of their subscription.                                                  *)
Homes(p, q, name) ==
    \A a \in 1 .. Len(q) : q[a].fn = "deliver" => q[a].sub \in With(p, name)

Ordered(p, d, l) ==
    /\ \A i \in 1 .. Len(p.sub) : HeardInOrder(p, d, l, i)
    /\ Ahead(p, p.io, "io", d, l) /\ Ahead(p, p.user, "user", d, l)
    /\ Homes(p, p.io, "io") /\ Homes(p, p.user, "user")
    /\ Publications(p.io, d, l) /\ Limited(p.io, l) /\ Limited(p.user, l)
LEMMA MsgType ==
    ASSUME NEW q \in Seq(TaskRec), NEW a \in 1 .. Len(q)
    PROVE  q[a].msg \in Nat
<1>1. q[a] \in TaskRec
  BY ElementOfSeq
<1> QED
  BY <1>1 DEF TaskRec

LEMMA FreshNamed ==
    ASSUME NEW p, NEW h, NEW r, NEW H, Good(p, h, r, H)
    PROVE  /\ \A j \in 1 .. Len(p.io) : Fresh(p.io[j]) => p.io[j].sub \in 1 .. Len(p.sub)
           /\ \A j \in 1 .. Len(p.user) : Fresh(p.user[j]) => p.user[j].sub \in 1 .. Len(p.sub)
<1>1. Named(p, h, r) /\ p \in Shape /\ Len(p.sub) \in Nat
  BY ShapeTypes DEF Good
<1>2. ASSUME NEW j \in 1 .. Len(p.io), Fresh(p.io[j])
      PROVE  p.io[j].sub \in 1 .. Len(p.sub)
  <2>1. p.io[j].sub \in 0 .. Len(p.sub) /\ p.io[j].sub # 0
    BY <1>1, <1>2 DEF Named, Fresh
  <2> QED
    BY <1>1, <2>1
<1> QED
  BY <1>1, <1>2 DEF Named

(* What only adds tasks of other kinds keeps the order.                    *)
LEMMA OrderedFollows ==
    ASSUME NEW p \in Shape, NEW q \in Shape, NEW d, NEW l, Ordered(p, d, l), Follows(p, q, l),
           \A j \in 1 .. Len(p.io) : Fresh(p.io[j]) => p.io[j].sub \in 1 .. Len(p.sub),
           \A j \in 1 .. Len(p.user) : Fresh(p.user[j]) => p.user[j].sub \in 1 .. Len(p.sub),
           d.msg = 0 \/ (q.chan = p.chan /\ q.map = p.map)
    PROVE  Ordered(q, d, l)
<1>1. /\ Len(p.sub) \in Nat /\ Len(q.sub) \in Nat /\ Len(p.io) \in Nat /\ Len(q.io) \in Nat
      /\ Len(p.user) \in Nat /\ Len(q.user) \in Nat
  BY ShapeTypes
<1>2. ASSUME NEW s, NEW u, NEW S, Adds(s, u, l, S), Len(s) \in Nat, Len(u) \in Nat,
             NEW a \in 1 .. Len(u)
      PROVE  \/ a \in 1 .. Len(s) /\ u[a] = s[a]
             \/ /\ u[a].fn # "publish" /\ ~Fresh(u[a]) /\ u[a].msg <= l
                /\ u[a].fn = "deliver" => u[a].sub \in S
  BY <1>2 DEF Adds, Added
<1>3. ASSUME NEW a \in 1 .. Len(q.io)
      PROVE  \/ a \in 1 .. Len(p.io) /\ q.io[a] = p.io[a]
             \/ /\ q.io[a].fn # "publish" /\ ~Fresh(q.io[a]) /\ q.io[a].msg <= l
                /\ q.io[a].fn = "deliver" => q.io[a].sub \in With(q, "io")
  <2>1. Adds(p.io, q.io, l, With(q, "io"))
    BY DEF Follows
  <2> QED
    BY <1>1, <1>2, <2>1
<1>4. ASSUME NEW a \in 1 .. Len(q.user)
      PROVE  \/ a \in 1 .. Len(p.user) /\ q.user[a] = p.user[a]
             \/ /\ q.user[a].fn # "publish" /\ ~Fresh(q.user[a]) /\ q.user[a].msg <= l
                /\ q.user[a].fn = "deliver" => q.user[a].sub \in With(q, "user")
  <2>1. Adds(p.user, q.user, l, With(q, "user"))
    BY DEF Follows
  <2> QED
    BY <1>1, <1>2, <2>1
<1>5. ASSUME NEW i, NEW x, Below(p, d, l, i, x)
      PROVE  Below(q, d, l, i, x)
  <2>1. d.msg # 0 /\ Due(q, d, i) => Due(p, d, i)
    BY DEF Due
  <2> QED
    BY <1>3, <1>5, <2>1 DEF Below
<1>6. ASSUME NEW i \in 1 .. Len(p.sub)
      PROVE  i \in 1 .. Len(q.sub) /\ SameWho(p.sub[i], q.sub[i])
  BY <1>1 DEF Follows
<1>7. ASSUME NEW i, NEW x
      PROVE  /\ Later(p.io, i, x) => Later(q.io, i, x)
             /\ Later(p.user, i, x) => Later(q.user, i, x)
  BY <1>3, <1>4 DEF Later
<1>8. ASSUME NEW i \in 1 .. Len(q.sub)
      PROVE  HeardInOrder(q, d, l, i)
  <2>1. CASE i \in 1 .. Len(p.sub)
    <3>1. HeardInOrder(p, d, l, i) /\ q.sub[i].heard = p.sub[i].heard
      BY <1>6, <2>1 DEF Ordered, SameWho
    <3> QED
      BY <1>5, <1>7, <3>1 DEF HeardInOrder
  <2>2. CASE i \notin 1 .. Len(p.sub)
    <3>1. i \in Len(p.sub) + 1 .. Len(q.sub)
      BY <1>1, <2>2
    <3>2. q.sub[i].heard = <<>>
      BY <3>1 DEF Follows
    <3>3. 1 .. Len(q.sub[i].heard) = {}
      BY <3>2
    <3> QED
      BY <3>3 DEF HeardInOrder
  <2> QED
    BY <2>1, <2>2
<1>9. Ahead(q, q.io, "io", d, l)
  <2>1. ASSUME NEW a \in 1 .. Len(q.io), Fresh(q.io[a])
        PROVE  /\ q.sub[q.io[a].sub].queue = "io"
               /\ Below(q, d, l, q.io[a].sub, q.io[a].msg)
               /\ \A b \in 1 .. Len(q.io) : a < b /\ Fresh(q.io[b]) /\ q.io[b].sub = q.io[a].sub
                      => q.io[a].msg < q.io[b].msg
    <3>1. a \in 1 .. Len(p.io) /\ q.io[a] = p.io[a]
      BY <1>3, <2>1
    <3>2. /\ p.sub[p.io[a].sub].queue = "io"
          /\ Below(p, d, l, p.io[a].sub, p.io[a].msg)
          /\ \A b \in 1 .. Len(p.io) : a < b /\ Fresh(p.io[b]) /\ p.io[b].sub = p.io[a].sub
                 => p.io[a].msg < p.io[b].msg
      BY <2>1, <3>1 DEF Ordered, Ahead
    <3>3. p.io[a].sub \in 1 .. Len(p.sub)
      BY <2>1, <3>1
    <3>4. q.sub[p.io[a].sub].queue = p.sub[p.io[a].sub].queue
      BY <1>6, <3>3 DEF SameWho
    <3> QED
      BY <1>3, <1>5, <3>1, <3>2, <3>4
  <2> QED
    BY <2>1 DEF Ahead
<1>10. Ahead(q, q.user, "user", d, l)
  <2>1. ASSUME NEW a \in 1 .. Len(q.user), Fresh(q.user[a])
        PROVE  /\ q.sub[q.user[a].sub].queue = "user"
               /\ Below(q, d, l, q.user[a].sub, q.user[a].msg)
               /\ \A b \in 1 .. Len(q.user) : a < b /\ Fresh(q.user[b]) /\ q.user[b].sub = q.user[a].sub
                      => q.user[a].msg < q.user[b].msg
    <3>1. a \in 1 .. Len(p.user) /\ q.user[a] = p.user[a]
      BY <1>4, <2>1
    <3>2. /\ p.sub[p.user[a].sub].queue = "user"
          /\ Below(p, d, l, p.user[a].sub, p.user[a].msg)
          /\ \A b \in 1 .. Len(p.user) : a < b /\ Fresh(p.user[b]) /\ p.user[b].sub = p.user[a].sub
                 => p.user[a].msg < p.user[b].msg
      BY <2>1, <3>1 DEF Ordered, Ahead
    <3>3. p.user[a].sub \in 1 .. Len(p.sub)
      BY <2>1, <3>1
    <3>4. q.sub[p.user[a].sub].queue = p.sub[p.user[a].sub].queue
      BY <1>6, <3>3 DEF SameWho
    <3> QED
      BY <1>4, <1>5, <3>1, <3>2, <3>4
  <2> QED
    BY <2>1 DEF Ahead
<1>11. Publications(q.io, d, l)
  <2>1. ASSUME NEW a \in 1 .. Len(q.io), q.io[a].fn = "publish"
        PROVE  a \in 1 .. Len(p.io) /\ q.io[a] = p.io[a]
    BY <1>3, <2>1
  <2>2. Publications(p.io, d, l)
    BY DEF Ordered
  <2> QED
    BY <2>1, <2>2 DEF Publications
<1>12. Limited(q.io, l) /\ Limited(q.user, l)
  <2>1. Limited(p.io, l) /\ Limited(p.user, l)
    BY DEF Ordered
  <2> QED
    BY <1>3, <1>4, <2>1 DEF Limited
<1>13. \A n : With(p, n) \subseteq With(q, n)
  BY <1>6 DEF SameWho, With
<1>14. Homes(q, q.io, "io") /\ Homes(q, q.user, "user")
  <2>1. Homes(p, p.io, "io") /\ Homes(p, p.user, "user")
    BY DEF Ordered
  <2> QED
    BY <1>3, <1>4, <1>13, <2>1 DEF Homes
<1> QED
  BY <1>8, <1>9, <1>10, <1>11, <1>12, <1>14 DEF Ordered

(* The message being distributed has fewer subscribers to go to, or none.  *)
LEMMA OrderedLess ==
    ASSUME NEW p \in Shape, NEW d, NEW e, NEW l \in Nat, Ordered(p, d, l),
           \/ e.msg = 0
           \/ e.msg = d.msg /\ \A i : Due(p, e, i) => Due(p, d, i)
    PROVE  Ordered(p, e, l)
<1>1. \A i, x : Below(p, d, l, i, x) => Below(p, e, l, i, x)
  BY DEF Below
<1>2. ASSUME NEW i \in 1 .. Len(p.sub)
      PROVE  HeardInOrder(p, e, l, i)
  BY <1>1 DEF Ordered, HeardInOrder
<1>3. Ahead(p, p.io, "io", e, l) /\ Ahead(p, p.user, "user", e, l)
  BY <1>1 DEF Ordered, Ahead
<1>4. Publications(p.io, e, l)
  <2>1. \A a \in 1 .. Len(p.io) : p.io[a].fn = "publish" => e.msg < p.io[a].msg
    <3>1. Publications(p.io, d, l)
      BY DEF Ordered
    <3> QED
      BY <3>1 DEF Publications
  <2> QED
    BY <2>1 DEF Ordered, Publications
<1> QED
  BY <1>2, <1>3, <1>4 DEF Ordered
(* A task is taken off a queue.  If it is a message, what waits for the    *)
(* same subscription is newer.                                             *)
Newest(p, d, l, t) ==
    /\ t.sub \in 1 .. Len(p.sub) /\ Below(p, d, l, t.sub, t.msg)
    /\ Later(p.io, t.sub, t.msg) /\ Later(p.user, t.sub, t.msg)
    /\ \A b \in 1 .. Len(p.sub[t.sub].heard) : p.sub[t.sub].heard[b] < t.msg

(* The tail of a queue.                                                    *)
Behind(q, s) ==
    /\ Len(q) \in Nat \ {0} /\ Len(s) = Len(q) - 1
    /\ \A j \in 1 .. Len(s) : s[j] = q[j + 1] /\ j + 1 \in 1 .. Len(q)

LEMMA BehindKeeps ==
    ASSUME NEW q, NEW s, Behind(q, s)
    PROVE  /\ \A i, x : Later(q, i, x) => Later(s, i, x)
           /\ \A p, name, d, l : Ahead(p, q, name, d, l) => Ahead(p, s, name, d, l)
           /\ \A p, name : Homes(p, q, name) => Homes(p, s, name)
           /\ \A d, l : Publications(q, d, l) => Publications(s, d, l)
           /\ \A l : Limited(q, l) => Limited(s, l)
<1>1. /\ Len(q) \in Nat \ {0} /\ Len(s) = Len(q) - 1
      /\ \A j \in 1 .. Len(s) : s[j] = q[j + 1] /\ j + 1 \in 1 .. Len(q)
  BY DEF Behind
<1>2. \A a, b \in 1 .. Len(s) : a < b => a + 1 < b + 1
  BY <1>1
<1>3. \A i, x : Later(q, i, x) => Later(s, i, x)
  BY <1>1 DEF Later
<1>4. ASSUME NEW p, NEW name, NEW d, NEW l, Ahead(p, q, name, d, l)
      PROVE  Ahead(p, s, name, d, l)
  <2>1. ASSUME NEW a \in 1 .. Len(s), Fresh(s[a])
        PROVE  /\ p.sub[s[a].sub].queue = name /\ Below(p, d, l, s[a].sub, s[a].msg)
               /\ \A b \in 1 .. Len(s) :
                      a < b /\ Fresh(s[b]) /\ s[b].sub = s[a].sub => s[a].msg < s[b].msg
    <3>1. /\ p.sub[q[a + 1].sub].queue = name /\ Below(p, d, l, q[a + 1].sub, q[a + 1].msg)
          /\ \A b \in 1 .. Len(q) : a + 1 < b /\ Fresh(q[b]) /\ q[b].sub = q[a + 1].sub
                 => q[a + 1].msg < q[b].msg
      BY <1>1, <1>4, <2>1 DEF Ahead
    <3> QED
      BY <1>1, <1>2, <3>1
  <2> QED
    BY <2>1 DEF Ahead
<1>5. ASSUME NEW d, NEW l, Publications(q, d, l)
      PROVE  Publications(s, d, l)
  <2>1. ASSUME NEW a \in 1 .. Len(s), s[a].fn = "publish"
        PROVE  /\ s[a].msg \in 1 .. l /\ d.msg < s[a].msg
               /\ \A b \in 1 .. Len(s) : a < b /\ s[b].fn = "publish" => s[a].msg < s[b].msg
    <3>1. /\ q[a + 1].msg \in 1 .. l /\ d.msg < q[a + 1].msg
          /\ \A b \in 1 .. Len(q) : a + 1 < b /\ q[b].fn = "publish" => q[a + 1].msg < q[b].msg
      BY <1>1, <1>5, <2>1 DEF Publications
    <3> QED
      BY <1>1, <1>2, <3>1
  <2> QED
    BY <2>1 DEF Publications
<1>6. \A l : Limited(q, l) => Limited(s, l)
  BY <1>1 DEF Limited
<1>7. \A p, name : Homes(p, q, name) => Homes(p, s, name)
  BY <1>1 DEF Homes
<1> QED
  BY <1>3, <1>4, <1>5, <1>6, <1>7

LEMMA TailBehind ==
    ASSUME NEW q \in Seq(TaskRec), q # <<>>
    PROVE  Behind(q, Tail(q)) /\ Head(q) = q[1] /\ 1 \in 1 .. Len(q)
           /\ \A j \in 1 .. Len(Tail(q)) : 1 < j + 1
<1>1. PICK s \in Seq(TaskRec) : s = Tail(q)
  BY CountTail
<1>2. /\ Len(q) \in Nat \ {0} /\ Len(s) = Len(q) - 1 /\ Head(q) = q[1]
      /\ \A j \in 1 .. Len(s) : s[j] = q[j + 1]
  BY <1>1, CountTail
<1>3. \A j \in 1 .. Len(s) : j + 1 \in 1 .. Len(q) /\ 1 < j + 1
  BY <1>2
<1> QED
  BY <1>1, <1>2, <1>3 DEF Behind

LEMMA OrderedPopIo ==
    ASSUME NEW p \in Shape, NEW d, NEW l, Ordered(p, d, l), p.io # <<>>,
           \A j \in 1 .. Len(p.io) : Fresh(p.io[j]) => p.io[j].sub \in 1 .. Len(p.sub),
           NEW c \in Shape, c.sub = p.sub, c.chan = p.chan, c.map = p.map,
           c.io = Tail(p.io), c.user = p.user
    PROVE  /\ Ordered(c, d, l) /\ Head(p.io).msg <= l
           /\ Fresh(Head(p.io)) => Newest(c, d, l, Head(p.io))
           /\ Head(p.io).fn = "deliver" => Head(p.io).sub \in With(p, "io")
<1>1. PICK q \in Seq(TaskRec), s \in Seq(TaskRec), u \in Seq(TaskRec) :
          q = p.io /\ s = c.io /\ u = p.user
  BY ShapeTypes
<1>2. Behind(q, s) /\ Head(q) = q[1] /\ 1 \in 1 .. Len(q) /\ \A j \in 1 .. Len(s) : 1 < j + 1
  BY <1>1, TailBehind
<1>3. ASSUME NEW i, NEW x, Below(p, d, l, i, x)
      PROVE  Below(c, d, l, i, x)
  <2>1. \A j \in 1 .. Len(s) : s[j] = q[j + 1] /\ j + 1 \in 1 .. Len(q)
    BY <1>2 DEF Behind
  <2>2. Due(c, d, i) <=> Due(p, d, i)
    BY DEF Due
  <2> QED
    BY <1>1, <1>3, <2>1, <2>2 DEF Below
<1>4. ASSUME NEW i \in 1 .. Len(p.sub)
      PROVE  HeardInOrder(c, d, l, i)
  <2>1. HeardInOrder(p, d, l, i)
    BY DEF Ordered
  <2> QED
    BY <1>1, <1>2, <1>3, <2>1, BehindKeeps DEF HeardInOrder
<1>5. ASSUME NEW z, NEW name, Ahead(p, z, name, d, l)
      PROVE  Ahead(c, z, name, d, l)
  BY <1>3, <1>5 DEF Ahead
<1>6. Ahead(c, c.io, "io", d, l) /\ Ahead(c, c.user, "user", d, l)
  <2>1. Ahead(p, s, "io", d, l)
    BY <1>1, <1>2, BehindKeeps DEF Ordered
  <2> QED
    BY <1>1, <1>5, <2>1 DEF Ordered
<1>7. Publications(c.io, d, l) /\ Limited(c.io, l) /\ Limited(c.user, l)
  BY <1>1, <1>2, BehindKeeps DEF Ordered
<1>8. Head(p.io).msg <= l
  BY <1>1, <1>2 DEF Ordered, Limited
<1>9. ASSUME Fresh(q[1])
      PROVE  Newest(c, d, l, q[1])
  <2> DEFINE t == q[1]
  <2>1. /\ p.sub[t.sub].queue = "io" /\ Below(p, d, l, t.sub, t.msg)
        /\ \A b \in 1 .. Len(q) : 1 < b /\ Fresh(q[b]) /\ q[b].sub = t.sub => t.msg < q[b].msg
    BY <1>1, <1>2, <1>9 DEF Ordered, Ahead
  <2>2. t.sub \in 1 .. Len(p.sub)
    BY <1>1, <1>2, <1>9
  <2>3. Later(s, t.sub, t.msg)
    <3>1. \A j \in 1 .. Len(s) : s[j] = q[j + 1] /\ j + 1 \in 1 .. Len(q)
      BY <1>2 DEF Behind
    <3> QED
      BY <1>2, <2>1, <3>1 DEF Later
  <2>4. Later(u, t.sub, t.msg)
    <3>1. Ahead(p, u, "user", d, l)
      BY <1>1 DEF Ordered
    <3>2. \A b \in 1 .. Len(u) : Fresh(u[b]) => p.sub[u[b].sub].queue = "user"
      BY <3>1 DEF Ahead
    <3> QED
      BY <2>1, <3>2 DEF Later
  <2>5. \A b \in 1 .. Len(p.sub[t.sub].heard) : p.sub[t.sub].heard[b] < t.msg
    <3>1. \A b \in 1 .. Len(p.sub[t.sub].heard) : Later(q, t.sub, p.sub[t.sub].heard[b])
      BY <1>1, <2>2 DEF Ordered, HeardInOrder
    <3> QED
      BY <1>2, <1>9, <3>1 DEF Later
  <2> HIDE DEF t
  <2>6. Newest(c, d, l, t)
    BY <1>1, <1>3, <2>1, <2>2, <2>3, <2>4, <2>5 DEF Newest
  <2> QED
    BY <2>6 DEF t
<1>10. \A n : With(c, n) = With(p, n)
  BY DEF With
<1>11. Homes(p, q, "io") /\ Homes(p, u, "user")
  BY <1>1 DEF Ordered
<1>12. Homes(c, c.io, "io") /\ Homes(c, c.user, "user")
  <2>1. Homes(p, s, "io")
    BY <1>2, <1>11, BehindKeeps
  <2> QED
    BY <1>1, <1>10, <1>11, <2>1 DEF Homes
<1>13. q[1].fn = "deliver" => q[1].sub \in With(p, "io")
  BY <1>2, <1>11 DEF Homes
<1> QED
  BY <1>1, <1>2, <1>4, <1>6, <1>7, <1>8, <1>9, <1>12, <1>13 DEF Ordered

LEMMA OrderedPopUser ==
    ASSUME NEW p \in Shape, NEW d, NEW l, Ordered(p, d, l), p.user # <<>>,
           \A j \in 1 .. Len(p.user) : Fresh(p.user[j]) => p.user[j].sub \in 1 .. Len(p.sub),
           NEW c \in Shape, c.sub = p.sub, c.chan = p.chan, c.map = p.map,
           c.user = Tail(p.user), c.io = p.io
    PROVE  /\ Ordered(c, d, l) /\ Head(p.user).msg <= l
           /\ Fresh(Head(p.user)) => Newest(c, d, l, Head(p.user))
           /\ Head(p.user).fn = "deliver" => Head(p.user).sub \in With(p, "user")
<1>1. PICK q \in Seq(TaskRec), s \in Seq(TaskRec), u \in Seq(TaskRec) :
          q = p.user /\ s = c.user /\ u = p.io
  BY ShapeTypes
<1>2. Behind(q, s) /\ Head(q) = q[1] /\ 1 \in 1 .. Len(q) /\ \A j \in 1 .. Len(s) : 1 < j + 1
  BY <1>1, TailBehind
<1>3. ASSUME NEW i, NEW x, Below(p, d, l, i, x)
      PROVE  Below(c, d, l, i, x)
  <2>1. Due(c, d, i) <=> Due(p, d, i)
    BY DEF Due
  <2> QED
    BY <1>3, <2>1 DEF Below
<1>4. ASSUME NEW i \in 1 .. Len(p.sub)
      PROVE  HeardInOrder(c, d, l, i)
  <2>1. HeardInOrder(p, d, l, i)
    BY DEF Ordered
  <2> QED
    BY <1>1, <1>2, <1>3, <2>1, BehindKeeps DEF HeardInOrder
<1>5. ASSUME NEW z, NEW name, Ahead(p, z, name, d, l)
      PROVE  Ahead(c, z, name, d, l)
  BY <1>3, <1>5 DEF Ahead
<1>6. Ahead(c, c.io, "io", d, l) /\ Ahead(c, c.user, "user", d, l)
  <2>1. Ahead(p, s, "user", d, l)
    BY <1>1, <1>2, BehindKeeps DEF Ordered
  <2> QED
    BY <1>1, <1>5, <2>1 DEF Ordered
<1>7. Publications(c.io, d, l) /\ Limited(c.io, l) /\ Limited(c.user, l)
  BY <1>1, <1>2, BehindKeeps DEF Ordered
<1>8. Head(p.user).msg <= l
  BY <1>1, <1>2 DEF Ordered, Limited
<1>9. ASSUME Fresh(q[1])
      PROVE  Newest(c, d, l, q[1])
  <2> DEFINE t == q[1]
  <2>1. /\ p.sub[t.sub].queue = "user" /\ Below(p, d, l, t.sub, t.msg)
        /\ \A b \in 1 .. Len(q) : 1 < b /\ Fresh(q[b]) /\ q[b].sub = t.sub => t.msg < q[b].msg
    BY <1>1, <1>2, <1>9 DEF Ordered, Ahead
  <2>2. t.sub \in 1 .. Len(p.sub)
    BY <1>1, <1>2, <1>9
  <2>3. Later(s, t.sub, t.msg)
    <3>1. \A j \in 1 .. Len(s) : s[j] = q[j + 1] /\ j + 1 \in 1 .. Len(q)
      BY <1>2 DEF Behind
    <3> QED
      BY <1>2, <2>1, <3>1 DEF Later
  <2>4. Later(u, t.sub, t.msg)
    <3>1. Ahead(p, u, "io", d, l)
      BY <1>1 DEF Ordered
    <3>2. \A b \in 1 .. Len(u) : Fresh(u[b]) => p.sub[u[b].sub].queue = "io"
      BY <3>1 DEF Ahead
    <3> QED
      BY <2>1, <3>2 DEF Later
  <2>5. \A b \in 1 .. Len(p.sub[t.sub].heard) : p.sub[t.sub].heard[b] < t.msg
    <3>1. \A b \in 1 .. Len(p.sub[t.sub].heard) : Later(q, t.sub, p.sub[t.sub].heard[b])
      BY <1>1, <2>2 DEF Ordered, HeardInOrder
    <3> QED
      BY <1>2, <1>9, <3>1 DEF Later
  <2> HIDE DEF t
  <2>6. Newest(c, d, l, t)
    BY <1>1, <1>3, <2>1, <2>2, <2>3, <2>4, <2>5 DEF Newest
  <2> QED
    BY <2>6 DEF t
<1>10. \A n : With(c, n) = With(p, n)
  BY DEF With
<1>11. Homes(p, q, "user") /\ Homes(p, u, "io")
  BY <1>1 DEF Ordered
<1>12. Homes(c, c.io, "io") /\ Homes(c, c.user, "user")
  <2>1. Homes(p, s, "user")
    BY <1>2, <1>11, BehindKeeps
  <2> QED
    BY <1>1, <1>10, <1>11, <2>1 DEF Homes
<1>13. q[1].fn = "deliver" => q[1].sub \in With(p, "user")
  BY <1>2, <1>11 DEF Homes
<1> QED
  BY <1>1, <1>2, <1>4, <1>6, <1>7, <1>8, <1>9, <1>12, <1>13 DEF Ordered
(* The message is heard.                                                   *)
LEMMA OrderedHeard ==
    ASSUME NEW p \in Shape, NEW d, NEW l, Ordered(p, d, l), NEW t \in TaskRec,
           Newest(p, d, l, t), NEW q \in Shape, NEW i, i = t.sub,
           q.chan = p.chan, q.map = p.map, q.io = p.io, q.user = p.user,
           Len(q.sub) = Len(p.sub), \A j \in 1 .. Len(p.sub) : j # i => q.sub[j] = p.sub[j],
           NEW w, w = t.msg, OnlyHeard(p.sub[i], q.sub[i], w),
           \A j \in 1 .. Len(p.io) : Fresh(p.io[j]) => p.io[j].sub \in 1 .. Len(p.sub),
           \A j \in 1 .. Len(p.user) : Fresh(p.user[j]) => p.user[j].sub \in 1 .. Len(p.sub)
    PROVE  Ordered(q, d, l)
<1>1. \A j, x : Below(p, d, l, j, x) => Below(q, d, l, j, x)
  BY DEF Below, Due
<1>2. PICK s \in Seq(Nat), u \in Seq(Nat), m \in Nat :
          s = p.sub[i].heard /\ u = q.sub[i].heard /\ m = t.msg
  BY AppendProperties, ZenonT(30) DEF TaskRec, OnlyHeard
<1>3. /\ Len(s) \in Nat /\ Len(u) = Len(s) + 1 /\ u[Len(s) + 1] = m
      /\ \A a \in 1 .. Len(s) : u[a] = s[a] /\ s[a] \in Nat
  <2>1. Len(s) \in Nat /\ \A a \in 1 .. Len(s) : s[a] \in Nat
    BY LenProperties, ElementOfSeq
  <2>2. u = Append(s, m)
    BY <1>2, ZenonT(30) DEF OnlyHeard
  <2>3. /\ Len(u) = Len(s) + 1 /\ u[Len(s) + 1] = m
        /\ \A a \in 1 .. Len(s) : u[a] = s[a]
    BY <2>2, AppendProperties
  <2> QED
    BY <2>1, <2>3
<1>4. \A a \in 1 .. Len(u) : a \in 1 .. Len(s) \/ a = Len(s) + 1
  BY <1>3
<1>5. i \in 1 .. Len(p.sub)
  BY DEF Newest
<1>6. ASSUME NEW j \in 1 .. Len(p.sub)
      PROVE  HeardInOrder(q, d, l, j)
  <2>1. HeardInOrder(p, d, l, j)
    BY DEF Ordered
  <2>2. CASE j # i
    BY <1>1, <2>1, <2>2 DEF HeardInOrder
  <2>3. CASE j = i
    <3>1. ASSUME NEW a \in 1 .. Len(u)
          PROVE  Below(q, d, l, i, u[a]) /\ Later(q.io, i, u[a]) /\ Later(q.user, i, u[a])
      <4>1. CASE a \in 1 .. Len(s)
        BY <1>1, <1>2, <1>3, <2>1, <2>3, <4>1, ZenonT(30) DEF HeardInOrder
      <4>2. CASE a = Len(s) + 1
        BY <1>1, <1>2, <1>3, <4>2, ZenonT(30) DEF Newest
      <4> QED
        BY <1>4, <4>1, <4>2
    <3>2. ASSUME NEW a \in 1 .. Len(u), NEW b \in 1 .. Len(u), a < b
          PROVE  u[a] < u[b]
      <4>1. a \in 1 .. Len(s)
        <5>1. Len(s) \in Nat /\ Len(u) = Len(s) + 1
          BY <1>3
        <5> QED
          BY <3>2, <5>1
      <4>2. CASE b \in 1 .. Len(s)
        BY <1>2, <1>3, <2>1, <2>3, <3>2, <4>1, <4>2, ZenonT(30) DEF HeardInOrder
      <4>3. CASE b = Len(s) + 1
        BY <1>2, <1>3, <4>1, <4>3, ZenonT(30) DEF Newest
      <4> QED
        BY <1>4, <4>2, <4>3
    <3> QED
      BY <1>2, <2>3, <3>1, <3>2 DEF HeardInOrder
  <2> QED
    BY <2>2, <2>3
<1>7. Len(q.sub) = Len(p.sub) /\ \A j \in 1 .. Len(p.sub) : q.sub[j].queue = p.sub[j].queue
  BY DEF OnlyHeard
<1>8. Ahead(q, q.io, "io", d, l) /\ Ahead(q, q.user, "user", d, l)
  <2>1. ASSUME NEW z, NEW n, Ahead(p, z, n, d, l),
               \A j \in 1 .. Len(z) : Fresh(z[j]) => z[j].sub \in 1 .. Len(p.sub)
        PROVE  Ahead(q, z, n, d, l)
    BY <1>1, <1>7, <2>1 DEF Ahead
  <2> QED
    BY <2>1 DEF Ordered
<1>9. Publications(q.io, d, l) /\ Limited(q.io, l) /\ Limited(q.user, l)
  BY DEF Ordered
<1>10. \A n : With(q, n) = With(p, n)
  BY <1>7 DEF With
<1>11. Homes(q, q.io, "io") /\ Homes(q, q.user, "user")
  BY <1>10 DEF Ordered, Homes
<1> QED
  BY <1>6, <1>8, <1>9, <1>11 DEF Ordered

(* The oldest publication becomes the message being distributed.           *)
LEMMA OrderedDistribute ==
    ASSUME NEW p \in Shape, NEW d, d.msg = 0, NEW l \in Nat, Ordered(p, d, l), p.io # <<>>,
           Head(p.io).fn = "publish",
           NEW c \in Shape, c.sub = p.sub, c.chan = p.chan, c.map = p.map,
           c.io = Tail(p.io), c.user = p.user,
           NEW e, e.msg = Head(p.io).msg
    PROVE  Ordered(c, e, l) /\ e.msg \in 1 .. l
<1>1. PICK q \in Seq(TaskRec), s \in Seq(TaskRec) : q = p.io /\ s = c.io
  BY ShapeTypes
<1>2. Behind(q, s) /\ Head(q) = q[1] /\ 1 \in 1 .. Len(q) /\ \A j \in 1 .. Len(s) : 1 < j + 1
  BY <1>1, TailBehind
<1>3. \A j \in 1 .. Len(s) : s[j] = q[j + 1] /\ j + 1 \in 1 .. Len(q)
  BY <1>2 DEF Behind
<1>4. PICK m \in 1 .. l : m = e.msg /\ m = q[1].msg
  BY <1>1, <1>2 DEF Ordered, Publications
<1>5. ASSUME NEW i, NEW x, Below(p, d, l, i, x), x \in Nat
      PROVE  Below(c, e, l, i, x)
  <2>1. x < m
    BY <1>1, <1>2, <1>4, <1>5 DEF Below
  <2>2. x <= m
    BY <1>4, <1>5, <2>1
  <2>3. x <= l /\ \A j \in 1 .. Len(s) : s[j].fn = "publish" => x < s[j].msg
    BY <1>1, <1>3, <1>5 DEF Below
  <2> QED
    BY <1>1, <1>4, <2>1, <2>2, <2>3 DEF Below
<1>6. ASSUME NEW i \in 1 .. Len(p.sub)
      PROVE  HeardInOrder(c, e, l, i)
  <2>1. HeardInOrder(p, d, l, i)
    BY DEF Ordered
  <2>2. \A a \in 1 .. Len(p.sub[i].heard) : p.sub[i].heard[a] \in Nat
    <3>1. p.sub[i].heard \in Seq(Nat)
      BY ShapeTypes DEF SubRec
    <3> QED
      BY <3>1, ElementOfSeq
  <2> QED
    BY <1>1, <1>2, <1>5, <2>1, <2>2, BehindKeeps DEF HeardInOrder
<1>7. ASSUME NEW z \in Seq(TaskRec), NEW name, Ahead(p, z, name, d, l)
      PROVE  Ahead(c, z, name, e, l)
  <2>1. \A a \in 1 .. Len(z) : z[a].msg \in Nat
    BY MsgType
  <2> QED
    BY <1>5, <1>7, <2>1 DEF Ahead
<1>8. Ahead(c, c.io, "io", e, l)
  <2>1. Ahead(p, s, "io", d, l)
    BY <1>1, <1>2, BehindKeeps DEF Ordered
  <2> QED
    BY <1>1, <1>7, <2>1
<1>9. Ahead(c, c.user, "user", e, l)
  BY <1>7, ShapeTypes DEF Ordered
<1>10. Publications(c.io, e, l)
  <2>1. Publications(q, d, l) /\ Publications(s, d, l)
    BY <1>1, <1>2, BehindKeeps DEF Ordered
  <2>2. \A a \in 1 .. Len(s) : s[a].fn = "publish" => m < s[a].msg
    BY <1>1, <1>2, <1>3, <1>4, <2>1 DEF Publications
  <2> QED
    BY <1>1, <1>4, <2>1, <2>2 DEF Publications
<1>11. Limited(c.io, l) /\ Limited(c.user, l)
  BY <1>1, <1>2, BehindKeeps DEF Ordered
<1>12. \A n : With(c, n) = With(p, n)
  BY DEF With
<1>13. Homes(c, c.io, "io") /\ Homes(c, c.user, "user")
  <2>1. Homes(p, q, "io") /\ Homes(p, s, "io") /\ Homes(p, p.user, "user")
    BY <1>1, <1>2, BehindKeeps DEF Ordered
  <2> QED
    BY <1>1, <1>12, <2>1 DEF Homes
<1> QED
  BY <1>4, <1>6, <1>8, <1>9, <1>10, <1>11, <1>13 DEF Ordered

(* A message is published: its number is the next.                         *)
LEMMA OrderedPublish ==
    ASSUME NEW p \in Shape, NEW d, d.msg \in Nat, NEW l \in Nat, d.msg <= l, Ordered(p, d, l),
           NEW t \in TaskRec, t.fn = "publish", t.msg = l + 1,
           NEW q \in Shape, q.sub = p.sub, q.chan = p.chan, q.map = p.map,
           q.io = Append(p.io, t), q.user = p.user
    PROVE  Ordered(q, d, l + 1)
<1>1. PICK s \in Seq(TaskRec), u \in Seq(TaskRec) : s = p.io /\ u = q.io
  BY ShapeTypes
<1>2. /\ Len(s) \in Nat /\ Len(u) = Len(s) + 1 /\ u[Len(s) + 1] = t
      /\ \A a \in 1 .. Len(s) : u[a] = s[a]
  BY <1>1, CountAppend
<1>3. \A a \in 1 .. Len(u) : a \in 1 .. Len(s) \/ a = Len(s) + 1
  BY <1>2
<1>4. \A a \in 1 .. Len(s) : a < Len(s) + 1 /\ a \in 1 .. Len(u) /\ s[a].msg \in Nat
  BY <1>2, MsgType
<1>5. ~Fresh(t)
  BY DEF Fresh
<1>6. ASSUME NEW i, NEW x \in Nat, Below(p, d, l, i, x)
      PROVE  Below(q, d, l + 1, i, x)
  <2>1. x <= l /\ x < l + 1 /\ x <= l + 1
    BY <1>6 DEF Below
  <2>2. Due(q, d, i) <=> Due(p, d, i)
    BY DEF Due
  <2>3. \A j \in 1 .. Len(u) : u[j].fn = "publish" => x < u[j].msg
    BY <1>1, <1>2, <1>3, <1>6, <2>1 DEF Below
  <2> QED
    BY <1>1, <1>6, <2>1, <2>2, <2>3 DEF Below
<1>7. \A i, x : Later(s, i, x) => Later(u, i, x)
  BY <1>2, <1>3, <1>5 DEF Later
<1>8. ASSUME NEW i \in 1 .. Len(p.sub)
      PROVE  HeardInOrder(q, d, l + 1, i)
  <2>1. HeardInOrder(p, d, l, i)
    BY DEF Ordered
  <2>2. \A a \in 1 .. Len(p.sub[i].heard) : p.sub[i].heard[a] \in Nat
    <3>1. p.sub[i].heard \in Seq(Nat)
      BY ShapeTypes DEF SubRec
    <3> QED
      BY <3>1, ElementOfSeq
  <2> QED
    BY <1>1, <1>6, <1>7, <2>1, <2>2 DEF HeardInOrder
<1>9. Ahead(q, q.io, "io", d, l + 1)
  <2>1. ASSUME NEW a \in 1 .. Len(u), Fresh(u[a])
        PROVE  /\ q.sub[u[a].sub].queue = "io" /\ Below(q, d, l + 1, u[a].sub, u[a].msg)
               /\ \A b \in 1 .. Len(u) :
                      a < b /\ Fresh(u[b]) /\ u[b].sub = u[a].sub => u[a].msg < u[b].msg
    <3>1. a \in 1 .. Len(s) /\ u[a] = s[a]
      BY <1>2, <1>3, <1>5, <2>1
    <3>2. /\ p.sub[s[a].sub].queue = "io" /\ Below(p, d, l, s[a].sub, s[a].msg)
          /\ \A b \in 1 .. Len(s) :
                 a < b /\ Fresh(s[b]) /\ s[b].sub = s[a].sub => s[a].msg < s[b].msg
      BY <1>1, <2>1, <3>1 DEF Ordered, Ahead
    <3>3. Below(q, d, l + 1, s[a].sub, s[a].msg)
      BY <1>4, <1>6, <3>1, <3>2
    <3> QED
      BY <1>2, <1>3, <1>5, <3>1, <3>2, <3>3
  <2> QED
    BY <1>1, <2>1 DEF Ahead
<1>10. Ahead(q, q.user, "user", d, l + 1)
  <2>1. \A a \in 1 .. Len(p.user) : p.user[a].msg \in Nat
    BY ShapeTypes DEF TaskRec
  <2>2. Ahead(p, p.user, "user", d, l)
    BY DEF Ordered
  <2> QED
    BY <1>6, <2>1, <2>2 DEF Ahead
<1>11. Publications(q.io, d, l + 1)
  <2>1. ASSUME NEW a \in 1 .. Len(u), u[a].fn = "publish"
        PROVE  /\ u[a].msg \in 1 .. l + 1 /\ d.msg < u[a].msg
               /\ \A b \in 1 .. Len(u) : a < b /\ u[b].fn = "publish" => u[a].msg < u[b].msg
    <3>1. CASE a \in 1 .. Len(s)
      <4>1. /\ s[a].msg \in 1 .. l /\ d.msg < s[a].msg
            /\ \A b \in 1 .. Len(s) : a < b /\ s[b].fn = "publish" => s[a].msg < s[b].msg
        BY <1>1, <1>2, <2>1, <3>1 DEF Ordered, Publications
      <4>2. s[a].msg < l + 1 /\ s[a].msg \in 1 .. l + 1
        BY <4>1
      <4> QED
        BY <1>2, <1>3, <3>1, <4>1, <4>2
    <3>2. CASE a = Len(s) + 1
      <4>1. d.msg < l + 1 /\ l + 1 \in 1 .. l + 1
        OBVIOUS
      <4>2. \A b \in 1 .. Len(u) : ~(a < b)
        BY <1>2, <3>2
      <4> QED
        BY <1>2, <3>2, <4>1, <4>2
    <3> QED
      BY <1>3, <3>1, <3>2
  <2> QED
    BY <1>1, <2>1 DEF Publications
<1>12. Limited(q.io, l + 1) /\ Limited(q.user, l + 1)
  <2>1. \A a \in 1 .. Len(p.user) : p.user[a].msg \in Nat
    BY ShapeTypes DEF TaskRec
  <2>2. Limited(s, l) /\ Limited(p.user, l)
    BY <1>1 DEF Ordered
  <2>3. Limited(q.user, l + 1)
    BY <2>1, <2>2 DEF Limited
  <2>4. \A a \in 1 .. Len(s) : s[a].msg <= l + 1
    BY <1>4, <2>2 DEF Limited
  <2> QED
    BY <1>1, <1>2, <1>3, <2>3, <2>4 DEF Limited
<1>13. \A n : With(q, n) = With(p, n)
  BY DEF With
<1>14. Homes(q, q.io, "io") /\ Homes(q, q.user, "user")
  <2>1. Homes(p, s, "io") /\ Homes(p, p.user, "user")
    BY <1>1 DEF Ordered
  <2>2. Homes(q, u, "io")
    BY <1>2, <1>3, <1>13, <2>1 DEF Homes
  <2> QED
    BY <1>1, <1>13, <2>1, <2>2 DEF Homes
<1> QED
  BY <1>8, <1>9, <1>10, <1>11, <1>12, <1>14 DEF Ordered

(* The message goes to a subscriber; `d` is what is left to do after it.   *)
(* What delivering a message of e to subscription i leaves of the state.    *)
Handed(p, q, e, i, t, name) ==
    /\ t \in TaskRec /\ t.fn = "deliver" /\ t.sub = i /\ t.msg = e.msg
    /\ name \in {"io", "user"} /\ name = p.sub[i].queue
    /\ q \in Shape /\ q.chan = p.chan /\ q.map = p.map /\ Len(q.sub) = Len(p.sub)
    /\ \A j \in 1 .. Len(p.sub) : SameWho(p.sub[j], q.sub[j])
    /\ q.io = (IF name = "io" THEN Append(p.io, t) ELSE p.io)
    /\ q.user = (IF name = "io" THEN p.user ELSE Append(p.user, t))
    /\ \A j \in 1 .. Len(p.io) : Fresh(p.io[j]) => p.io[j].sub \in 1 .. Len(p.sub)
    /\ \A j \in 1 .. Len(p.user) : Fresh(p.user[j]) => p.user[j].sub \in 1 .. Len(p.sub)

LEMMA OrderedDeliver ==
    ASSUME NEW p \in Shape, NEW d, NEW l \in Nat, Ordered(p, d, l),
           NEW e, e.msg \in 1 .. l, Ordered(p, e, l), d.msg = 0 \/ d.msg = e.msg,
           NEW i \in 1 .. Len(p.sub), Due(p, e, i), d.msg # 0 => ~Due(p, d, i),
           NEW t, NEW name, NEW q, Handed(p, q, e, i, t, name)
    PROVE  Ordered(q, d, l)
<1>0. /\ t \in TaskRec /\ t.fn = "deliver" /\ t.sub = i /\ t.msg = e.msg
      /\ name \in {"io", "user"} /\ name = p.sub[i].queue
      /\ q \in Shape /\ q.chan = p.chan /\ q.map = p.map /\ Len(q.sub) = Len(p.sub)
      /\ \A j \in 1 .. Len(p.sub) : SameWho(p.sub[j], q.sub[j])
      /\ q.io = (IF name = "io" THEN Append(p.io, t) ELSE p.io)
      /\ q.user = (IF name = "io" THEN p.user ELSE Append(p.user, t))
      /\ \A j \in 1 .. Len(p.io) : Fresh(p.io[j]) => p.io[j].sub \in 1 .. Len(p.sub)
      /\ \A j \in 1 .. Len(p.user) : Fresh(p.user[j]) => p.user[j].sub \in 1 .. Len(p.sub)
  BY DEF Handed
<1> USE <1>0
<1>1. PICK m \in 1 .. l : m = e.msg
  OBVIOUS
<1>2. p.io \in Seq(TaskRec) /\ p.user \in Seq(TaskRec)
  BY ShapeTypes
<1>3. ASSUME NEW z \in Seq(TaskRec)
      PROVE  /\ Len(z) \in Nat /\ Len(Append(z, t)) = Len(z) + 1 /\ Append(z, t)[Len(z) + 1] = t
             /\ \A a \in 1 .. Len(z) : Append(z, t)[a] = z[a] /\ z[a].msg \in Nat
             /\ \A a \in 1 .. Len(Append(z, t)) : a \in 1 .. Len(z) \/ a = Len(z) + 1
  <2>1. /\ Len(z) \in Nat /\ Len(Append(z, t)) = Len(z) + 1 /\ Append(z, t)[Len(z) + 1] = t
        /\ \A a \in 1 .. Len(z) : Append(z, t)[a] = z[a]
    BY CountAppend
  <2>2. \A a \in 1 .. Len(z) : z[a].msg \in Nat
    BY MsgType
  <2> QED
    BY <2>1, <2>2
<1>4. ASSUME NEW j, NEW x, Below(p, d, l, j, x)
      PROVE  Below(q, d, l, j, x)
  <2>1. Due(q, d, j) <=> Due(p, d, j)
    BY DEF Due
  <2>2. \A a \in 1 .. Len(q.io) : q.io[a].fn = "publish" => x < q.io[a].msg
    <3>1. \A a \in 1 .. Len(p.io) : p.io[a].fn = "publish" => x < p.io[a].msg
      BY <1>4 DEF Below
    <3>2. CASE name = "io"
      BY <1>2, <1>3, <3>1, <3>2
    <3>3. CASE name # "io"
      BY <3>1, <3>3
    <3> QED
      BY <3>2, <3>3
  <2> QED
    BY <1>4, <2>1, <2>2 DEF Below
<1>5. Below(p, d, l, i, m)
  <2>1. m <= l /\ \A j \in 1 .. Len(p.io) : p.io[j].fn = "publish" => m < p.io[j].msg
    BY <1>1 DEF Ordered, Publications
  <2> QED
    BY <1>1, <2>1 DEF Below
<1>6. \A x : Below(p, e, l, i, x) => x < m
  BY <1>1 DEF Below
<1>7. ASSUME NEW j \in 1 .. Len(p.sub)
      PROVE  HeardInOrder(q, d, l, j)
  <2>1. HeardInOrder(p, d, l, j) /\ HeardInOrder(p, e, l, j) /\ q.sub[j].heard = p.sub[j].heard
    BY DEF Ordered, SameWho
  <2>2. ASSUME NEW a \in 1 .. Len(p.sub[j].heard), NEW z \in Seq(TaskRec),
               Later(z, j, p.sub[j].heard[a])
        PROVE  Later(Append(z, t), j, p.sub[j].heard[a])
    <3>1. j = i => p.sub[j].heard[a] < m
      BY <1>6, <2>1 DEF HeardInOrder
    <3> QED
      BY <1>1, <1>3, <2>2, <3>1 DEF Later
  <2>3. ASSUME NEW a \in 1 .. Len(p.sub[j].heard)
        PROVE  Later(q.io, j, p.sub[j].heard[a]) /\ Later(q.user, j, p.sub[j].heard[a])
    <3>1. Later(p.io, j, p.sub[j].heard[a]) /\ Later(p.user, j, p.sub[j].heard[a])
      BY <2>1 DEF HeardInOrder
    <3> QED
      BY <1>2, <2>2, <3>1
  <2> QED
    BY <1>4, <2>1, <2>3 DEF HeardInOrder
<1>8. ASSUME NEW z \in Seq(TaskRec), NEW n, Ahead(p, z, n, d, l),
             \A j \in 1 .. Len(z) : Fresh(z[j]) => z[j].sub \in 1 .. Len(p.sub)
      PROVE  Ahead(q, z, n, d, l)
  <2>1. \A j \in 1 .. Len(p.sub) : q.sub[j].queue = p.sub[j].queue
    BY DEF SameWho
  <2> QED
    BY <1>4, <1>8, <2>1 DEF Ahead
<1>9. ASSUME NEW z \in Seq(TaskRec), Ahead(p, z, name, d, l), Ahead(p, z, name, e, l),
             \A j \in 1 .. Len(z) : Fresh(z[j]) => z[j].sub \in 1 .. Len(p.sub)
      PROVE  Ahead(q, Append(z, t), name, d, l)
  <2>1. PICK y : y = Append(z, t)
    OBVIOUS
  <2>2. /\ Len(z) \in Nat /\ Len(y) = Len(z) + 1 /\ y[Len(z) + 1] = t
        /\ \A a \in 1 .. Len(z) : y[a] = z[a] /\ z[a].msg \in Nat
        /\ \A a \in 1 .. Len(y) : a \in 1 .. Len(z) \/ a = Len(z) + 1
    BY <1>3, <2>1
  <2>3. Ahead(q, z, name, d, l)
    BY <1>8, <1>9
  <2>4. ASSUME NEW a \in 1 .. Len(y), Fresh(y[a])
        PROVE  /\ q.sub[y[a].sub].queue = name /\ Below(q, d, l, y[a].sub, y[a].msg)
               /\ \A b \in 1 .. Len(y) :
                      a < b /\ Fresh(y[b]) /\ y[b].sub = y[a].sub => y[a].msg < y[b].msg
    <3>1. CASE a \in 1 .. Len(z)
      <4>1. /\ q.sub[z[a].sub].queue = name /\ Below(q, d, l, z[a].sub, z[a].msg)
            /\ \A b \in 1 .. Len(z) :
                   a < b /\ Fresh(z[b]) /\ z[b].sub = z[a].sub => z[a].msg < z[b].msg
        BY <2>2, <2>3, <2>4, <3>1 DEF Ahead
      <4>2. z[a].sub = i => z[a].msg < m
        BY <1>6, <1>9, <2>2, <2>4, <3>1 DEF Ahead
      <4> QED
        BY <1>1, <2>2, <3>1, <4>1, <4>2
    <3>2. CASE a = Len(z) + 1
      <4>1. Below(q, d, l, i, m) /\ q.sub[i].queue = name
        BY <1>4, <1>5 DEF SameWho
      <4>2. \A b \in 1 .. Len(y) : ~(a < b)
        BY <2>2, <3>2
      <4> QED
        BY <1>1, <2>2, <3>2, <4>1, <4>2
    <3> QED
      BY <2>2, <3>1, <3>2
  <2> QED
    BY <2>1, <2>4 DEF Ahead
<1>10. Ahead(q, q.io, "io", d, l) /\ Ahead(q, q.user, "user", d, l)
  <2>1. /\ Ahead(p, p.io, "io", d, l) /\ Ahead(p, p.user, "user", d, l)
        /\ Ahead(p, p.io, "io", e, l) /\ Ahead(p, p.user, "user", e, l)
    BY DEF Ordered
  <2>2. CASE name = "io"
    BY <1>2, <1>8, <1>9, <2>1, <2>2
  <2>3. CASE name = "user"
    BY <1>2, <1>8, <1>9, <2>1, <2>3
  <2> QED
    BY <2>2, <2>3
<1>11. Publications(q.io, d, l)
  <2>1. Publications(p.io, d, l)
    BY DEF Ordered
  <2>2. CASE name = "io"
    <3>1. PICK y : y = Append(p.io, t)
      OBVIOUS
    <3>2. /\ Len(p.io) \in Nat /\ Len(y) = Len(p.io) + 1 /\ y[Len(p.io) + 1] = t
          /\ \A a \in 1 .. Len(p.io) : y[a] = p.io[a]
          /\ \A a \in 1 .. Len(y) : a \in 1 .. Len(p.io) \/ a = Len(p.io) + 1
      BY <1>2, <1>3, <3>1
    <3>3. Publications(y, d, l)
      BY <2>1, <3>2 DEF Publications
    <3> QED
      BY <2>2, <3>1, <3>3
  <2>3. CASE name # "io"
    BY <2>1, <2>3
  <2> QED
    BY <2>2, <2>3
<1>12. Limited(q.io, l) /\ Limited(q.user, l)
  <2>1. Limited(p.io, l) /\ Limited(p.user, l)
    BY DEF Ordered
  <2>2. ASSUME NEW z \in Seq(TaskRec), Limited(z, l)
        PROVE  Limited(Append(z, t), l)
    BY <1>1, <1>3, <2>2 DEF Limited
  <2> QED
    BY <1>2, <2>1, <2>2
<1>13. i \in With(q, name) /\ \A n : With(q, n) = With(p, n)
  BY DEF With, SameWho
<1>14. ASSUME NEW z \in Seq(TaskRec), NEW n, Homes(p, z, n)
       PROVE  Homes(q, z, n) /\ (n = name => Homes(q, Append(z, t), n))
  <2>1. Homes(q, z, n)
    BY <1>13, <1>14 DEF Homes
  <2>2. PICK y : y = Append(z, t)
    OBVIOUS
  <2>3. /\ y[Len(z) + 1] = t /\ \A a \in 1 .. Len(z) : y[a] = z[a]
        /\ \A a \in 1 .. Len(y) : a \in 1 .. Len(z) \/ a = Len(z) + 1
    BY <1>3, <2>2
  <2>4. n = name => Homes(q, y, n)
    BY <1>13, <2>1, <2>3 DEF Homes
  <2> QED
    BY <2>1, <2>2, <2>4
<1>15. Homes(q, q.io, "io") /\ Homes(q, q.user, "user")
  <2>1. Homes(p, p.io, "io") /\ Homes(p, p.user, "user")
    BY DEF Ordered
  <2>2. CASE name = "io"
    BY <1>2, <1>14, <2>1, <2>2
  <2>3. CASE name = "user"
    BY <1>2, <1>14, <2>1, <2>3
  <2> QED
    BY <2>2, <2>3
<1> QED
  BY <1>7, <1>10, <1>11, <1>12, <1>15 DEF Ordered
-----------------------------------------------------------------------------
(* The invariant *)

HeldSet == {i \in Subs : Held(i)}

Owned ==
    /\ env \in [Owners -> [Keys -> Nat]] /\ handles \subseteq Subs
    /\ \A w \in Owners, k \in Keys : env[w][k] # 0 =>
          /\ env[w][k] \in Subs /\ env[w][k] \notin handles
          /\ o.sub[env[w][k]].owner = w /\ o.sub[env[w][k]].key = k
    /\ \A i \in Subs :
          (o.sub[i].cancelled <=> ~Held(i)) /\ (o.sub[i].cancelled => ~o.sub[i].live)

Distributing ==
    /\ publishing \in [msg : 0 .. Len(sent), keys : SUBSET Keys, list : SUBSET Nat]
    /\ publishing.msg = 0 => publishing = Done
    /\ \A k \in publishing.keys : o.map[k] # 0
    /\ \A i \in publishing.list :
          i \in Subs /\ o.sub[i].refs > 0 /\ o.sub[i].key \notin publishing.keys

(* What a thread performs came from the queue `name`.                      *)
InHand(t, name) ==
    /\ t # Idle => t.fn \in {"call", "called", "stub"} /\ t.sub \in With(o, name)
    /\ t.msg <= Len(sent)

Others ==
    /\ open \subseteq Ios
    /\ sent \in Seq([name : Names, from : Owners])
    /\ InHand(delivering, "io") /\ InHand(running, "user")

(* What both threads perform.                                              *)
Hands == [io |-> delivering, user |-> running]

(* A thread has read on_message and is about to call it.                   *)
Calling(i) ==
    \/ delivering.fn = "call" /\ delivering.sub = i
    \/ running.fn = "call" /\ running.sub = i

(* While a subscription is not cancelled no call is late, and the one that *)
(* may be is in hand.                                                      *)
Lateness ==
    \A i \in Subs : /\ o.sub[i].late <= 1
                    /\ o.sub[i].live \/ Calling(i) => o.sub[i].late = 0

IInv ==
    /\ Good(o, Idle, Hands, HeldSet) /\ Ordered(o, publishing, Len(sent))
    /\ Owned /\ Distributing /\ Others

(* What a step may do for Lateness: on_message is read only of what is     *)
(* live, and a late call is one that a thread was about to begin.          *)
Calm ==
    /\ \A i \in Subs' \ Subs : o'.sub[i].late = 0
    /\ \A i \in Subs : /\ o'.sub[i].live => o.sub[i].live
                       /\ Calling(i)' => Calling(i) \/ o.sub[i].live
                       /\ \/ o'.sub[i].late = o.sub[i].late
                          \/ /\ Calling(i) /\ ~Calling(i)' /\ ~o.sub[i].live
                             /\ o'.sub[i].late = o.sub[i].late + 1

LEMMA StateTypes ==
    ASSUME IInv
    PROVE  /\ o \in Shape /\ Len(o.sub) \in Nat /\ Len(sent) \in Nat
           /\ delivering \in TaskRec /\ delivering.sub \in 0 .. Len(o.sub)
           /\ running \in TaskRec /\ running.sub \in 0 .. Len(o.sub)
           /\ \A i \in Subs : o.sub[i] \in SubRec
           /\ Done.msg = 0 /\ Done.keys = {} /\ Done.list = {}
<1>1. o \in Shape /\ Named(o, Idle, Hands)
  BY DEF IInv, Good
<1>2. /\ delivering \in TaskRec /\ delivering.sub \in 0 .. Len(o.sub)
      /\ running \in TaskRec /\ running.sub \in 0 .. Len(o.sub)
  BY <1>1 DEF Named, Hands
<1>3. Len(o.sub) \in Nat /\ \A i \in Subs : o.sub[i] \in SubRec
  BY <1>1, ShapeTypes DEF Subs
<1>4. Len(sent) \in Nat
  BY LenProperties DEF IInv, Others
<1> QED
  BY <1>1, <1>2, <1>3, <1>4 DEF Done

LEMMA HandsSame ==
    ASSUME UNCHANGED <<delivering, running>>
    PROVE  Hands' = Hands
BY DEF Hands

LEMMA CalmSame ==
    ASSUME UNCHANGED <<delivering, running>>, \A i \in Subs' \ Subs : o'.sub[i].late = 0,
           \A i \in Subs : /\ o'.sub[i].live => o.sub[i].live
                           /\ o'.sub[i].late = o.sub[i].late
    PROVE  Calm
<1>1. \A i : Calling(i)' <=> Calling(i)
  BY DEF Calling
<1> QED
  BY <1>1 DEF Calm

LEMMA OthersSame ==
    ASSUME IInv, UNCHANGED <<delivering, running>>, open' \subseteq Ios,
           sent' \in Seq([name : Names, from : Owners]), Len(sent) <= Len(sent'),
           Len(o'.sub) \in Nat, Len(o.sub) <= Len(o'.sub),
           \A i \in Subs : o'.sub[i].queue = o.sub[i].queue
    PROVE  Others'
<1>1. \A n : With(o, n) \subseteq With(o', n)
  BY StateTypes DEF With, Subs
<1>2. /\ delivering.msg \in Nat /\ running.msg \in Nat /\ Len(sent) \in Nat
      /\ Len(sent') \in Nat
  BY StateTypes, LenProperties DEF TaskRec
<1>3. InHand(delivering, "io") /\ InHand(running, "user")
  BY DEF IInv, Others
<1>4. InHand(delivering, "io")' /\ InHand(running, "user")'
  BY <1>1, <1>2, <1>3 DEF InHand
<1> QED
  BY <1>4 DEF Others

SameHolder(a, b) ==
    /\ b.owner = a.owner /\ b.key = a.key /\ b.cancelled = a.cancelled
    /\ b.queue = a.queue /\ (b.live => a.live)

(* The holders are the same, and so are the subscriptions.                 *)
LEMMA OwnedSame ==
    ASSUME IInv, UNCHANGED <<env, handles>>, Len(o'.sub) = Len(o.sub),
           \A i \in Subs : SameHolder(o.sub[i], o'.sub[i])
    PROVE  Owned' /\ HeldSet' = HeldSet
<1>1. Subs' = Subs
  BY DEF Subs
<1>2. \A i : Held(i)' <=> Held(i)
  BY DEF Held
<1>3. HeldSet' = HeldSet
  BY <1>1, <1>2 DEF HeldSet
<1>4. Owned
  BY DEF IInv
<1>5. \A w \in Owners, k \in Keys : env'[w][k] # 0 =>
          /\ env'[w][k] \in Subs' /\ env'[w][k] \notin handles'
          /\ o'.sub[env'[w][k]].owner = w /\ o'.sub[env'[w][k]].key = k
  BY <1>1, <1>4 DEF Owned, SameHolder
<1>6. \A i \in Subs' :
          (o'.sub[i].cancelled <=> ~Held(i)') /\ (o'.sub[i].cancelled => ~o'.sub[i].live)
  BY <1>1, <1>2, <1>4 DEF Owned, SameHolder
<1>7. env' \in [Owners -> [Keys -> Nat]] /\ handles' \subseteq Subs'
  BY <1>1, <1>4 DEF Owned
<1> QED
  BY <1>3, <1>5, <1>6, <1>7 DEF Owned

(* A task of the reactor ends; `c` is a state on the way, after which only *)
(* tasks of other kinds than messages were pushed.                         *)
LEMMA Settle ==
    ASSUME IInv, publishing = Done, NEW c, NEW h, Good(c, h, Hands, HeldSet),
           Ordered(c, Done, Len(sent)), Len(c.sub) = Len(o.sub),
           \A i \in Subs : SameHolder(o.sub[i], c.sub[i]),
           \A i \in Subs : c.sub[i].late = o.sub[i].late,
           Good(o', Idle, Hands, HeldSet), Keeps(c, o', Len(sent)),
           UNCHANGED <<env, handles, open, delivering, running, publishing, sent>>
    PROVE  IInv' /\ Calm
<1>1. c \in Shape /\ o' \in Shape
  BY DEF Good
<1>2. Len(o'.sub) = Len(o.sub) /\ \A i \in Subs : SameSub(c.sub[i], o'.sub[i])
  BY DEF Keeps, Subs
<1>3. \A i \in Subs : SameHolder(o.sub[i], o'.sub[i])
  BY <1>2 DEF SameSub, SameHolder
<1>4. Owned' /\ HeldSet' = HeldSet
  BY <1>2, <1>3, OwnedSame
<1>5. Ordered(o', Done, Len(sent))
  <2>1. Follows(c, o', Len(sent))
    BY <1>1, KeepsFollows
  <2>2. /\ \A j \in 1 .. Len(c.io) : Fresh(c.io[j]) => c.io[j].sub \in 1 .. Len(c.sub)
        /\ \A j \in 1 .. Len(c.user) : Fresh(c.user[j]) => c.user[j].sub \in 1 .. Len(c.sub)
    BY FreshNamed
  <2>3. PICK d : d = Done
    OBVIOUS
  <2>4. d.msg = 0
    BY <2>3, StateTypes
  <2>5. Ordered(o', d, Len(sent))
    BY <1>1, <2>1, <2>2, <2>3, <2>4, OrderedFollows
  <2> QED
    BY <2>3, <2>5
<1>6. Distributing'
  <2>1. Done.msg = 0 /\ Done.keys = {} /\ Done.list = {}
    BY StateTypes
  <2>2. Distributing
    BY DEF IInv
  <2> QED
    BY <2>1, <2>2 DEF Distributing
<1>7. Others'
  <2>1. Len(sent) \in Nat /\ Len(o.sub) \in Nat
    BY StateTypes
  <2> QED
    BY <1>2, <1>3, <2>1, OthersSame DEF SameHolder, IInv, Others
<1>8. Calm
  <2>1. Subs' = Subs
    BY <1>2 DEF Subs
  <2> QED
    BY <1>2, <1>3, <2>1, CalmSame DEF SameSub, SameHolder
<1> QED
  BY <1>4, <1>5, <1>6, <1>7, <1>8, HandsSame DEF IInv

(* The task that runs was taken off the queue.                             *)
LEMMA Popped ==
    ASSUME IInv, NEW fn, Run(fn)
    PROVE  /\ publishing = Done /\ This \in TaskRec /\ This.fn = fn /\ This.msg <= Len(sent)
           /\ Rest \in Shape /\ Rest.sub = o.sub /\ Rest.chan = o.chan /\ Rest.map = o.map
           /\ Rest.io = Tail(o.io) /\ Rest.user = o.user
           /\ Good(Rest, This, Hands, HeldSet) /\ Ordered(Rest, Done, Len(sent))
           /\ Fresh(This) => Newest(Rest, Done, Len(sent), This)
           /\ fn # "publish" => This.sub \in Subs
           /\ delivering = Idle /\ (fn = "deliver" => This.sub \in With(o, "io"))
<1>1. /\ publishing = Done /\ delivering = Idle /\ o.io # <<>> /\ This = Head(o.io) /\ This.fn = fn
  BY DEF Run, AtRest, This
<1>2. /\ o \in Shape /\ Good(o, Idle, Hands, HeldSet) /\ Ordered(o, Done, Len(sent))
      /\ o.io \in Seq(TaskRec) /\ Len(o.sub) \in Nat
  BY <1>1, ShapeTypes DEF IInv, Good
<1>3. PICK c : c = Rest
  OBVIOUS
<1>4. /\ c \in Shape /\ c.sub = o.sub /\ c.chan = o.chan /\ c.map = o.map /\ c.told = o.told
      /\ c.io = Tail(o.io) /\ c.user = o.user
  <2>1. c = [o EXCEPT !.io = Tail(@)]
    BY <1>3 DEF Rest
  <2> QED
    BY <1>1, <1>2, <2>1, PopIoShape
<1>5. Good(c, This, Hands, HeldSet)
  BY <1>1, <1>2, <1>4, PopIoGood
<1>6. \A j \in 1 .. Len(o.io) : Fresh(o.io[j]) => o.io[j].sub \in 1 .. Len(o.sub)
  BY <1>2, FreshNamed
<1>7. /\ Ordered(c, Done, Len(sent)) /\ This.msg <= Len(sent)
      /\ Fresh(This) => Newest(c, Done, Len(sent), This)
      /\ This.fn = "deliver" => This.sub \in With(o, "io")
  BY <1>1, <1>2, <1>4, <1>6, OrderedPopIo
<1>8. This \in TaskRec /\ 1 \in 1 .. Len(o.io) /\ This = o.io[1]
  BY <1>1, <1>2, CountTail, TailBehind
<1>9. fn # "publish" => This.sub \in Subs
  <2>1. This.sub \in 0 .. Len(o.sub) /\ (fn # "publish" => This.sub # 0)
    BY <1>1, <1>2, <1>8 DEF Good, Named
  <2> QED
    BY <1>2, <2>1 DEF Subs
<1> QED
  BY <1>1, <1>3, <1>4, <1>5, <1>7, <1>8, <1>9

LEMMA RunFreeStep ==
    ASSUME IInv, RunFree
    PROVE  IInv' /\ Calm
<1>1. Run("free") /\ OnlyTask
  BY DEF RunFree
<1>2. PICK c, t : c = Rest /\ t = This
  OBVIOUS
<1>3. /\ publishing = Done /\ t.fn = "free" /\ c.sub = o.sub
      /\ Good(c, t, Hands, HeldSet) /\ Ordered(c, Done, Len(sent)) /\ t.sub \in Subs
  BY <1>1, <1>2, Popped
<1>4. o' = FreeSub(c, t.sub)
  BY <1>2 DEF RunFree
<1>5. t.fn \in Reactor /\ t.sub # 0 /\ Len(sent) \in Nat
  BY <1>3, StateTypes, Kinds DEF Reactor, Subs
<1>6. Good(o', Idle, Hands, HeldSet) /\ Keeps(c, o', Len(sent))
  BY <1>3, <1>4, <1>5, FreeSubGood
<1>7. \A i \in Subs : SameHolder(o.sub[i], c.sub[i])
  BY <1>3 DEF SameHolder
<1> QED
  BY <1>1, <1>3, <1>6, <1>7, Settle DEF OnlyTask

LEMMA RunUnsubscribeStep ==
    ASSUME IInv, RunUnsubscribe
    PROVE  IInv' /\ Calm
<1>1. Run("unsubscribe") /\ OnlyTask
  BY DEF RunUnsubscribe
<1>2. PICK c, t : c = Rest /\ t = This
  OBVIOUS
<1>3. /\ publishing = Done /\ t.fn = "unsubscribe" /\ c \in Shape /\ c.sub = o.sub
      /\ Good(c, t, Hands, HeldSet) /\ Ordered(c, Done, Len(sent)) /\ t.sub \in Subs
  BY <1>1, <1>2, Popped
<1>4. PICK i \in Subs : i = t.sub
  BY <1>3
<1>5. PICK b : b = [Unlink(c, i) EXCEPT !.sub[i].live = FALSE]
  OBVIOUS
<1>6. o' = FreeSub(b, i)
  BY <1>2, <1>4, <1>5 DEF RunUnsubscribe
<1>7. t.fn \in Reactor /\ i # 0 /\ Len(sent) \in Nat /\ i \in 1 .. Len(c.sub)
  BY <1>3, StateTypes, Kinds DEF Reactor, Subs
<1>8. Good(b, t, Hands, HeldSet) /\ Keeps(c, b, Len(sent))
  BY <1>3, <1>5, <1>7, UnlistGood
<1>9. Good(o', Idle, Hands, HeldSet) /\ Keeps(b, o', Len(sent))
  BY <1>4, <1>6, <1>7, <1>8, FreeSubGood
<1>10. Keeps(c, o', Len(sent))
  BY <1>3, <1>8, <1>9, KeepsTwice DEF Good
<1>11. \A j \in Subs : SameHolder(o.sub[j], c.sub[j])
  BY <1>3 DEF SameHolder
<1> QED
  BY <1>1, <1>3, <1>9, <1>10, <1>11, Settle DEF OnlyTask

LEMMA RunEndedStep ==
    ASSUME IInv, RunEnded
    PROVE  IInv' /\ Calm
<1>1. Run("ended") /\ OnlyTask
  BY DEF RunEnded
<1>2. PICK c, t : c = Rest /\ t = This
  OBVIOUS
<1>3. /\ publishing = Done /\ t.fn = "ended" /\ c \in Shape /\ c.sub = o.sub
      /\ Good(c, t, Hands, HeldSet) /\ Ordered(c, Done, Len(sent)) /\ t.sub \in Subs
  BY <1>1, <1>2, Popped
<1>4. PICK i \in Subs : i = t.sub
  BY <1>3
<1>5. i \in 1 .. Len(c.sub) /\ Len(sent) \in Nat
  BY <1>3, StateTypes DEF Subs
<1>6. o' = [c EXCEPT !.sub[i].ended = @ + 1]
  BY <1>2, <1>4 DEF RunEnded
<1>7. Good(o', Idle, Hands, HeldSet) /\ Keeps(c, o', Len(sent))
  BY <1>3, <1>4, <1>5, <1>6, EndedGood
<1>8. \A j \in Subs : SameHolder(o.sub[j], c.sub[j])
  BY <1>3 DEF SameHolder
<1> QED
  BY <1>1, <1>3, <1>7, <1>8, Settle DEF OnlyTask

LEMMA RunSubscribeStep ==
    ASSUME IInv, RunSubscribe
    PROVE  IInv' /\ Calm
<1>1. Run("subscribe") /\ OnlyTask
  BY ZenonT(30) DEF RunSubscribe
<1>2. PICK b, h : b = Rest /\ h = This
  OBVIOUS
<1>3. /\ publishing = Done /\ h.fn = "subscribe" /\ b \in Shape /\ b.sub = o.sub
      /\ Good(b, h, Hands, HeldSet) /\ Ordered(b, Done, Len(sent)) /\ h.sub \in Subs
  BY <1>1, <1>2, Popped
<1>4. PICK i \in Subs : i = h.sub
  BY <1>3
<1>5. i \in Nat /\ i # 0 /\ Len(sent) \in Nat
  BY StateTypes DEF Subs
<1>6. PICK k : k = b.sub[i].key
  OBVIOUS
<1>7. PICK q : q = MapSet(b, k)
  OBVIOUS
<1>8. PICK c : c = q.map[k]
  OBVIOUS
<1>9. PICK d : d = Join(q, i, c)
  OBVIOUS
<1>10. o' = FreeSub(d, i)
  BY <1>2, <1>3, <1>4, <1>6, <1>7, <1>8, <1>9, ZenonT(30) DEF RunSubscribe, Join
<1>11. PICK t \in TaskRec : t = Task("free", i)
  BY <1>5, TaskType, Kinds
<1>12. t.fn = "free" /\ t.sub = i /\ t.fn \in Reactor
  BY <1>5, <1>11, TaskType, Kinds DEF Reactor
<1>13. Good(d, t, Hands, HeldSet) /\ Keeps(b, d, Len(sent))
  BY <1>3, <1>4, <1>5, <1>6, <1>7, <1>8, <1>9, <1>12, LinkGood
<1>14. Good(o', Idle, Hands, HeldSet) /\ Keeps(d, o', Len(sent))
  BY <1>5, <1>10, <1>12, <1>13, FreeSubGood
<1>15. Keeps(b, o', Len(sent))
  BY <1>3, <1>13, <1>14, KeepsTwice DEF Good
<1>16. \A j \in Subs : SameHolder(o.sub[j], b.sub[j])
  BY <1>3 DEF SameHolder
<1> QED
  BY <1>1, <1>3, <1>14, <1>15, <1>16, Settle DEF OnlyTask

(* What a delivery leaves of the subscriptions as they were before it.     *)
Hearing(a, b) ==
    SameHolder(a, b) /\ b.refs = a.refs /\ b.late = a.late

(* A delivery, by whichever thread: on_message is read.                    *)
LEMMA HeardStep ==
    ASSUME NEW c, NEW t, NEW r, NEW H, NEW d, NEW l, Good(c, t, r, H), Ordered(c, d, l),
           t \in TaskRec, t.sub \in 1 .. Len(c.sub), Fresh(t) => Newest(c, d, l, t),
           t.fn = "deliver"
    PROVE  /\ Good(Heard(c, t), t, r, H) /\ Ordered(Heard(c, t), d, l)
           /\ Len(Heard(c, t).sub) = Len(c.sub)
           /\ Heard(c, t).chan = c.chan /\ Heard(c, t).map = c.map
           /\ \A i \in 1 .. Len(c.sub) : Hearing(c.sub[i], Heard(c, t).sub[i])
<1>1. PICK i \in 1 .. Len(c.sub) : i = t.sub
  OBVIOUS
<1>2. PICK q : q = Heard(c, t)
  OBVIOUS
<1>3. CASE ~(c.sub[i].live /\ ~t.again)
  <2>1. Heard(c, t) = c
    BY <1>1, <1>3 DEF Heard
  <2> QED
    BY <2>1 DEF SameHolder, Hearing
<1>4. CASE c.sub[i].live /\ ~t.again
  <2>1. PICK m \in Nat : m = t.msg
    BY DEF TaskRec
  <2>2. q = Hears(c, i, m)
    BY <1>1, <1>2, <1>4, <2>1 DEF Heard, Hears
  <2>3. /\ Good(q, t, r, H)
        /\ q.chan = c.chan /\ q.map = c.map /\ q.io = c.io /\ q.user = c.user
        /\ Len(q.sub) = Len(c.sub)
        /\ \A j \in 1 .. Len(c.sub) : j # i => q.sub[j] = c.sub[j]
        /\ OnlyHeard(c.sub[i], q.sub[i], m)
    <3>1. Good(c, t, r, H) /\ i \in 1 .. Len(c.sub) /\ m \in Nat
      OBVIOUS
    <3> QED
      BY ONLY <2>2, <3>1, HeardGood
  <2>5. Hearing(c.sub[i], q.sub[i])
    BY <2>3 DEF OnlyHeard, SameHolder, Hearing
  <2>6. /\ \A j \in 1 .. Len(c.io) : Fresh(c.io[j]) => c.io[j].sub \in 1 .. Len(c.sub)
        /\ \A j \in 1 .. Len(c.user) : Fresh(c.user[j]) => c.user[j].sub \in 1 .. Len(c.sub)
    BY FreshNamed
  <2>7. Ordered(q, d, l)
    <3>1. /\ c \in Shape /\ q \in Shape /\ Newest(c, d, l, t) /\ t \in TaskRec
          /\ i = t.sub /\ m = t.msg /\ Ordered(c, d, l)
      BY <1>1, <1>4, <2>1, <2>3 DEF Good, Fresh
    <3> QED
      BY ONLY <2>3, <2>6, <3>1, OrderedHeard
  <2>8. \A j \in 1 .. Len(c.sub) : Hearing(c.sub[j], q.sub[j])
    BY <2>3, <2>5 DEF SameHolder, Hearing
  <2> QED
    BY <1>2, <2>3, <2>7, <2>8
<1> QED
  BY <1>3, <1>4

(* The end of a delivery: its reference goes on with a task.               *)
LEMMA DeliveredStep ==
    ASSUME NEW q, NEW t, NEW r, NEW H, Good(q, t, r, H), t.fn = "deliver", t.sub # 0,
           NEW l \in Nat, t.msg <= l, NEW defer \in BOOLEAN, NEW d, d = Delivered(q, t, defer)
    PROVE  /\ Good(d, Idle, r, H) /\ Keeps(q, d, l)
           /\ d.sub = q.sub /\ d.chan = q.chan /\ d.map = q.map
<1>1. q \in Shape /\ t \in TaskRec /\ t.sub \in 1 .. Len(q.sub)
  <2>1. q \in Shape /\ t \in TaskRec /\ t.sub \in 0 .. Len(q.sub)
    BY DEF Good, Named
  <2> QED
    BY <2>1, ShapeTypes
<1>2. t.fn \in Reactor
  BY Kinds DEF Reactor
<1>3. CASE defer
  <2>1. PICK u : u = [t EXCEPT !.again = TRUE]
    OBVIOUS
  <2>2. /\ u \in TaskRec /\ u.fn = "deliver" /\ u.sub = t.sub /\ u.msg = t.msg
        /\ u.fn # "publish" /\ ~Fresh(u)
    BY <1>1, <2>1 DEF TaskRec, Fresh
  <2>3. PICK n : n = q.sub[t.sub].queue
    OBVIOUS
  <2>4. d = Push(q, n, u)
    BY <1>3, <2>1, <2>3 DEF Delivered
  <2>5. Good(d, Idle, r, H)
    BY <1>2, <2>2, <2>4, PushGood
  <2>6. Keeps(q, d, l)
    <3>1. n \in {"io", "user"} /\ u.sub \in With(q, n)
      BY <1>1, <2>2, <2>3, ShapeTypes DEF SubRec, With
    <3>2. Added(u, l, With(q, n))
      BY <2>2, <3>1 DEF Added
    <3> QED
      BY <1>1, <2>2, <2>4, <3>1, <3>2, PushKeeps
  <2>7. d.sub = q.sub /\ d.chan = q.chan /\ d.map = q.map
    BY <1>1, <2>2, <2>4, PushShape
  <2> QED
    BY <2>5, <2>6, <2>7
<1>4. CASE ~defer
  <2>1. PICK u \in TaskRec : u = Task("free", t.sub)
    BY <1>1, TaskType, Kinds
  <2>2. u.fn = "free" /\ u.sub = t.sub /\ \A S : Added(u, l, S)
    BY <1>1, <2>1, TaskType, TaskAdded, Kinds DEF Fn, OwnerFn
  <2>3. PICK n \in {"io", "user"} : n = "io"
    OBVIOUS
  <2>4. d = Push(q, n, u)
    BY <1>4, <2>1, <2>3 DEF Delivered
  <2>5. Good(d, Idle, r, H)
    BY <1>2, <2>2, <2>3, <2>4, PushGood
  <2>6. Keeps(q, d, l)
    BY <1>1, <2>2, <2>4, PushKeeps
  <2>7. d.sub = q.sub /\ d.chan = q.chan /\ d.map = q.map
    BY <1>1, <2>2, <2>4, PushShape
  <2> QED
    BY <2>5, <2>6, <2>7
<1> QED
  BY <1>3, <1>4

LEMMA DistributeForm ==
    ASSUME NEW m, NEW ks, NEW list, Distribute(m, ks, list)
    PROVE  \/ ks = {} /\ list = {} /\ publishing' = Done
           \/ /\ publishing' = [msg |-> m, keys |-> ks, list |-> list]
              /\ publishing'.msg = m /\ publishing'.keys = ks /\ publishing'.list = list
BY DEF Distribute

(* What is left to distribute, after a step of the distribution.           *)
LEMMA DistributingNext ==
    ASSUME NEW m, NEW ks, NEW list, Distribute(m, ks, list), m \in 1 .. Len(sent),
           Len(sent) \in Nat, sent' = sent,
           ks \subseteq Keys, \A k \in ks : o'.map[k] # 0, list \subseteq Nat,
           \A i \in list : i \in Subs' /\ o'.sub[i].refs > 0 /\ o'.sub[i].key \notin ks
    PROVE  Distributing'
<1>1. m \in 0 .. Len(sent) /\ m # 0 /\ 0 \in 0 .. Len(sent)
  OBVIOUS
<1>2. CASE publishing' = Done
  BY <1>1, <1>2 DEF Distributing, Done
<1>3. CASE publishing' # Done
  <2>1. /\ publishing' = [msg |-> m, keys |-> ks, list |-> list]
        /\ publishing'.msg = m /\ publishing'.keys = ks /\ publishing'.list = list
    BY <1>3, DistributeForm
  <2>2. publishing' \in [msg : 0 .. Len(sent), keys : SUBSET Keys, list : SUBSET Nat]
    BY <1>1, <2>1
  <2> QED
    BY <1>1, <2>1, <2>2 DEF Distributing
<1> QED
  BY <1>2, <1>3

LEMMA SubsSame ==
    ASSUME IInv, o'.sub = o.sub, UNCHANGED <<env, handles, delivering, running>>
    PROVE  Owned' /\ HeldSet' = HeldSet /\ Calm /\ Hands' = Hands
<1>1. /\ Len(o'.sub) = Len(o.sub) /\ Subs' = Subs
      /\ \A i \in Subs : SameHolder(o.sub[i], o'.sub[i])
  BY DEF SameHolder, Subs
<1>2. Owned' /\ HeldSet' = HeldSet
  BY <1>1, OwnedSame
<1>3. Calm
  BY <1>1, CalmSame
<1> QED
  BY <1>2, <1>3, HandsSame

(* Whom the message is still due to when the reactor turns to channel k.   *)
LEMMA NextChannelStep ==
    ASSUME IInv, NextChannel
    PROVE  IInv' /\ Calm
<1>1. UNCHANGED <<o, env, handles, open, delivering, running, sent>>
  BY DEF NextChannel
<1>2. PICK k \in publishing.keys :
          Distribute(publishing.msg, publishing.keys \ {k}, o.chan[o.map[k]].list)
  BY DEF NextChannel
<1>3. PICK m, ks, list, c : /\ m = publishing.msg /\ ks = publishing.keys \ {k}
                            /\ c = o.map[k] /\ list = o.chan[c].list
  OBVIOUS
<1>4. Distributing /\ publishing.keys # {}
  BY DEF IInv
<1>5. m \in 1 .. Len(sent) /\ k \in Keys /\ publishing.keys \subseteq Keys /\ Len(sent) \in Nat
  <2>1. m \in 0 .. Len(sent) /\ m # 0 /\ Len(sent) \in Nat
    BY <1>3, <1>4, StateTypes DEF Distributing
  <2> QED
    BY <1>4, <2>1 DEF Distributing
<1>6. o \in Shape /\ Linked(o, 0) /\ Len(o.sub) \in Nat
  BY StateTypes DEF IInv, Good
<1>7. c \in 1 .. Len(o.chan) /\ c # 0 /\ o.chan[c].key = k
  <2>1. c # 0 /\ MapLinked(o, k)
    BY <1>3, <1>4, <1>5, <1>6 DEF Distributing, Linked
  <2> QED
    BY <1>3, <2>1 DEF MapLinked
<1>8. \A i \in list : i \in 1 .. Len(o.sub) /\ o.sub[i].refs > 0 /\ o.sub[i].key = k
  <2>1. ChanLinked(o, 0, c) /\ \A i \in 1 .. Len(o.sub) : SubLinked(o, i)
    BY <1>6, <1>7 DEF Linked
  <2>2. \A i \in list : i \in 1 .. Len(o.sub) /\ o.sub[i].chan = c /\ o.sub[i].refs > 0
    BY <1>3, <2>1 DEF ChanLinked, Users
  <2> QED
    BY <1>7, <2>1, <2>2 DEF SubLinked
<1>9. Distributing'
  <2>1. /\ ks \subseteq Keys /\ \A j \in ks : o'.map[j] # 0
        /\ \A i \in list : i \in Subs' /\ o'.sub[i].refs > 0 /\ o'.sub[i].key \notin ks
    BY <1>1, <1>3, <1>4, <1>5, <1>8 DEF Distributing, Subs
  <2>2. list \subseteq Nat /\ Distribute(m, ks, list)
    BY <1>2, <1>3, <1>6, <1>8
  <2> QED
    BY <1>1, <1>5, <2>1, <2>2, DistributingNext
<1>10. Ordered(o, publishing', Len(sent))
  <2>1. PICK d, e, l : d = publishing /\ e = publishing' /\ l = Len(sent)
    OBVIOUS
  <2>2. Ordered(o, d, l) /\ l \in Nat
    BY <1>5, <2>1 DEF IInv
  <2>3. CASE e = Done
    BY <1>6, <2>1, <2>2, <2>3, StateTypes, OrderedLess
  <2>4. CASE e # Done
    <3>1. e.msg = d.msg /\ e.keys = ks /\ e.list = list
      BY <1>2, <1>3, <2>1, <2>4, DistributeForm
    <3>2. \A i : Due(o, e, i) => Due(o, d, i)
      BY <1>3, <2>1, <3>1 DEF Due
    <3> QED
      BY <1>6, <2>1, <2>2, <3>1, <3>2, OrderedLess
  <2> QED
    BY <2>3, <2>4
<1>11. Owned' /\ HeldSet' = HeldSet /\ Calm /\ Hands' = Hands
  BY <1>1, SubsSame
<1>12. Good(o', Idle, Hands', HeldSet') /\ Ordered(o', publishing', Len(sent)')
  BY <1>1, <1>10, <1>11 DEF IInv
<1>13. Others'
  BY <1>1 DEF IInv, Others, InHand, With
<1> QED
  BY <1>9, <1>11, <1>12, <1>13 DEF IInv

(* The task that published owned nothing.                                  *)
LEMMA PublishedGood ==
    ASSUME NEW p, NEW h, NEW r, NEW H, Good(p, h, r, H), h.fn = "publish"
    PROVE  Good(p, Idle, r, H)
<1>1. p \in Shape /\ Named(p, h, r) /\ Counted(p, h, r, H) /\ Linked(p, 0) /\ Len(p.sub) \in Nat
  BY ShapeTypes DEF Good
<1>2. \A i : /\ Tally(h, OwnerFn, i) = Tally(Idle, OwnerFn, i)
             /\ Tally(h, SubscribeFn, i) = Tally(Idle, SubscribeFn, i)
             /\ Tally(h, EndedFn, i) = Tally(Idle, EndedFn, i)
  BY IdleTally DEF Tally, Is, OwnerFn, SubscribeFn, EndedFn
<1>3. Counted(p, Idle, r, H)
  BY <1>1, <1>2, CountedSame DEF Total
<1>4. Idle \in TaskRec /\ Idle.sub \in 0 .. Len(p.sub)
  BY <1>1, IdleTask DEF Idle
<1>5. Named(p, Idle, r)
  BY <1>1, <1>4 DEF Named
<1> QED
  BY <1>1, <1>3, <1>5 DEF Good

LEMMA RunPublishStep ==
    ASSUME IInv, RunPublish
    PROVE  IInv' /\ Calm
<1>1. Run("publish") /\ UNCHANGED <<env, handles, open, delivering, running, sent>> /\ o' = Rest
  BY DEF RunPublish
<1>2. /\ publishing = Done /\ This \in TaskRec /\ This.fn = "publish"
      /\ Rest \in Shape /\ Rest.sub = o.sub /\ Rest.chan = o.chan /\ Rest.map = o.map
      /\ Rest.io = Tail(o.io) /\ Rest.user = o.user
      /\ Good(Rest, This, Hands, HeldSet) /\ Ordered(Rest, Done, Len(sent))
  BY <1>1, Popped
<1>3. PICK m, n : m = This.msg /\ n = sent[m].name
  OBVIOUS
<1>4. PICK ks : /\ Distribute(m, ks, {})
                /\ \A k \in ks : (k = n \/ k \in Patterns) /\ o.map[k] # 0
  <2> DEFINE found == {n} \cup {k \in Patterns : n \in Matches[k]}
             ks == {k \in found : o.map[k] # 0}
  <2>1. Distribute(m, ks, {})
    BY <1>3 DEF RunPublish
  <2>2. \A k \in ks : (k = n \/ k \in Patterns) /\ o.map[k] # 0
    OBVIOUS
  <2> QED
    BY <2>1, <2>2
<1>5. o \in Shape /\ o.io # <<>> /\ Len(sent) \in Nat /\ This = Head(o.io)
  BY <1>1, StateTypes DEF Run, This
<1>6. \A e : e.msg = m => Ordered(Rest, e, Len(sent)) /\ m \in 1 .. Len(sent)
  <2>1. ASSUME NEW e, e.msg = m
        PROVE  Ordered(Rest, e, Len(sent)) /\ m \in 1 .. Len(sent)
    <3>1. PICK c, d, l : c = Rest /\ d = Done /\ l = Len(sent)
      OBVIOUS
    <3>2. d.msg = 0 /\ Ordered(o, d, l) /\ l \in Nat
      BY <1>2, <1>5, <3>1, StateTypes DEF IInv
    <3>3. /\ Head(o.io).fn = "publish" /\ e.msg = Head(o.io).msg
          /\ c \in Shape /\ c.sub = o.sub /\ c.chan = o.chan /\ c.map = o.map
          /\ c.io = Tail(o.io) /\ c.user = o.user
      BY <1>2, <1>3, <1>5, <2>1, <3>1
    <3>4. Ordered(c, e, l) /\ e.msg \in 1 .. l
      BY <1>5, <3>2, <3>3, OrderedDistribute
    <3> QED
      BY <2>1, <3>1, <3>4
  <2> QED
    BY <2>1
<1>7. m \in 1 .. Len(sent)
  <2>1. This.msg = m
    BY <1>3
  <2> QED
    BY <1>6, <2>1
<1>8. n \in Names
  <2>1. sent[m] \in [name : Names, from : Owners]
    BY <1>7, ElementOfSeq DEF IInv, Others
  <2> QED
    BY <1>3, <2>1
<1>9. Distributing'
  <2>1. ks \subseteq Keys /\ \A k \in ks : o'.map[k] # 0
    BY <1>1, <1>2, <1>4, <1>8 DEF Keys
  <2> QED
    BY <1>1, <1>4, <1>5, <1>7, <2>1, DistributingNext
<1>10. Ordered(o', publishing', Len(sent))
  <2>1. publishing' = Done \/ publishing'.msg = m
    BY <1>4, DistributeForm
  <2> QED
    BY <1>1, <1>2, <1>6, <2>1
<1>11. Owned' /\ HeldSet' = HeldSet /\ Calm /\ Hands' = Hands
  BY <1>1, <1>2, SubsSame
<1>12. Good(o', Idle, Hands', HeldSet') /\ Ordered(o', publishing', Len(sent)')
  <2>1. Good(o', Idle, Hands, HeldSet)
    BY <1>1, <1>2, PublishedGood
  <2> QED
    BY <1>1, <1>10, <1>11, <2>1
<1>13. Others'
  BY <1>1, <1>2 DEF IInv, Others, InHand, With
<1> QED
  BY <1>9, <1>11, <1>12, <1>13 DEF IInv
(* A step of the other thread, or of the reactor while it distributes:     *)
(* channels and the map stay as they are.                                  *)
LEMMA DistributingSame ==
    ASSUME IInv, publishing' = publishing, Len(sent') \in Nat, Len(sent) <= Len(sent'),
           o'.map = o.map, Len(o'.sub) \in Nat, Len(o.sub) <= Len(o'.sub),
           \A i \in Subs : /\ o.sub[i].refs > 0 => o'.sub[i].refs > 0
                           /\ o'.sub[i].key = o.sub[i].key
    PROVE  Distributing'
<1>1. Distributing /\ Len(sent) \in Nat /\ Len(o.sub) \in Nat
  BY StateTypes DEF IInv
<1>2. \A m \in 0 .. Len(sent) : m \in 0 .. Len(sent')
  BY <1>1
<1>3. Subs \subseteq Subs'
  BY <1>1 DEF Subs
<1>4. publishing' \in [msg : 0 .. Len(sent'), keys : SUBSET Keys, list : SUBSET Nat]
  BY <1>1, <1>2 DEF Distributing
<1>5. publishing'.msg = 0 => publishing' = Done
  BY <1>1 DEF Distributing
<1>6. \A k \in publishing'.keys : o'.map[k] # 0
  BY <1>1 DEF Distributing
<1>7. \A i \in publishing'.list :
          i \in Subs' /\ o'.sub[i].refs > 0 /\ o'.sub[i].key \notin publishing'.keys
  BY <1>1, <1>3 DEF Distributing
<1> QED
  BY <1>4, <1>5, <1>6, <1>7 DEF Distributing

LEMMA Aside ==
    ASSUME IInv, Good(o', Idle, Hands', HeldSet), Ordered(o', publishing, Len(sent)),
           o'.map = o.map, Len(o'.sub) = Len(o.sub),
           \A i \in Subs : /\ o.sub[i].refs > 0 => o'.sub[i].refs > 0
                           /\ SameHolder(o.sub[i], o'.sub[i]),
           UNCHANGED <<env, handles, open, publishing, sent>>, Others'
    PROVE  IInv'
<1>1. Owned' /\ HeldSet' = HeldSet
  BY OwnedSame
<1>2. Len(o.sub) \in Nat /\ Len(sent) \in Nat
  BY StateTypes
<1>3. Distributing'
  BY <1>2, DistributingSame DEF SameHolder
<1>4. Good(o', Idle, Hands', HeldSet') /\ Ordered(o', publishing', Len(sent)')
  BY <1>1
<1> QED
  BY <1>1, <1>3, <1>4 DEF IInv

(* The subscriptions keep their queues.                                    *)
LEMMA WithSame ==
    ASSUME NEW p, NEW q, Len(q.sub) = Len(p.sub),
           \A j \in 1 .. Len(p.sub) : q.sub[j].queue = p.sub[j].queue
    PROVE  \A n : With(q, n) = With(p, n)
BY DEF With

LEMMA HandsKept ==
    ASSUME IInv, UNCHANGED <<open, sent>>, Len(o'.sub) = Len(o.sub),
           \A j \in 1 .. Len(o.sub) : o'.sub[j].queue = o.sub[j].queue,
           InHand(delivering', "io"), InHand(running', "user")
    PROVE  Others'
<1>1. With(o', "io") = With(o, "io") /\ With(o', "user") = With(o, "user")
  <2>1. PICK q : q = o'
    OBVIOUS
  <2>2. /\ Len(q.sub) = Len(o.sub)
        /\ \A j \in 1 .. Len(o.sub) : q.sub[j].queue = o.sub[j].queue
    BY <2>1
  <2>3. \A n : With(q, n) = With(o, n)
    BY ONLY <2>2, WithSame
  <2> QED
    BY <2>1, <2>3
<1>2. InHand(delivering, "io")' /\ InHand(running, "user")'
  BY <1>1 DEF InHand
<1> QED
  BY <1>2 DEF IInv, Others

(* A thread has read on_message, and holds what it read.                   *)
LEMMA HeardAside ==
    ASSUME IInv, UNCHANGED <<env, handles, open, publishing, sent>>,
           Good(o', Idle, Hands', HeldSet), Ordered(o', publishing, Len(sent)),
           o'.map = o.map, Len(o'.sub) = Len(o.sub),
           \A i \in 1 .. Len(o.sub) : Hearing(o.sub[i], o'.sub[i]),
           InHand(delivering', "io"), InHand(running', "user"),
           \A i : Calling(i)' => Calling(i) \/ o.sub[i].live
    PROVE  IInv' /\ Calm
<1>1. PICK q : q = o'
  OBVIOUS
<1>2. \A i \in Subs : /\ o.sub[i].refs > 0 => q.sub[i].refs > 0
                      /\ SameHolder(o.sub[i], q.sub[i])
  BY <1>1 DEF Hearing, Subs
<1>3. \A i \in Subs : /\ q.sub[i].live => o.sub[i].live
                      /\ q.sub[i].late = o.sub[i].late
  BY <1>1 DEF Hearing, SameHolder, Subs
<1>4. \A j \in 1 .. Len(o.sub) : q.sub[j].queue = o.sub[j].queue
  BY <1>1 DEF Hearing, SameHolder
<1>5. Others'
  BY <1>1, <1>4, HandsKept
<1>6. /\ Good(o', Idle, Hands', HeldSet) /\ Ordered(o', publishing, Len(sent))
      /\ o'.map = o.map /\ Len(o'.sub) = Len(o.sub)
      /\ UNCHANGED <<env, handles, open, publishing, sent>>
  OBVIOUS
<1>7. \A i \in Subs : /\ o.sub[i].refs > 0 => o'.sub[i].refs > 0
                      /\ SameHolder(o.sub[i], o'.sub[i])
  BY <1>1, <1>2
<1>8. IInv'
  BY ONLY IInv, <1>5, <1>6, <1>7, Aside
<1>9. Subs' = Subs
  BY <1>6 DEF Subs
<1>10. /\ \A i \in Subs' \ Subs : o'.sub[i].late = 0
       /\ \A i \in Subs : /\ o'.sub[i].live => o.sub[i].live
                          /\ Calling(i)' => Calling(i) \/ o.sub[i].live
                          /\ o'.sub[i].late = o.sub[i].late
  BY <1>1, <1>3, <1>9
<1>11. Calm
  BY <1>10 DEF Calm
<1> QED
  BY <1>8, <1>11

(* The thread whose queue is `name` has read on_message.                   *)
LEMMA ReadHand ==
    ASSUME NEW t \in TaskRec, t.fn = "deliver", NEW u, u = Read(t)
    PROVE  /\ u \in TaskRec /\ u.sub = t.sub /\ u.msg = t.msg
           /\ u.fn \in {"call", "stub"} /\ u.fn \in Reactor /\ t.fn \in Reactor
           /\ u.fn = "call" => o.sub[u.sub].live
<1>1. PICK fn \in {"call", "stub"} :
          u = [t EXCEPT !.fn = fn] /\ (fn = "call" => o.sub[t.sub].live)
  BY DEF Read
<1>2. /\ u.fn = fn /\ u.sub = t.sub /\ u.msg = t.msg /\ u \in TaskRec
  BY <1>1 DEF TaskRec, Fn, OwnerFn
<1> QED
  BY <1>1, <1>2 DEF OwnerFn, Reactor

LEMMA RunDeliverStep ==
    ASSUME IInv, RunDeliver
    PROVE  IInv' /\ Calm
<1>1. /\ Run("deliver") /\ UNCHANGED <<env, handles, open, running, publishing, sent>>
      /\ o' = Heard(Rest, This) /\ delivering' = Read(This)
  BY DEF RunDeliver
<1>2. PICK c, t, u, q, H, d, l : /\ c = Rest /\ t = This /\ u = Read(t) /\ q = Heard(c, t)
                                 /\ H = HeldSet /\ d = Done /\ l = Len(sent)
  OBVIOUS
<1>3. /\ publishing = d /\ t \in TaskRec /\ t.fn = "deliver" /\ t.msg <= l
      /\ c \in Shape /\ c.sub = o.sub /\ c.map = o.map /\ Good(c, t, Hands, H)
      /\ Ordered(c, d, l) /\ t.sub \in Subs /\ (Fresh(t) => Newest(c, d, l, t))
      /\ delivering = Idle /\ t.sub \in With(o, "io")
  BY <1>1, <1>2, Popped
<1>4. t.sub \in 1 .. Len(c.sub)
  BY <1>3 DEF Subs
<1>5. /\ Good(q, t, Hands, H) /\ Ordered(q, d, l) /\ Len(q.sub) = Len(c.sub)
      /\ q.map = c.map /\ \A i \in 1 .. Len(c.sub) : Hearing(c.sub[i], q.sub[i])
  BY ONLY <1>2, <1>3, <1>4, HeardStep
<1>6. o' = q /\ delivering' = u
  BY <1>1, <1>2
<1>7. /\ u \in TaskRec /\ u.sub = t.sub /\ u.msg = t.msg /\ u.fn \in {"call", "stub"}
      /\ u.fn \in Reactor /\ t.fn \in Reactor /\ (u.fn = "call" => o.sub[u.sub].live)
  BY <1>2, <1>3, ReadHand
<1>8. Good(q, Idle, Hands', H)
  <2>1. Good(q, u, Hands, H)
    BY <1>5, <1>7, RenameGood
  <2>2. Good(q, u, [io |-> Idle, user |-> running], H)
    BY <1>3, <2>1 DEF Hands
  <2>3. Good(q, Idle, [io |-> u, user |-> running], H)
    BY <2>2, SwapIo
  <2> QED
    BY <1>1, <1>6, <2>3 DEF Hands
<1>9. InHand(delivering', "io") /\ InHand(running', "user")
  <2>1. InHand(running, "user")
    BY DEF IInv, Others
  <2>2. t.sub \in With(o, "io") /\ u.sub = t.sub /\ u.msg <= Len(sent)
    BY <1>2, <1>3, <1>7
  <2> QED
    BY <1>1, <1>6, <1>7, <2>1, <2>2 DEF InHand
<1>10. \A i : Calling(i)' => Calling(i) \/ o.sub[i].live
  BY <1>1, <1>6, <1>7 DEF Calling
<1>11. /\ Good(o', Idle, Hands', HeldSet) /\ Ordered(o', publishing, Len(sent))
       /\ o'.map = o.map /\ Len(o'.sub) = Len(o.sub)
  BY <1>2, <1>3, <1>5, <1>6, <1>8
<1>12. \A i \in 1 .. Len(o.sub) : Hearing(o.sub[i], o'.sub[i])
  BY <1>3, <1>5, <1>6
<1>13. UNCHANGED <<env, handles, open, publishing, sent>>
  BY <1>1
<1> QED
  BY ONLY IInv, <1>9, <1>10, <1>11, <1>12, <1>13, HeardAside

LEMMA UserDeliverStep ==
    ASSUME IInv, UserDeliver
    PROVE  IInv' /\ Calm
<1>1. /\ running = Idle /\ o.user # <<>> /\ Head(o.user).fn = "deliver"
      /\ UNCHANGED <<env, handles, open, delivering, publishing, sent>>
      /\ o' = Heard([o EXCEPT !.user = Tail(@)], Head(o.user)) /\ running' = Read(Head(o.user))
  BY DEF UserDeliver
<1>2. PICK c, t, u, q, H, d, l :
          /\ c = [o EXCEPT !.user = Tail(@)] /\ t = Head(o.user) /\ u = Read(t)
          /\ q = Heard(c, t) /\ H = HeldSet /\ d = publishing /\ l = Len(sent)
  OBVIOUS
<1>3. /\ o \in Shape /\ Good(o, Idle, Hands, H) /\ Ordered(o, d, l) /\ l \in Nat
      /\ o.user \in Seq(TaskRec)
  BY <1>2, StateTypes, ShapeTypes DEF IInv
<1>4. /\ c \in Shape /\ c.sub = o.sub /\ c.chan = o.chan /\ c.map = o.map
      /\ c.user = Tail(o.user) /\ c.io = o.io
  BY <1>1, <1>2, <1>3, PopUserShape
<1>5. Good(c, t, Hands, H)
  BY <1>1, <1>2, <1>3, <1>4, PopUserGood
<1>6. \A j \in 1 .. Len(o.user) : Fresh(o.user[j]) => o.user[j].sub \in 1 .. Len(o.sub)
  BY <1>3, FreshNamed
<1>7. /\ Ordered(c, d, l) /\ t.msg <= l /\ (Fresh(t) => Newest(c, d, l, t))
      /\ t.fn = "deliver" => t.sub \in With(o, "user")
  BY ONLY <1>1, <1>2, <1>3, <1>4, <1>6, OrderedPopUser
<1>8. t \in TaskRec /\ t.fn = "deliver" /\ t.sub \in 1 .. Len(c.sub)
  <2>1. t \in TaskRec /\ t.fn = "deliver" /\ t = o.user[1] /\ 1 \in 1 .. Len(o.user)
    BY <1>1, <1>2, <1>3, TailBehind, ElementOfSeq
  <2> QED
    BY <1>3, <1>4, <2>1 DEF Good, Named
<1>9. /\ Good(q, t, Hands, H) /\ Ordered(q, d, l) /\ Len(q.sub) = Len(c.sub)
      /\ q.map = c.map /\ \A i \in 1 .. Len(c.sub) : Hearing(c.sub[i], q.sub[i])
  BY ONLY <1>2, <1>5, <1>7, <1>8, HeardStep
<1>10. o' = q /\ running' = u
  BY <1>1, <1>2
<1>11. /\ u \in TaskRec /\ u.sub = t.sub /\ u.msg = t.msg /\ u.fn \in {"call", "stub"}
       /\ u.fn \in Reactor /\ t.fn \in Reactor /\ (u.fn = "call" => o.sub[u.sub].live)
  BY <1>2, <1>8, ReadHand
<1>12. Good(q, Idle, Hands', H)
  <2>1. Good(q, u, Hands, H)
    BY <1>9, <1>11, RenameGood
  <2>2. Good(q, u, [io |-> delivering, user |-> Idle], H)
    BY <1>1, <2>1 DEF Hands
  <2>3. Good(q, Idle, [io |-> delivering, user |-> u], H)
    BY <2>2, SwapUser
  <2> QED
    BY <1>1, <1>10, <2>3 DEF Hands
<1>13. InHand(delivering', "io") /\ InHand(running', "user")
  <2>1. InHand(delivering, "io")
    BY DEF IInv, Others
  <2>2. t.sub \in With(o, "user") /\ u.sub = t.sub /\ u.msg <= Len(sent)
    BY <1>2, <1>7, <1>8, <1>11
  <2> QED
    BY <1>1, <1>10, <1>11, <2>1, <2>2 DEF InHand
<1>14. \A i : Calling(i)' => Calling(i) \/ o.sub[i].live
  BY <1>1, <1>10, <1>11 DEF Calling
<1>15. /\ Good(o', Idle, Hands', HeldSet) /\ Ordered(o', publishing, Len(sent))
       /\ o'.map = o.map /\ Len(o'.sub) = Len(o.sub)
  BY <1>2, <1>4, <1>9, <1>10, <1>12
<1>16. \A i \in 1 .. Len(o.sub) : Hearing(o.sub[i], o'.sub[i])
  BY <1>4, <1>9, <1>10
<1>17. UNCHANGED <<env, handles, open, publishing, sent>>
  BY <1>1
<1> QED
  BY ONLY IInv, <1>13, <1>14, <1>15, <1>16, <1>17, HeardAside

(* The call of on_message begins.                                          *)
Begins(p, i) == [p EXCEPT !.sub[i].late = @ + 1]

OnlyLate(a, b) ==
    SameHolder(a, b) /\ b.refs = a.refs /\ b.heard = a.heard /\ b.late = a.late + 1

LEMMA BeginsGood ==
    ASSUME NEW p, NEW h, NEW r, NEW H, Good(p, h, r, H), NEW i \in 1 .. Len(p.sub),
           NEW d, d = Begins(p, i)
    PROVE  /\ Good(d, h, r, H)
           /\ d.chan = p.chan /\ d.map = p.map /\ d.io = p.io /\ d.user = p.user
           /\ Len(d.sub) = Len(p.sub)
           /\ \A j \in 1 .. Len(p.sub) : j # i => d.sub[j] = p.sub[j]
           /\ OnlyLate(p.sub[i], d.sub[i])
<1>1. p \in Shape /\ p.sub[i] \in SubRec /\ Len(p.sub) \in Nat
  BY ShapeTypes DEF Good
<1>2. PICK n \in Nat : n = p.sub[i].late + 1
  BY <1>1 DEF SubRec
<1>3. PICK a : a = [p.sub[i] EXCEPT !.late = n]
  OBVIOUS
<1>4. /\ a \in SubRec /\ a.key = p.sub[i].key /\ a.chan = p.sub[i].chan
      /\ a.refs = p.sub[i].refs /\ a.ended = p.sub[i].ended /\ OnlyLate(p.sub[i], a)
  BY <1>1, <1>2, <1>3 DEF SubRec, OnlyLate, SameHolder
<1>5. d = [p EXCEPT !.sub[i] = a]
  BY <1>2, <1>3 DEF Begins
<1>6. d \in Shape /\ OneSub(p, d, i) /\ d.sub[i] = a
  <2>1. PICK e : e = [p EXCEPT !.sub[i] = a]
    OBVIOUS
  <2>2. e \in Shape /\ OneSub(p, e, i) /\ e.sub[i] = a
    BY <1>1, <1>4, <2>1, RecordShape
  <2> QED
    BY <1>5, <2>1, <2>2
<1>7. h \in TaskRec /\ h.sub \in 0 .. Len(p.sub)
  BY DEF Good, Named
<1>8. Good(d, h, r, H)
  BY <1>4, <1>6, <1>7, SubGood
<1> QED
  BY <1>4, <1>6, <1>8 DEF OneSub

LEMMA OrderedSame ==
    ASSUME NEW p, NEW d, NEW l, Ordered(p, d, l), NEW q, q.chan = p.chan, q.map = p.map,
           q.io = p.io, q.user = p.user, Len(q.sub) = Len(p.sub),
           \A j \in 1 .. Len(p.sub) : q.sub[j].heard = p.sub[j].heard
                                     /\ q.sub[j].queue = p.sub[j].queue,
           \A j \in 1 .. Len(p.io) : Fresh(p.io[j]) => p.io[j].sub \in 1 .. Len(p.sub),
           \A j \in 1 .. Len(p.user) : Fresh(p.user[j]) => p.user[j].sub \in 1 .. Len(p.sub)
    PROVE  Ordered(q, d, l)
<1>1. \A j, x : Below(p, d, l, j, x) => Below(q, d, l, j, x)
  BY DEF Below, Due
<1>2. ASSUME NEW j \in 1 .. Len(q.sub)
      PROVE  HeardInOrder(q, d, l, j)
  <2>1. HeardInOrder(p, d, l, j) /\ q.sub[j].heard = p.sub[j].heard
    BY DEF Ordered
  <2> QED
    BY <1>1, <2>1 DEF HeardInOrder
<1>3. Ahead(q, q.io, "io", d, l) /\ Ahead(q, q.user, "user", d, l)
  <2>1. ASSUME NEW z, NEW n, Ahead(p, z, n, d, l),
               \A j \in 1 .. Len(z) : Fresh(z[j]) => z[j].sub \in 1 .. Len(p.sub)
        PROVE  Ahead(q, z, n, d, l)
    BY <1>1, <2>1 DEF Ahead
  <2> QED
    BY <2>1 DEF Ordered
<1>4. \A n : With(q, n) = With(p, n)
  BY DEF With
<1>5. Homes(q, q.io, "io") /\ Homes(q, q.user, "user")
  BY <1>4 DEF Ordered, Homes
<1>6. Publications(q.io, d, l) /\ Limited(q.io, l) /\ Limited(q.user, l)
  BY DEF Ordered
<1> QED
  BY <1>2, <1>3, <1>5, <1>6 DEF Ordered

(* What has begun differs in nothing but the count of late calls.          *)
Counts(p, q, i) ==
    /\ q.chan = p.chan /\ q.map = p.map /\ q.io = p.io /\ q.user = p.user
    /\ Len(q.sub) = Len(p.sub)
    /\ \A j \in 1 .. Len(p.sub) :
           /\ SameHolder(p.sub[j], q.sub[j]) /\ q.sub[j].refs = p.sub[j].refs
           /\ q.sub[j].heard = p.sub[j].heard
           /\ \/ q.sub[j].late = p.sub[j].late
              \/ j = i /\ p.sub[j].cancelled /\ q.sub[j].late = p.sub[j].late + 1

LEMMA BegunStep ==
    ASSUME NEW p, NEW h, NEW r, NEW H, Good(p, h, r, H), NEW t, NEW i, i = t.sub,
           i \in 1 .. Len(p.sub), NEW q, q = Begun(p, t)
    PROVE  Good(q, h, r, H) /\ Counts(p, q, i)
<1>1. CASE p.sub[i].cancelled
  <2>1. q = Begins(p, i)
    BY <1>1 DEF Begun, Begins
  <2>2. /\ Good(q, h, r, H)
        /\ q.chan = p.chan /\ q.map = p.map /\ q.io = p.io /\ q.user = p.user
        /\ Len(q.sub) = Len(p.sub)
        /\ \A j \in 1 .. Len(p.sub) : j # i => q.sub[j] = p.sub[j]
        /\ OnlyLate(p.sub[i], q.sub[i])
    BY <2>1, BeginsGood
  <2> QED
    BY <1>1, <2>2 DEF Counts, OnlyLate, SameHolder
<1>2. CASE ~p.sub[i].cancelled
  <2>1. q = p
    BY <1>2 DEF Begun
  <2> QED
    BY <2>1 DEF Counts, SameHolder
<1> QED
  BY <1>1, <1>2

(* The thread whose hand holds `t` begins the call: what the two threads   *)
(* do otherwise is said by the facts about the hands.                      *)
LEMMA BegunAside ==
    ASSUME IInv, NEW t, t.sub \in 1 .. Len(o.sub), o' = Begun(o, t),
           UNCHANGED <<env, handles, open, publishing, sent>>,
           Good(o', Idle, Hands', HeldSet), InHand(delivering', "io"), InHand(running', "user"),
           Calling(t.sub), ~Calling(t.sub)', \A i : Calling(i)' => Calling(i)
    PROVE  IInv' /\ Calm
<1>1. PICK q, i, H, d, l : /\ q = o' /\ i = t.sub /\ H = HeldSet /\ d = publishing
                           /\ l = Len(sent)
  OBVIOUS
<1>2. Good(o, Idle, Hands, H) /\ Ordered(o, d, l)
  BY <1>1 DEF IInv
<1>3. Counts(o, q, i)
  BY <1>1, <1>2, BegunStep
<1>4. /\ q.map = o.map /\ Len(q.sub) = Len(o.sub)
      /\ \A j \in Subs : /\ o.sub[j].refs > 0 => q.sub[j].refs > 0
                         /\ SameHolder(o.sub[j], q.sub[j])
  BY <1>3 DEF Counts, Subs
<1>5. Ordered(q, d, l)
  <2>1. /\ \A j \in 1 .. Len(o.io) : Fresh(o.io[j]) => o.io[j].sub \in 1 .. Len(o.sub)
        /\ \A j \in 1 .. Len(o.user) : Fresh(o.user[j]) => o.user[j].sub \in 1 .. Len(o.sub)
    BY <1>2, FreshNamed
  <2>2. /\ q.chan = o.chan /\ q.map = o.map /\ q.io = o.io /\ q.user = o.user
        /\ Len(q.sub) = Len(o.sub)
        /\ \A j \in 1 .. Len(o.sub) : q.sub[j].heard = o.sub[j].heard
                                      /\ q.sub[j].queue = o.sub[j].queue
    BY <1>3 DEF Counts, SameHolder
  <2> QED
    BY ONLY <1>2, <2>1, <2>2, OrderedSame
<1>6. Others'
  <2>1. \A j \in 1 .. Len(o.sub) : o'.sub[j].queue = o.sub[j].queue
    BY <1>1, <1>3 DEF Counts, SameHolder
  <2>2. Len(o'.sub) = Len(o.sub)
    BY <1>1, <1>4
  <2> QED
    BY <2>1, <2>2, HandsKept
<1>7. IInv'
  <2>1. /\ Good(o', Idle, Hands', HeldSet) /\ Ordered(o', publishing, Len(sent))
        /\ o'.map = o.map /\ Len(o'.sub) = Len(o.sub)
        /\ UNCHANGED <<env, handles, open, publishing, sent>>
    BY <1>1, <1>4, <1>5
  <2>2. \A j \in Subs : /\ o.sub[j].refs > 0 => o'.sub[j].refs > 0
                        /\ SameHolder(o.sub[j], o'.sub[j])
    BY <1>1, <1>4
  <2> QED
    BY ONLY IInv, <1>6, <2>1, <2>2, Aside
<1>8. Calm
  <2>1. Subs' = Subs
    BY <1>1, <1>4 DEF Subs
  <2>2. ASSUME NEW j \in Subs
        PROVE  /\ q.sub[j].live => o.sub[j].live
               /\ \/ q.sub[j].late = o.sub[j].late
                  \/ j = i /\ ~o.sub[j].live /\ q.sub[j].late = o.sub[j].late + 1
    BY <1>3 DEF Counts, Subs, SameHolder, IInv, Owned
  <2> QED
    BY <1>1, <2>1, <2>2 DEF Calm
<1> QED
  BY <1>7, <1>8

(* The two queues are those of different subscriptions.                    *)
LEMMA Apart == With(o, "io") \cap With(o, "user") = {}
BY DEF With

LEMMA CallMessageStep ==
    ASSUME IInv, CallMessage
    PROVE  IInv' /\ Calm
<1>1. /\ delivering.fn = "call" /\ UNCHANGED <<env, handles, open, running, publishing, sent>>
      /\ o' = Begun(o, delivering)
  BY DEF CallMessage
<1>2. PICK q, t, u, H : /\ q = o' /\ t = delivering /\ u = [t EXCEPT !.fn = "called"]
                        /\ H = HeldSet
  OBVIOUS
<1>3. delivering' = u
  BY <1>2 DEF CallMessage
<1>4. /\ t \in TaskRec /\ t.sub \in With(o, "io") /\ t.msg <= Len(sent)
      /\ InHand(running, "user") /\ Good(o, Idle, Hands, H)
  BY <1>1, <1>2, StateTypes DEF IInv, Others, InHand, Idle
<1>5. /\ u \in TaskRec /\ u.fn = "called" /\ u.sub = t.sub /\ u.msg = t.msg
      /\ t.fn \in Reactor /\ u.fn \in Reactor
  BY <1>1, <1>2, <1>4 DEF TaskRec, Fn, OwnerFn, Reactor
<1>6. t.sub \in 1 .. Len(o.sub)
  BY <1>4 DEF With
<1>7. Good(q, Idle, Hands, H)
  BY <1>1, <1>2, <1>4, <1>6, BegunStep
<1>8. Good(q, Idle, Hands', H)
  <2>1. Good(q, t, [io |-> Idle, user |-> running], H)
    BY <1>2, <1>7, SwapIo DEF Hands
  <2>2. Good(q, u, [io |-> Idle, user |-> running], H)
    BY <1>5, <2>1, RenameGood
  <2>3. Good(q, Idle, [io |-> u, user |-> running], H)
    BY <2>2, SwapIo
  <2> QED
    BY <1>1, <1>3, <2>3 DEF Hands
<1>9. InHand(delivering', "io") /\ InHand(running', "user")
  BY <1>1, <1>3, <1>4, <1>5 DEF InHand
<1>10. ~(running.fn = "call" /\ running.sub = t.sub)
  <2>1. running.fn = "call" => running.sub \in With(o, "user")
    BY <1>4 DEF InHand, Idle
  <2> QED
    BY <1>4, <2>1, Apart
<1>11. Calling(t.sub) /\ ~Calling(t.sub)' /\ \A i : Calling(i)' => Calling(i)
  BY <1>1, <1>2, <1>3, <1>5, <1>10 DEF Calling
<1> QED
  BY <1>1, <1>2, <1>6, <1>8, <1>9, <1>11, BegunAside

LEMMA UserCallStep ==
    ASSUME IInv, UserCall
    PROVE  IInv' /\ Calm
<1>1. /\ running.fn = "call" /\ UNCHANGED <<env, handles, open, delivering, publishing, sent>>
      /\ o' = Begun(o, running)
  BY DEF UserCall
<1>2. PICK q, t, u, H : /\ q = o' /\ t = running /\ u = [t EXCEPT !.fn = "called"]
                        /\ H = HeldSet
  OBVIOUS
<1>3. running' = u
  BY <1>2 DEF UserCall
<1>4. /\ t \in TaskRec /\ t.sub \in With(o, "user") /\ t.msg <= Len(sent)
      /\ InHand(delivering, "io") /\ Good(o, Idle, Hands, H)
  BY <1>1, <1>2, StateTypes DEF IInv, Others, InHand, Idle
<1>5. /\ u \in TaskRec /\ u.fn = "called" /\ u.sub = t.sub /\ u.msg = t.msg
      /\ t.fn \in Reactor /\ u.fn \in Reactor
  BY <1>1, <1>2, <1>4 DEF TaskRec, Fn, OwnerFn, Reactor
<1>6. t.sub \in 1 .. Len(o.sub)
  BY <1>4 DEF With
<1>7. Good(q, Idle, Hands, H)
  BY <1>1, <1>2, <1>4, <1>6, BegunStep
<1>8. Good(q, Idle, Hands', H)
  <2>1. Good(q, t, [io |-> delivering, user |-> Idle], H)
    BY <1>2, <1>7, SwapUser DEF Hands
  <2>2. Good(q, u, [io |-> delivering, user |-> Idle], H)
    BY <1>5, <2>1, RenameGood
  <2>3. Good(q, Idle, [io |-> delivering, user |-> u], H)
    BY <2>2, SwapUser
  <2> QED
    BY <1>1, <1>3, <2>3 DEF Hands
<1>9. InHand(delivering', "io") /\ InHand(running', "user")
  BY <1>1, <1>3, <1>4, <1>5 DEF InHand
<1>10. ~(delivering.fn = "call" /\ delivering.sub = t.sub)
  <2>1. delivering.fn = "call" => delivering.sub \in With(o, "io")
    BY <1>4 DEF InHand, Idle
  <2> QED
    BY <1>4, <2>1, Apart
<1>11. Calling(t.sub) /\ ~Calling(t.sub)' /\ \A i : Calling(i)' => Calling(i)
  BY <1>1, <1>2, <1>3, <1>5, <1>10 DEF Calling
<1> QED
  BY <1>1, <1>2, <1>6, <1>8, <1>9, <1>11, BegunAside

(* What both threads do at the end of a delivery.                          *)
LEMMA EndStep ==
    ASSUME IInv, NEW x \in TaskRec, x.fn \in {"called", "stub"}, x.sub # 0, x.msg <= Len(sent),
           NEW t, t = [x EXCEPT !.fn = "deliver"], NEW r, Good(o, x, r, HeldSet), Hands' = r,
           NEW defer \in BOOLEAN, o' = Delivered(o, t, defer),
           UNCHANGED <<env, handles, open, publishing, sent>>,
           InHand(delivering', "io"), InHand(running', "user"),
           \A i : Calling(i)' => Calling(i)
    PROVE  IInv' /\ Calm
<1>1. PICK q, H, d, l : q = o' /\ H = HeldSet /\ d = publishing /\ l = Len(sent)
  OBVIOUS
<1>2. o \in Shape /\ Good(o, x, r, H) /\ Ordered(o, d, l) /\ l \in Nat
  BY <1>1, StateTypes DEF IInv
<1>3. /\ t \in TaskRec /\ t.fn = "deliver" /\ t.sub = x.sub /\ t.msg <= l
      /\ t.fn \in Reactor /\ x.fn \in Reactor /\ t.sub # 0
  BY <1>1 DEF TaskRec, Fn, OwnerFn, Reactor
<1>4. Good(o, t, r, H)
  BY <1>2, <1>3, RenameGood
<1>5. /\ Good(q, Idle, r, H) /\ Keeps(o, q, l)
      /\ q.sub = o.sub /\ q.chan = o.chan /\ q.map = o.map
  <2>1. q = Delivered(o, t, defer) /\ defer \in BOOLEAN
    BY <1>1
  <2> QED
    BY ONLY <1>2, <1>3, <1>4, <2>1, DeliveredStep
<1>6. Ordered(q, d, l)
  <2>1. q \in Shape /\ Follows(o, q, l)
    BY <1>2, <1>5, KeepsFollows DEF Good
  <2>2. /\ \A j \in 1 .. Len(o.io) : Fresh(o.io[j]) => o.io[j].sub \in 1 .. Len(o.sub)
        /\ \A j \in 1 .. Len(o.user) : Fresh(o.user[j]) => o.user[j].sub \in 1 .. Len(o.sub)
    BY <1>2, FreshNamed
  <2> QED
    BY ONLY <1>2, <1>5, <2>1, <2>2, OrderedFollows
<1>7. Others'
  <2>1. InHand(delivering, "io")' /\ InHand(running, "user")'
    BY <1>1, <1>5 DEF InHand, With
  <2> QED
    BY <2>1 DEF IInv, Others
<1>8. \A i \in Subs : SameHolder(o.sub[i], q.sub[i])
  BY <1>5 DEF SameHolder
<1>9. IInv'
  BY <1>1, <1>5, <1>6, <1>7, <1>8, Aside
<1>10. Calm
  BY <1>1, <1>5 DEF Calm, Subs
<1> QED
  BY <1>9, <1>10

LEMMA EndDeliveryStep ==
    ASSUME IInv, EndDelivery
    PROVE  IInv' /\ Calm
<1>1. /\ delivering.fn \in {"called", "stub"} /\ delivering' = Idle
      /\ UNCHANGED <<env, handles, open, running, publishing, sent>>
  BY DEF EndDelivery
<1>2. PICK x, t, r : /\ x = delivering /\ t = [x EXCEPT !.fn = "deliver"]
                     /\ r = [io |-> Idle, user |-> running]
  OBVIOUS
<1>3. PICK defer \in BOOLEAN : o' = Delivered(o, t, defer)
  BY <1>2 DEF EndDelivery
<1>4. /\ x \in TaskRec /\ x.sub # 0 /\ x.msg <= Len(sent) /\ Len(sent) \in Nat
      /\ InHand(running, "user") /\ Good(o, Idle, Hands, HeldSet)
  BY <1>1, <1>2, StateTypes DEF IInv, Others, InHand, Idle, With
<1>5. Good(o, x, r, HeldSet) /\ Hands' = r
  BY <1>1, <1>2, <1>4, SwapIo DEF Hands
<1>6. InHand(delivering', "io") /\ InHand(running', "user")
  BY <1>1, <1>4 DEF InHand, Idle
<1>7. \A i : Calling(i)' => Calling(i)
  BY <1>1 DEF Calling, Idle
<1> QED
  BY <1>1, <1>2, <1>3, <1>4, <1>5, <1>6, <1>7, EndStep

LEMMA UserReturnStep ==
    ASSUME IInv, UserReturn
    PROVE  IInv' /\ Calm
<1>1. /\ running.fn \in {"called", "stub"} /\ running' = Idle
      /\ UNCHANGED <<env, handles, open, delivering, publishing, sent>>
  BY DEF UserReturn
<1>2. PICK x, t, r : /\ x = running /\ t = [x EXCEPT !.fn = "deliver"]
                     /\ r = [io |-> delivering, user |-> Idle]
  OBVIOUS
<1>3. PICK defer \in BOOLEAN : o' = Delivered(o, t, defer)
  BY <1>2 DEF UserReturn
<1>4. /\ x \in TaskRec /\ x.sub # 0 /\ x.msg <= Len(sent) /\ Len(sent) \in Nat
      /\ InHand(delivering, "io") /\ Good(o, Idle, Hands, HeldSet)
  BY <1>1, <1>2, StateTypes DEF IInv, Others, InHand, Idle, With
<1>5. Good(o, x, r, HeldSet) /\ Hands' = r
  BY <1>1, <1>2, <1>4, SwapUser DEF Hands
<1>6. InHand(delivering', "io") /\ InHand(running', "user")
  BY <1>1, <1>4 DEF InHand, Idle
<1>7. \A i : Calling(i)' => Calling(i)
  BY <1>1 DEF Calling, Idle
<1> QED
  BY <1>1, <1>2, <1>3, <1>4, <1>5, <1>6, <1>7, EndStep

LEMMA UserEndedStep ==
    ASSUME IInv, UserEnded
    PROVE  IInv' /\ Calm
<1>1. /\ running = Idle /\ o.user # <<>> /\ Head(o.user).fn = "ended"
      /\ UNCHANGED <<env, handles, open, delivering, running, publishing, sent>>
  BY DEF UserEnded
<1>2. PICK t : t = Head(o.user)
  OBVIOUS
<1>3. PICK c : c = [o EXCEPT !.user = Tail(@)]
  OBVIOUS
<1>4. PICK H, d, l : H = HeldSet /\ d = publishing /\ l = Len(sent)
  OBVIOUS
<1>5. /\ o \in Shape /\ Good(o, Idle, Hands, H) /\ Ordered(o, d, l) /\ l \in Nat
      /\ o.user \in Seq(TaskRec)
  BY <1>1, <1>4, StateTypes, ShapeTypes DEF IInv
<1>6. /\ c \in Shape /\ c.sub = o.sub /\ c.chan = o.chan /\ c.map = o.map
      /\ c.user = Tail(o.user) /\ c.io = o.io
  BY <1>1, <1>3, <1>5, PopUserShape
<1>7. Good(c, t, Hands, H)
  BY <1>1, <1>2, <1>5, <1>6, PopUserGood
<1>8. \A j \in 1 .. Len(o.user) : Fresh(o.user[j]) => o.user[j].sub \in 1 .. Len(o.sub)
  BY <1>5, FreshNamed
<1>9. Ordered(c, d, l)
  BY ONLY <1>1, <1>2, <1>5, <1>6, <1>8, OrderedPopUser
<1>10. t.fn = "ended" /\ t.sub \in 1 .. Len(c.sub)
  <2>1. t = o.user[1] /\ 1 \in 1 .. Len(o.user)
    BY <1>1, <1>2, <1>5, TailBehind
  <2> QED
    BY <1>1, <1>2, <1>5, <1>6, <2>1 DEF Good, Named
<1>11. PICK i \in 1 .. Len(c.sub) : i = t.sub
  BY <1>10
<1>12. PICK q : q = o'
  OBVIOUS
<1>13. q = [c EXCEPT !.sub[i].ended = @ + 1]
  <2>1. q = [o EXCEPT !.user = Tail(@), !.sub[i].ended = @ + 1]
    BY <1>2, <1>11, <1>12 DEF UserEnded
  <2> QED
    BY <1>3, <2>1, Zenon
<1>14. /\ Good(q, Idle, Hands, H) /\ Keeps(c, q, l) /\ q.chan = c.chan /\ q.map = c.map
       /\ \A j \in 1 .. Len(c.sub) : q.sub[j].refs = c.sub[j].refs
  BY <1>5, <1>7, <1>10, <1>11, <1>13, EndedGood
<1>15. Ordered(q, d, l)
  <2>1. q \in Shape /\ Follows(c, q, l)
    BY <1>6, <1>14, KeepsFollows DEF Good
  <2>2. /\ \A j \in 1 .. Len(c.io) : Fresh(c.io[j]) => c.io[j].sub \in 1 .. Len(c.sub)
        /\ \A j \in 1 .. Len(c.user) : Fresh(c.user[j]) => c.user[j].sub \in 1 .. Len(c.sub)
    BY <1>7, FreshNamed
  <2> QED
    BY ONLY <1>6, <1>9, <1>14, <2>1, <2>2, OrderedFollows
<1>16. Len(q.sub) = Len(o.sub) /\ \A j \in Subs : SameSub(o.sub[j], q.sub[j])
  BY <1>6, <1>14 DEF Keeps, Subs
<1>17. \A j \in Subs : /\ o.sub[j].refs > 0 => q.sub[j].refs > 0
                       /\ SameHolder(o.sub[j], q.sub[j]) /\ q.sub[j].late = o.sub[j].late
  BY <1>6, <1>14, <1>16 DEF SameSub, SameHolder, Subs
<1>18. Others'
  BY <1>1, <1>4, <1>5, <1>12, <1>16, <1>17, StateTypes, OthersSame DEF SameHolder, IInv, Others
<1>19. IInv'
  BY <1>1, <1>4, <1>6, <1>12, <1>14, <1>15, <1>16, <1>17, <1>18, HandsSame, Aside
<1>20. Calm
  <2>1. Subs' = Subs
    BY <1>12, <1>16 DEF Subs
  <2> QED
    BY <1>1, <1>12, <1>17, <2>1, CalmSame DEF SameHolder
<1> QED
  BY <1>19, <1>20

(* The next of a channel's subscribers gets its delivery and a reference.  *)
LEMMA NextSubscriberStep ==
    ASSUME IInv, NextSubscriber
    PROVE  IInv' /\ Calm
<1>1. UNCHANGED <<env, handles, open, delivering, running, sent>>
  BY DEF NextSubscriber
<1>2. PICK i \in publishing.list :
          /\ o' = Deliver(o, i, publishing.msg)
          /\ Distribute(publishing.msg, publishing.keys, publishing.list \ {i})
  BY DEF NextSubscriber
<1>3. PICK m, ks, list : /\ m = publishing.msg /\ ks = publishing.keys
                         /\ list = publishing.list \ {i}
  OBVIOUS
<1>4. PICK H, d, e, l : H = HeldSet /\ d = publishing /\ e = publishing' /\ l = Len(sent)
  OBVIOUS
<1>5. /\ o \in Shape /\ Good(o, Idle, Hands, H) /\ Ordered(o, d, l) /\ l \in Nat
      /\ Len(o.sub) \in Nat /\ Linked(o, 0)
  BY <1>4, StateTypes DEF IInv, Good
<1>6. /\ m \in 1 .. l /\ ks \subseteq Keys /\ list \subseteq Nat
      /\ \A k \in ks : o.map[k] # 0
      /\ \A j \in publishing.list : j \in Subs /\ o.sub[j].refs > 0 /\ o.sub[j].key \notin ks
  <2>1. Distributing /\ publishing.list # {} /\ Done.list = {}
    BY StateTypes DEF IInv
  <2>2. m \in 0 .. l /\ m # 0
    BY <1>3, <1>4, <2>1 DEF Distributing
  <2> QED
    BY <1>3, <1>5, <2>1, <2>2 DEF Distributing
<1>7. i \in 1 .. Len(o.sub) /\ o.sub[i].refs > 0 /\ o.sub[i] \in SubRec /\ i \in Nat
  BY <1>5, <1>6, StateTypes DEF Subs
<1>8. Distribute(m, ks, list)
  BY <1>2, <1>3
<1>9. Due(o, d, i) /\ (e.msg # 0 => e.msg = m /\ ~Due(o, e, i))
  <2>1. Due(o, d, i)
    BY <1>4 DEF Due
  <2>2. ASSUME e.msg # 0
        PROVE  e.msg = m /\ ~Due(o, e, i)
    <3>1. e.msg = m /\ e.keys = ks /\ e.list = list
      BY <1>4, <1>8, <2>2, DistributeForm, StateTypes
    <3>2. ASSUME NEW k \in ks, i \in o.chan[o.map[k]].list
          PROVE  FALSE
      <4>1. PICK c : c = o.map[k]
        OBVIOUS
      <4>2. k \in Keys /\ c # 0 /\ MapLinked(o, k)
        BY <1>5, <1>6, <4>1 DEF Linked
      <4>3. c \in 1 .. Len(o.chan) /\ o.chan[c].key = k
        BY <4>1, <4>2 DEF MapLinked
      <4>4. ChanLinked(o, 0, c) /\ SubLinked(o, i)
        BY <1>5, <1>7, <4>3 DEF Linked
      <4>5. o.sub[i].chan = c
        BY <3>2, <4>1, <4>4 DEF ChanLinked, Users
      <4>6. o.sub[i].key = k
        BY <4>2, <4>3, <4>4, <4>5 DEF SubLinked
      <4> QED
        BY <1>6, <4>6
    <3> QED
      BY <1>3, <3>1, <3>2 DEF Due
  <2> QED
    BY <2>1, <2>2
<1>10. Ordered(o, e, l) /\ (e.msg = 0 \/ e.msg = d.msg)
  <2>1. CASE e = Done
    BY <1>5, <2>1, StateTypes, OrderedLess
  <2>2. CASE e # Done
    <3>1. e.msg = d.msg /\ e.keys = ks /\ e.list = list
      BY <1>3, <1>4, <1>8, <2>2, DistributeForm
    <3>2. \A j : Due(o, e, j) => Due(o, d, j)
      BY <1>3, <1>4, <3>1 DEF Due
    <3> QED
      BY <1>5, <3>1, <3>2, OrderedLess
  <2> QED
    BY <2>1, <2>2
<1>11. PICK q : q = o'
  OBVIOUS
<1>12. /\ Good(q, Idle, Hands, H) /\ Ordered(q, e, l) /\ Len(q.sub) = Len(o.sub)
       /\ q.map = o.map /\ \A j \in 1 .. Len(o.sub) : SameSub(o.sub[j], q.sub[j])
       /\ \A j \in 1 .. Len(o.sub) : o.sub[j].refs > 0 => q.sub[j].refs > 0
  <2>1. CASE sent[m].from # Global /\ o.sub[i].owner = sent[m].from
    <3>1. q = o
      BY <1>2, <1>3, <1>11, <2>1 DEF Deliver
    <3> QED
      BY <1>5, <1>10, <3>1 DEF SameSub
  <2>2. CASE ~(sent[m].from # Global /\ o.sub[i].owner = sent[m].from)
    <3>1. PICK t : t = [fn |-> "deliver", sub |-> i, msg |-> m, again |-> FALSE]
      OBVIOUS
    <3>2. t \in TaskRec /\ t.fn = "deliver" /\ t.sub = i /\ t.msg = m
      BY <1>6, <1>7, <3>1 DEF TaskRec, Fn, OwnerFn
    <3>3. PICK name \in {"io", "user"} : name = o.sub[i].queue
      BY <1>7 DEF SubRec
    <3>4. q = Push(Raise(o, i), name, t)
      BY <1>2, <1>3, <1>11, <2>2, <3>1, <3>3 DEF Deliver, Raise
    <3>5. /\ Good(q, Idle, Hands, H)
          /\ q.chan = o.chan /\ q.map = o.map /\ Len(q.sub) = Len(o.sub)
          /\ \A j \in 1 .. Len(o.sub) : j # i => q.sub[j] = o.sub[j]
          /\ SameSub(o.sub[i], q.sub[i]) /\ q.sub[i].refs > 0
          /\ q.io = (IF name = "io" THEN Append(o.io, t) ELSE o.io)
          /\ q.user = (IF name = "io" THEN o.user ELSE Append(o.user, t))
      BY <1>5, <1>7, <3>2, <3>3, <3>4, RaiseGood
    <3>6. /\ \A j \in 1 .. Len(o.sub) : SameSub(o.sub[j], q.sub[j])
          /\ \A j \in 1 .. Len(o.sub) : SameWho(o.sub[j], q.sub[j])
          /\ \A j \in 1 .. Len(o.sub) : o.sub[j].refs > 0 => q.sub[j].refs > 0
      BY <3>5 DEF SameSub, SameWho
    <3>7. /\ \A j \in 1 .. Len(o.io) : Fresh(o.io[j]) => o.io[j].sub \in 1 .. Len(o.sub)
          /\ \A j \in 1 .. Len(o.user) : Fresh(o.user[j]) => o.user[j].sub \in 1 .. Len(o.sub)
      BY <1>5, FreshNamed
    <3>8. Ordered(q, e, l)
      <4>1. /\ d.msg \in 1 .. l /\ t.msg = d.msg /\ q \in Shape
            /\ (e.msg = 0 \/ e.msg = d.msg) /\ (e.msg # 0 => ~Due(o, e, i))
        BY <1>3, <1>4, <1>6, <1>9, <1>10, <3>2, <3>5 DEF Good
      <4>2. name \in {"io", "user"}
        OBVIOUS
      <4>3. Handed(o, q, d, i, t, name)
        BY <3>2, <3>3, <3>5, <3>6, <3>7, <4>1, <4>2 DEF Handed
      <4>4. /\ o \in Shape /\ l \in Nat /\ d.msg \in 1 .. l /\ Ordered(o, e, l)
            /\ Ordered(o, d, l) /\ Due(o, d, i) /\ i \in 1 .. Len(o.sub)
        BY <1>5, <1>7, <1>9, <1>10, <4>1
      <4> QED
        BY ONLY <4>1, <4>3, <4>4, OrderedDeliver
    <3> QED
      BY <3>5, <3>6, <3>8
  <2> QED
    BY <2>1, <2>2
<1>13. /\ \A j \in Subs : SameHolder(o.sub[j], q.sub[j])
       /\ \A j \in Subs : q.sub[j].late = o.sub[j].late
  BY <1>12 DEF SameSub, SameHolder, Subs
<1>14. Owned' /\ HeldSet' = HeldSet
  BY <1>1, <1>11, <1>12, <1>13, OwnedSame
<1>15. Distributing'
  <2>1. \A j \in list : j \in Subs' /\ o'.sub[j].refs > 0 /\ o'.sub[j].key \notin ks
    <3>1. Subs' = Subs
      BY <1>11, <1>12 DEF Subs
    <3> QED
      BY <1>3, <1>6, <1>11, <1>12, <1>13, <3>1 DEF SameHolder, Subs
  <2>2. \A k \in ks : o'.map[k] # 0
    BY <1>6, <1>11, <1>12
  <2> QED
    BY <1>1, <1>4, <1>5, <1>6, <1>8, <2>1, <2>2, DistributingNext
<1>16. Good(o', Idle, Hands', HeldSet') /\ Ordered(o', publishing', Len(sent)')
  BY <1>1, <1>4, <1>11, <1>12, <1>14, HandsSame
<1>17. Others'
  BY <1>1, <1>4, <1>5, <1>11, <1>12, <1>13, OthersSame DEF SameHolder, IInv, Others
<1>18. Calm
  <2>1. Subs' = Subs
    BY <1>11, <1>12 DEF Subs
  <2> QED
    BY <1>1, <1>11, <1>13, <2>1, CalmSame DEF SameHolder
<1> QED
  BY <1>14, <1>15, <1>16, <1>17, <1>18 DEF IInv

LEMMA CloseIoStep ==
    ASSUME IInv, NEW w \in Ios, CloseIo(w)
    PROVE  IInv' /\ Calm
<1>1. UNCHANGED <<o, env, handles, delivering, running, publishing, sent>> /\ open' = open \ {w}
  BY DEF CloseIo
<1>2. Owned' /\ HeldSet' = HeldSet /\ Calm /\ Hands' = Hands
  BY <1>1, SubsSame
<1>3. Good(o', Idle, Hands', HeldSet') /\ Ordered(o', publishing', Len(sent)')
  BY <1>1, <1>2 DEF IInv
<1>4. Distributing' /\ Others'
  BY <1>1 DEF IInv, Distributing, Subs, Others, InHand, With
<1> QED
  BY <1>2, <1>3, <1>4 DEF IInv

LEMMA PublishStep ==
    ASSUME IInv, NEW n \in Names, NEW from \in Owners, Publish(n, from)
    PROVE  IInv' /\ Calm
<1>1. /\ UNCHANGED <<env, handles, open, delivering, running, publishing>>
      /\ sent' = Append(sent, [name |-> n, from |-> from])
      /\ o' = Push(o, "io", [Task("publish", 0) EXCEPT !.msg = Len(sent) + 1])
  BY DEF Publish
<1>2. PICK H, d, l : H = HeldSet /\ d = publishing /\ l = Len(sent)
  OBVIOUS
<1>3. /\ o \in Shape /\ Good(o, Idle, Hands, H) /\ Ordered(o, d, l) /\ l \in Nat
      /\ Len(o.sub) \in Nat /\ d.msg \in Nat /\ d.msg <= l
  <2>1. d.msg \in 0 .. l
    BY <1>2 DEF IInv, Distributing
  <2>2. o \in Shape /\ Good(o, Idle, Hands, H) /\ Ordered(o, d, l) /\ l \in Nat
    BY <1>2, StateTypes DEF IInv
  <2> QED
    BY <2>1, <2>2, StateTypes
<1>4. PICK t : t = [Task("publish", 0) EXCEPT !.msg = l + 1]
  OBVIOUS
<1>5. t \in TaskRec /\ t.fn = "publish" /\ t.sub = 0 /\ t.msg = l + 1
  <2>1. t = [fn |-> "publish", sub |-> 0, msg |-> l + 1, again |-> FALSE]
    BY <1>4 DEF Task
  <2>2. l + 1 \in Nat /\ "publish" \in Fn
    BY <1>3 DEF Fn
  <2> QED
    BY <2>1, <2>2 DEF TaskRec
<1>6. PICK q, name : q = o' /\ name = "io"
  OBVIOUS
<1>7. q = Push(o, name, t)
  BY <1>1, <1>2, <1>4, <1>6
<1>8. /\ q \in Shape /\ q.sub = o.sub /\ q.chan = o.chan /\ q.map = o.map
      /\ q.io = Append(o.io, t) /\ q.user = o.user
      /\ \A F, i : Queued(q, F, i) = Queued(o, F, i) + Tally(t, F, i)
  <2>1. o \in Shape /\ t \in TaskRec
    BY <1>3, <1>5
  <2>2. /\ q \in Shape /\ q.sub = o.sub /\ q.chan = o.chan /\ q.map = o.map
        /\ q.io = (IF name = "io" THEN Append(o.io, t) ELSE o.io)
        /\ q.user = (IF name = "io" THEN o.user ELSE Append(o.user, t))
        /\ \A F, i : Queued(q, F, i) = Queued(o, F, i) + Tally(t, F, i)
    BY ONLY <1>7, <2>1, PushShape
  <2> QED
    BY <1>6, <2>2
<1>9. Good(q, Idle, Hands, H)
  <2>1. /\ Named(o, Idle, Hands) /\ Counted(o, Idle, Hands, H) /\ Linked(o, 0)
        /\ o.io \in Seq(TaskRec)
    BY <1>3, ShapeTypes DEF Good
  <2>2. \A i : /\ Tally(t, OwnerFn, i) = 0 /\ Tally(t, SubscribeFn, i) = 0
               /\ Tally(t, EndedFn, i) = 0
    BY <1>5 DEF Tally, Is, OwnerFn, SubscribeFn, EndedFn
  <2>3. \A F, i : Queued(o, F, i) \in Nat
    BY <1>3, TotalType
  <2>4. ASSUME NEW i
        PROVE  /\ Queued(q, OwnerFn, i) = Queued(o, OwnerFn, i)
               /\ Queued(q, SubscribeFn, i) = Queued(o, SubscribeFn, i)
               /\ Queued(q, EndedFn, i) = Queued(o, EndedFn, i)
    BY <1>8, <2>2, <2>3
  <2>5. Counted(q, Idle, Hands, H)
    BY <1>8, <2>1, <2>4, CountedSame DEF Total
  <2>6. Linked(q, 0)
    BY <1>8, <2>1, LinkedSame
  <2>7. PICK s : s = q.io
    OBVIOUS
  <2>8. /\ Len(o.io) \in Nat /\ Len(s) = Len(o.io) + 1 /\ s[Len(o.io) + 1] = t
        /\ \A j \in 1 .. Len(o.io) : s[j] = o.io[j]
    BY <1>5, <1>8, <2>1, <2>7, CountAppend
  <2>9. \A j \in 1 .. Len(s) : j \in 1 .. Len(o.io) \/ j = Len(o.io) + 1
    BY <2>8
  <2>10. Named(q, Idle, Hands)
    <3>1. \A j \in 1 .. Len(s) :
              /\ s[j].sub \in 0 .. Len(o.sub)
              /\ s[j].fn # "publish" => s[j].sub # 0
              /\ s[j].fn \notin {"idle", "call", "called", "stub"}
      <4>1. \A j \in 1 .. Len(o.io) :
                /\ o.io[j].sub \in 0 .. Len(o.sub)
                /\ o.io[j].fn # "publish" => o.io[j].sub # 0
                /\ o.io[j].fn \notin {"idle", "call", "called", "stub"}
        BY <2>1 DEF Named
      <4>2. t.sub \in 0 .. Len(o.sub) /\ t.fn \notin {"idle", "call", "called", "stub"}
        BY <1>3, <1>5
      <4> QED
        BY <1>5, <2>8, <2>9, <4>1, <4>2
    <3> QED
      BY <1>8, <2>1, <2>7, <3>1 DEF Named
  <2> QED
    BY <1>8, <2>5, <2>6, <2>10 DEF Good
<1>10. Ordered(q, d, l + 1)
  BY <1>3, <1>5, <1>8, OrderedPublish
<1>11. /\ sent' \in Seq([name : Names, from : Owners]) /\ Len(sent') = l + 1
  <2>1. [name |-> n, from |-> from] \in [name : Names, from : Owners]
    OBVIOUS
  <2> QED
    BY <1>1, <1>2, <2>1, AppendProperties DEF IInv, Others
<1>12. Owned' /\ HeldSet' = HeldSet /\ Calm /\ Hands' = Hands
  BY <1>1, <1>6, <1>8, SubsSame
<1>13. Distributing'
  <2>1. Len(sent') \in Nat /\ Len(sent) <= Len(sent')
    BY <1>2, <1>3, <1>11
  <2>2. o'.map = o.map /\ Len(o'.sub) \in Nat /\ Len(o.sub) <= Len(o'.sub) /\ o'.sub = o.sub
    BY <1>3, <1>6, <1>8
  <2> QED
    BY <1>1, <2>1, <2>2, DistributingSame
<1>14. Others'
  <2>1. Len(sent) <= Len(sent') /\ o'.sub = o.sub /\ open' \subseteq Ios
    BY <1>1, <1>2, <1>3, <1>6, <1>8, <1>11 DEF IInv, Others
  <2> QED
    BY <1>1, <1>3, <1>11, <2>1, OthersSame
<1>15. Good(o', Idle, Hands', HeldSet') /\ Ordered(o', publishing', Len(sent'))
  BY <1>1, <1>2, <1>6, <1>9, <1>10, <1>11, <1>12
<1> QED
  BY <1>12, <1>13, <1>14, <1>15 DEF IInv

(* What an environment holds, it holds under one key only.                 *)
LEMMA EnvHolds ==
    ASSUME IInv, NEW w \in Owners, NEW k \in Keys, env[w][k] # 0
    PROVE  /\ env[w][k] \in HeldSet /\ env[w][k] \in Subs /\ env[w][k] \notin handles
           /\ \A v \in Owners, x \in Keys : env[v][x] = env[w][k] => v = w /\ x = k
BY DEF IInv, Owned, HeldSet, Held

(* One entry of the environments is written.                               *)
EnvGets(w, k, n) == env' = [env EXCEPT ![w][k] = n]
EnvHas(w, k, n) ==
    /\ env' \in [Owners -> [Keys -> Nat]] /\ env'[w][k] = n
    /\ \A v \in Owners, x \in Keys : ~(v = w /\ x = k) => env'[v][x] = env[v][x]

LEMMA EnvSet ==
    ASSUME IInv, NEW w \in Owners, NEW k \in Keys, NEW n \in Nat, EnvGets(w, k, n)
    PROVE  EnvHas(w, k, n)
<1>1. env \in [Owners -> [Keys -> Nat]]
  BY DEF IInv, Owned
<1>2. PICK f \in [Keys -> Nat] : f = [env[w] EXCEPT ![k] = n]
  BY <1>1
<1>3. env' = [env EXCEPT ![w] = f]
  BY <1>2 DEF EnvGets
<1> QED
  BY <1>1, <1>2, <1>3 DEF EnvHas

(* A call of the API: the tasks it pushes are not for the messages, and    *)
(* the channels stay as they are.                                          *)
LEMMA Called ==
    ASSUME IInv, Good(o', Idle, Hands, HeldSet'), Follows(o, o', Len(sent)),
           o'.chan = o.chan, o'.map = o.map,
           \A i \in Subs : o.sub[i].refs > 0 => o'.sub[i].refs > 0,
           Owned', UNCHANGED <<open, delivering, running, publishing, sent>>
    PROVE  IInv' /\ Calm
<1>1. /\ o \in Shape /\ o' \in Shape /\ Good(o, Idle, Hands, HeldSet)
      /\ Ordered(o, publishing, Len(sent)) /\ Len(sent) \in Nat /\ Len(o'.sub) \in Nat
  BY StateTypes, ShapeTypes DEF IInv, Good
<1>2. /\ \A j \in 1 .. Len(o.io) : Fresh(o.io[j]) => o.io[j].sub \in 1 .. Len(o.sub)
      /\ \A j \in 1 .. Len(o.user) : Fresh(o.user[j]) => o.user[j].sub \in 1 .. Len(o.sub)
  BY <1>1, FreshNamed
<1>3. Ordered(o', publishing, Len(sent))
  <2>1. PICK q, d, l : q = o' /\ d = publishing /\ l = Len(sent)
    OBVIOUS
  <2>2. /\ o \in Shape /\ q \in Shape /\ Ordered(o, d, l) /\ Follows(o, q, l)
        /\ q.chan = o.chan /\ q.map = o.map
    BY <1>1, <2>1
  <2>3. Ordered(q, d, l)
    BY ONLY <1>2, <2>2, OrderedFollows
  <2> QED
    BY <2>1, <2>3
<1>4. Len(o.sub) <= Len(o'.sub) /\ \A i \in Subs : SameWho(o.sub[i], o'.sub[i])
  BY DEF Follows, Subs
<1>5. Distributing'
  BY <1>1, <1>4, DistributingSame DEF SameWho
<1>6. Others'
  <2>1. Len(o.sub) \in Nat /\ Len(sent) <= Len(sent')
    BY <1>1, StateTypes
  <2> QED
    BY <1>1, <1>4, <2>1, OthersSame DEF SameWho, IInv, Others
<1>7. Calm
  <2>1. \A i \in Subs' \ Subs : o'.sub[i].late = 0
    <3>1. \A i \in Subs' \ Subs : i \in Len(o.sub) + 1 .. Len(o'.sub)
      BY <1>1, StateTypes DEF Subs
    <3> QED
      BY <3>1 DEF Follows
  <2> QED
    BY <1>4, <2>1, CalmSame DEF SameWho
<1> QED
  BY <1>3, <1>5, <1>6, <1>7, HandsSame DEF IInv

(* The holder of a subscription gives it up.                               *)
LEMMA Cancelled ==
    ASSUME IInv, NEW i \in HeldSet, o' = EnvUnsubscribe(o, i),
           env' \in [Owners -> [Keys -> Nat]], handles' \subseteq handles,
           \A w \in Owners, k \in Keys : env'[w][k] # 0 => env'[w][k] = env[w][k],
           \A j \in Subs : Held(j)' <=> Held(j) /\ j # i,
           UNCHANGED <<open, delivering, running, publishing, sent>>
    PROVE  IInv' /\ Calm
<1>1. PICK q, H, l : q = o' /\ H = HeldSet /\ l = Len(sent)
  OBVIOUS
<1>2. /\ Good(o, Idle, Hands, H) /\ l \in Nat /\ i \in 1 .. Len(o.sub) /\ i \in H
      /\ q = EnvUnsubscribe(o, i)
  BY <1>1, StateTypes DEF IInv, HeldSet, Subs
<1>0. /\ Good(q, Idle, Hands, H \ {i}) /\ Follows(o, q, l) /\ CancelOnly(o, q, i)
  BY ONLY <1>2, CancelGood
<1>3. /\ Good(q, Idle, Hands, H \ {i}) /\ Follows(o, q, l)
      /\ q.chan = o.chan /\ q.map = o.map /\ Len(q.sub) = Len(o.sub)
      /\ \A j \in 1 .. Len(o.sub) : j # i => q.sub[j] = o.sub[j]
      /\ q.sub[i].refs = o.sub[i].refs /\ SameWho(o.sub[i], q.sub[i])
      /\ q.sub[i].cancelled = TRUE /\ q.sub[i].live = FALSE
  BY <1>0 DEF CancelOnly
<1>4. Subs' = Subs
  BY <1>1, <1>3 DEF Subs
<1>5. HeldSet' = H \ {i}
  BY <1>1, <1>4 DEF HeldSet
<1>6. Owned'
  <2>1. Owned
    BY DEF IInv
  <2>2. \A j \in Subs : SameWho(o.sub[j], q.sub[j])
    BY <1>3 DEF SameWho, Subs
  <2>3. \A w \in Owners, k \in Keys : env'[w][k] # 0 =>
            /\ env'[w][k] \in Subs' /\ env'[w][k] \notin handles'
            /\ o'.sub[env'[w][k]].owner = w /\ o'.sub[env'[w][k]].key = k
    <3>1. ASSUME NEW w \in Owners, NEW k \in Keys, env'[w][k] # 0
          PROVE  /\ env'[w][k] \in Subs' /\ env'[w][k] \notin handles'
                 /\ o'.sub[env'[w][k]].owner = w /\ o'.sub[env'[w][k]].key = k
      <4>1. PICK j : j = env[w][k]
        OBVIOUS
      <4>2. env'[w][k] = j /\ j # 0
        BY <3>1, <4>1
      <4>3. j \in Subs /\ j \notin handles /\ o.sub[j].owner = w /\ o.sub[j].key = k
        BY <2>1, <4>1, <4>2 DEF Owned
      <4>4. q.sub[j].owner = w /\ q.sub[j].key = k
        BY <2>2, <4>3 DEF SameWho
      <4> QED
        BY <1>1, <1>4, <4>2, <4>3, <4>4
    <3> QED
      BY <3>1
  <2>4. \A j \in Subs' :
            (o'.sub[j].cancelled <=> ~Held(j)') /\ (o'.sub[j].cancelled => ~o'.sub[j].live)
    <3>1. ASSUME NEW j \in Subs
          PROVE  (q.sub[j].cancelled <=> ~Held(j)') /\ (q.sub[j].cancelled => ~q.sub[j].live)
      <4>1. CASE j = i
        BY <1>3, <4>1
      <4>2. CASE j # i
        BY <1>3, <2>1, <4>2 DEF Owned, Subs
      <4> QED
        BY <4>1, <4>2
    <3> QED
      BY <1>1, <1>4, <3>1
  <2>5. handles' \subseteq Subs'
    BY <1>4, <2>1 DEF Owned
  <2> QED
    BY <2>3, <2>4, <2>5 DEF Owned
<1>7. \A j \in Subs : o.sub[j].refs > 0 => q.sub[j].refs > 0
  BY <1>3 DEF Subs
<1> QED
  BY <1>1, <1>3, <1>5, <1>6, <1>7, Called

(* An entry of an environment is removed.                                  *)
LEMMA EntryStep ==
    ASSUME IInv, NEW w \in Owners, NEW k \in Keys, env[w][k] # 0,
           o' = EnvUnsubscribe(o, env[w][k]), env' = [env EXCEPT ![w][k] = 0],
           UNCHANGED <<handles, open, delivering, running, publishing, sent>>
    PROVE  IInv' /\ Calm
<1>1. PICK i : i = env[w][k]
  OBVIOUS
<1>2. /\ i \in HeldSet /\ i # 0 /\ i \notin handles
      /\ \A v \in Owners, x \in Keys : env[v][x] = i => v = w /\ x = k
  BY <1>1, EnvHolds
<1>3. /\ env' \in [Owners -> [Keys -> Nat]] /\ env'[w][k] = 0
      /\ \A v \in Owners, x \in Keys : ~(v = w /\ x = k) => env'[v][x] = env[v][x]
  <2>1. EnvGets(w, k, 0) /\ 0 \in Nat
    BY DEF EnvGets
  <2>2. EnvHas(w, k, 0)
    BY <2>1, EnvSet
  <2> QED
    BY <2>2 DEF EnvHas
<1>4. \A j \in Subs : Held(j)' <=> Held(j) /\ j # i
  <2>1. ASSUME NEW j \in Subs
        PROVE  Held(j)' <=> Held(j) /\ j # i
    <3>1. j # 0
      BY DEF Subs
    <3> QED
      BY <1>1, <1>2, <1>3, <3>1 DEF Held
  <2> QED
    BY <2>1
<1>5. \A v \in Owners, x \in Keys : env'[v][x] # 0 => env'[v][x] = env[v][x]
  BY <1>3
<1> QED
  BY <1>1, <1>2, <1>3, <1>4, <1>5, Cancelled

LEMMA UnsubscribeStep ==
    ASSUME IInv, NEW w \in Owners, NEW k \in Keys, Unsubscribe(w, k)
    PROVE  IInv' /\ Calm
BY EntryStep DEF Unsubscribe

LEMMA CloseEntryStep ==
    ASSUME IInv, NEW w \in Ios, NEW k \in Keys, CloseEntry(w, k)
    PROVE  IInv' /\ Calm
BY EntryStep DEF CloseEntry, Owners

LEMMA UnsubscribeHandleStep ==
    ASSUME IInv, NEW i \in handles, UnsubscribeHandle(i)
    PROVE  IInv' /\ Calm
<1>1. /\ o' = EnvUnsubscribe(o, i) /\ handles' = handles \ {i}
      /\ UNCHANGED <<env, open, delivering, running, publishing, sent>>
  BY DEF UnsubscribeHandle
<1>2. Owned
  BY DEF IInv
<1>3. i \in HeldSet
  BY <1>2 DEF Owned, HeldSet, Held
<1>4. \A w \in Owners, k \in Keys : env[w][k] # 0 => env[w][k] \notin handles
  BY <1>2 DEF Owned
<1>5. i # 0
  BY <1>3 DEF HeldSet, Subs
<1>6. \A j \in Subs : Held(j)' <=> Held(j) /\ j # i
  BY <1>1, <1>4, <1>5 DEF Held
<1>7. env' \in [Owners -> [Keys -> Nat]] /\ handles' \subseteq handles
  BY <1>1, <1>2 DEF Owned
<1> QED
  BY <1>1, <1>3, <1>6, <1>7, Cancelled
(* A new subscription, which whoever subscribes holds.                     *)
NewSubOK(c, n, k, w) ==
    /\ n \in Nat /\ n \notin Subs /\ n # 0 /\ 1 .. n = Subs \cup {n}
    /\ Good(c, Idle, Hands, HeldSet \cup {n}) /\ Follows(o, c, Len(sent))
    /\ c.chan = o.chan /\ c.map = o.map /\ Len(c.sub) = n
    /\ c.sub[n].owner = w /\ c.sub[n].key = k /\ c.sub[n].cancelled = FALSE
    /\ \A j \in Subs : c.sub[j] = o.sub[j]

LEMMA NewSub ==
    ASSUME IInv, NEW k \in Keys, NEW w \in Owners, NEW n, n = Len(o.sub) + 1,
           NEW c, c = Subscribed(k, w)
    PROVE  NewSubOK(c, n, k, w)
<1>1. PICK a : a = New(k, w)
  OBVIOUS
<1>2. a = [refs |-> 2, key |-> k, owner |-> w, queue |-> QueueOf[w], chan |-> 0, live |-> TRUE,
           cancelled |-> FALSE, heard |-> <<>>, ended |-> 0, late |-> 0]
  BY <1>1 DEF New
<1>3. QueueOf[w] \in {"io", "user"} /\ <<>> \in Seq(Nat)
  BY PubSubAssumption, EmptySeq
<1>4. /\ a \in SubRec /\ a.refs = 2 /\ a.chan = 0 /\ a.ended = 0 /\ a.heard = <<>>
      /\ a.owner = w /\ a.key = k /\ a.cancelled = FALSE /\ a.late = 0
  BY <1>2, <1>3 DEF SubRec
<1>5. PICK H, l : H = HeldSet /\ l = Len(sent)
  OBVIOUS
<1>6. Good(o, Idle, Hands, H) /\ l \in Nat /\ Len(o.sub) \in Nat
  BY <1>5, StateTypes DEF IInv
<1>7. c = Enlist(o, a, n) /\ a \in SubRec /\ Unused(o, a, n)
  BY <1>1, <1>4 DEF Subscribed, AddSub, Enlist, Unused
<1>8. Good(c, Idle, Hands, H \cup {n}) /\ Follows(o, c, l) /\ AddOnly(o, c, a, n)
  BY ONLY <1>6, <1>7, SubscribedGood
<1>9. n \in Nat /\ n \notin Subs /\ n # 0 /\ 1 .. n = Subs \cup {n}
  BY <1>6 DEF Subs
<1> QED
  BY <1>4, <1>5, <1>8, <1>9 DEF Subs, NewSubOK, AddOnly

LEMMA SubscribeHandleStep ==
    ASSUME IInv, NEW k \in Keys, SubscribeHandle(k)
    PROVE  IInv' /\ Calm
<1>1. /\ o' = Subscribed(k, Global) /\ handles' = handles \cup {Len(o.sub) + 1}
      /\ UNCHANGED <<env, open, delivering, running, publishing, sent>>
  BY DEF SubscribeHandle
<1>2. PICK n, q : n = Len(o.sub) + 1 /\ q = o'
  OBVIOUS
<1>3. Global \in Owners
  BY DEF Owners
<1>4. /\ n \in Nat /\ n \notin Subs /\ n # 0 /\ 1 .. n = Subs \cup {n}
      /\ Good(q, Idle, Hands, HeldSet \cup {n}) /\ Follows(o, q, Len(sent))
      /\ q.chan = o.chan /\ q.map = o.map /\ Len(q.sub) = n /\ q.sub[n].cancelled = FALSE
      /\ \A j \in Subs : q.sub[j] = o.sub[j]
  <2>1. PICK w \in Owners : w = Global
    BY <1>3
  <2>2. IInv /\ k \in Keys /\ w \in Owners /\ n = Len(o.sub) + 1 /\ q = Subscribed(k, w)
    BY <1>1, <1>2, <2>1
  <2>3. NewSubOK(q, n, k, w)
    BY ONLY <2>2, NewSub
  <2> QED
    BY <2>3 DEF NewSubOK
<1>5. Subs' = Subs \cup {n}
  BY <1>2, <1>4 DEF Subs
<1>6. Owned
  BY DEF IInv
<1>7. \A j \in Subs' : Held(j)' <=> Held(j) \/ j = n
  BY <1>1, <1>2 DEF Held
<1>8. HeldSet' = HeldSet \cup {n}
  BY <1>5, <1>7 DEF HeldSet
<1>9. Owned'
  <2>1. \A v \in Owners, x \in Keys : env'[v][x] # 0 =>
            /\ env'[v][x] \in Subs' /\ env'[v][x] \notin handles'
            /\ o'.sub[env'[v][x]].owner = v /\ o'.sub[env'[v][x]].key = x
    BY <1>1, <1>2, <1>4, <1>5, <1>6 DEF Owned
  <2>2. \A j \in Subs' :
            (o'.sub[j].cancelled <=> ~Held(j)') /\ (o'.sub[j].cancelled => ~o'.sub[j].live)
    BY <1>2, <1>4, <1>5, <1>6, <1>7 DEF Owned
  <2>3. env' \in [Owners -> [Keys -> Nat]] /\ handles' \subseteq Subs'
    BY <1>1, <1>2, <1>5, <1>6 DEF Owned
  <2> QED
    BY <2>1, <2>2, <2>3 DEF Owned
<1> QED
  BY <1>1, <1>2, <1>4, <1>8, <1>9, Called

(* The owner holds the new one, and what it held under the same key is     *)
(* cancelled.                                                              *)
LEMMA SubscribeStep ==
    ASSUME IInv, NEW w \in Owners, NEW k \in Keys, Subscribe(w, k)
    PROVE  IInv' /\ Calm
<1>1. PICK n, q, i, c, l : /\ n = Len(o.sub) + 1 /\ q = o' /\ i = env[w][k]
                           /\ c = Subscribed(k, w) /\ l = Len(sent)
  OBVIOUS
<1>2. /\ q = EnvUnsubscribe(c, i) /\ env' = [env EXCEPT ![w][k] = n]
      /\ UNCHANGED <<handles, open, delivering, running, publishing, sent>>
  BY <1>1 DEF Subscribe
<1>3. /\ n \in Nat /\ n \notin Subs /\ n # 0 /\ 1 .. n = Subs \cup {n}
      /\ Good(c, Idle, Hands, HeldSet \cup {n}) /\ Follows(o, c, l)
      /\ c.chan = o.chan /\ c.map = o.map /\ Len(c.sub) = n
      /\ c.sub[n].owner = w /\ c.sub[n].key = k /\ c.sub[n].cancelled = FALSE
      /\ \A j \in Subs : c.sub[j] = o.sub[j]
  <2>1. IInv /\ k \in Keys /\ w \in Owners /\ n = Len(o.sub) + 1 /\ c = Subscribed(k, w)
    BY <1>1
  <2>2. NewSubOK(c, n, k, w)
    BY ONLY <2>1, NewSub
  <2> QED
    BY <1>1, <2>2 DEF NewSubOK
<1>4. /\ env' \in [Owners -> [Keys -> Nat]] /\ env'[w][k] = n
      /\ \A v \in Owners, x \in Keys : ~(v = w /\ x = k) => env'[v][x] = env[v][x]
  <2>1. EnvGets(w, k, n) /\ n \in Nat
    BY <1>2, <1>3 DEF EnvGets
  <2>2. EnvHas(w, k, n)
    BY <2>1, EnvSet
  <2> QED
    BY <2>2 DEF EnvHas
<1>5. Owned /\ o \in Shape /\ c \in Shape /\ l \in Nat
  BY <1>1, <1>3, StateTypes DEF IInv, Good
<1>6. i # 0 => /\ i \in Subs /\ i \in HeldSet /\ i \notin handles
               /\ \A v \in Owners, x \in Keys : env[v][x] = i => v = w /\ x = k
  <2>1. IInv /\ k \in Keys /\ w \in Owners /\ i = env[w][k]
    BY <1>1
  <2> QED
    BY ONLY <2>1, EnvHolds
<1>7. i # n
  BY <1>3, <1>6
<1>8. /\ Good(q, Idle, Hands, (HeldSet \cup {n}) \ {i}) /\ Follows(o, q, l)
      /\ q.chan = o.chan /\ q.map = o.map /\ Len(q.sub) = n
      /\ \A j \in 1 .. n : SameWho(c.sub[j], q.sub[j]) /\ q.sub[j].refs = c.sub[j].refs
      /\ \A j \in 1 .. n : j # i => q.sub[j] = c.sub[j]
      /\ i # 0 => q.sub[i].cancelled = TRUE /\ q.sub[i].live = FALSE
  <2>1. CASE i = 0
    <3>1. q = c
      BY <1>2, <2>1 DEF EnvUnsubscribe
    <3>2. (HeldSet \cup {n}) \ {i} = HeldSet \cup {n}
      BY <1>3, <2>1 DEF HeldSet, Subs
    <3> QED
      BY <1>3, <2>1, <3>1, <3>2 DEF SameWho
  <2>2. CASE i # 0
    <3>1. PICK G : G = HeldSet \cup {n}
      OBVIOUS
    <3>2. Good(c, Idle, Hands, G) /\ i \in 1 .. Len(c.sub) /\ i \in G /\ l \in Nat
      BY <1>3, <1>5, <1>6, <2>2, <3>1
    <3>3. /\ Good(q, Idle, Hands, G \ {i}) /\ Follows(c, q, l) /\ CancelOnly(c, q, i)
      BY ONLY <1>2, <3>2, CancelGood
    <3>4. Follows(o, q, l)
      BY <1>3, <1>5, <3>3, FollowsTwice DEF Good
    <3> QED
      BY <1>3, <3>1, <3>3, <3>4 DEF CancelOnly, SameWho
  <2> QED
    BY <2>1, <2>2
<1>9. Subs' = Subs \cup {n}
  BY <1>1, <1>3, <1>8 DEF Subs
<1>10. \A j \in Subs' : Held(j)' <=> (Held(j) \/ j = n) /\ j # i
  <2>1. ASSUME NEW j \in Subs'
        PROVE  Held(j)' <=> (Held(j) \/ j = n) /\ j # i
    <3>1. j # 0
      BY <1>3, <1>9, <2>1 DEF Subs
    <3>2. CASE j = n
      BY <1>4, <1>7, <3>2 DEF Held
    <3>3. CASE j # n
      BY <1>1, <1>2, <1>4, <1>6, <3>1, <3>3 DEF Held
    <3> QED
      BY <3>2, <3>3
  <2> QED
    BY <2>1
<1>11. HeldSet' = (HeldSet \cup {n}) \ {i}
  BY <1>9, <1>10 DEF HeldSet
<1>12. Owned'
  <2>1. ASSUME NEW v \in Owners, NEW x \in Keys, env'[v][x] # 0
        PROVE  /\ env'[v][x] \in Subs' /\ env'[v][x] \notin handles'
               /\ o'.sub[env'[v][x]].owner = v /\ o'.sub[env'[v][x]].key = x
    <3>1. CASE v = w /\ x = k
      <4>1. q.sub[n].owner = w /\ q.sub[n].key = k
        BY <1>3, <1>7, <1>8
      <4>2. n \notin handles'
        BY <1>2, <1>3, <1>5 DEF Owned
      <4> QED
        BY <1>1, <1>4, <1>9, <3>1, <4>1, <4>2
    <3>2. CASE ~(v = w /\ x = k)
      <4>1. PICK j : j = env[v][x]
        OBVIOUS
      <4>2. env'[v][x] = j /\ j # 0
        BY <1>4, <2>1, <3>2, <4>1
      <4>3. j \in Subs /\ j \notin handles /\ o.sub[j].owner = v /\ o.sub[j].key = x
        BY <1>5, <4>1, <4>2 DEF Owned
      <4>4. q.sub[j].owner = v /\ q.sub[j].key = x
        BY <1>3, <1>8, <4>3 DEF SameWho
      <4> QED
        BY <1>1, <1>2, <1>9, <4>2, <4>3, <4>4
    <3> QED
      BY <3>1, <3>2
  <2>2. ASSUME NEW j \in Subs'
        PROVE  (q.sub[j].cancelled <=> ~Held(j)') /\ (q.sub[j].cancelled => ~q.sub[j].live)
    <3>1. j \in 1 .. n /\ (Held(j)' <=> (Held(j) \/ j = n) /\ j # i) /\ j # 0
      BY <1>3, <1>9, <1>10, <2>2 DEF Subs
    <3>2. CASE j = i
      BY <1>8, <3>1, <3>2
    <3>3. CASE j = n
      BY <1>3, <1>7, <1>8, <3>1, <3>3
    <3>4. CASE j # i /\ j # n
      <4>1. j \in Subs /\ q.sub[j] = o.sub[j]
        BY <1>3, <1>8, <3>1, <3>4
      <4> QED
        BY <1>5, <3>1, <3>4, <4>1 DEF Owned
    <3> QED
      BY <3>2, <3>3, <3>4
  <2>3. handles' \subseteq Subs'
    BY <1>2, <1>5, <1>9 DEF Owned
  <2> QED
    BY <1>1, <1>4, <2>1, <2>2, <2>3 DEF Owned
<1>13. \A j \in Subs : o.sub[j].refs > 0 => q.sub[j].refs > 0
  BY <1>3, <1>8
<1> QED
  BY <1>1, <1>2, <1>8, <1>11, <1>12, <1>13, Called
-----------------------------------------------------------------------------
(* The theorems *)

LEMMA Starts == Init => IInv /\ Lateness
<1> SUFFICES ASSUME Init
             PROVE  IInv /\ Lateness
  OBVIOUS
<1>1. /\ o = [sub |-> <<>>, chan |-> <<>>, map |-> [k \in Keys |-> 0], told |-> {},
              io |-> <<>>, user |-> <<>>]
      /\ env = [w \in Owners |-> [k \in Keys |-> 0]]
      /\ handles = {} /\ open = Ios /\ delivering = Idle /\ running = Idle
      /\ publishing = Done /\ sent = <<>>
  BY DEF Init
<1>2. /\ o.sub = <<>> /\ o.chan = <<>> /\ o.map = [k \in Keys |-> 0] /\ o.io = <<>>
      /\ o.user = <<>>
  BY <1>1
<1>3. \A S : <<>> \in Seq(S) /\ Len(<<>>) = 0
  BY EmptySeq
<1>4. 1 .. Len(<<>>) = {} /\ Len(<<>>) = 0 /\ 0 \in 0 .. Len(<<>>)
  BY <1>3
<1>5. o \in Shape
  <2>1. [k \in Keys |-> 0] \in [Keys -> Nat] /\ {} \subseteq Keys
    OBVIOUS
  <2> QED
    BY <1>1, <1>3, <2>1 DEF Shape
<1>6. Subs = {} /\ HeldSet = {}
  BY <1>2, <1>4 DEF Subs, HeldSet
<1>7. Idle \in TaskRec /\ Idle.sub = 0 /\ Idle.msg = 0
  BY IdleTask DEF Idle
<1>8. Good(o, Idle, Hands, HeldSet)
  <2>1. Named(o, Idle, Hands) /\ Counted(o, Idle, Hands, HeldSet)
    BY <1>1, <1>2, <1>4, <1>7 DEF Named, Counted, Hands
  <2>2. Linked(o, 0)
    BY <1>2, <1>4 DEF Linked, MapLinked
  <2> QED
    BY <1>5, <2>1, <2>2 DEF Good
<1>9. Ordered(o, publishing, Len(sent))
  BY <1>2, <1>4 DEF Ordered, Ahead, Homes, Publications, Limited
<1>10. Owned
  BY <1>1, <1>6 DEF Owned
<1>11. Distributing
  BY <1>1, <1>4 DEF Distributing, Done
<1>12. Others
  BY <1>1, <1>3, <1>4, <1>7 DEF Others, InHand
<1> QED
  BY <1>6, <1>8, <1>9, <1>10, <1>11, <1>12 DEF IInv, Lateness

LEMMA Steps == IInv /\ [Next]_vars => IInv' /\ Calm
<1> SUFFICES ASSUME IInv, [Next]_vars
             PROVE  IInv' /\ Calm
  OBVIOUS
<1>1. CASE Call
  <2>1. ASSUME NEW w \in Owners, NEW k \in Keys, Subscribe(w, k)
        PROVE  IInv' /\ Calm
    BY <2>1, SubscribeStep
  <2>2. ASSUME NEW k \in Keys, SubscribeHandle(k)
        PROVE  IInv' /\ Calm
    BY <2>2, SubscribeHandleStep
  <2>3. ASSUME NEW w \in Owners, NEW k \in Keys, Unsubscribe(w, k)
        PROVE  IInv' /\ Calm
    BY <2>3, UnsubscribeStep
  <2>4. ASSUME NEW i \in handles, UnsubscribeHandle(i)
        PROVE  IInv' /\ Calm
    BY <2>4, UnsubscribeHandleStep
  <2>5. ASSUME NEW w \in Ios, CloseIo(w)
        PROVE  IInv' /\ Calm
    BY <2>5, CloseIoStep
  <2>6. ASSUME NEW n \in Names, NEW from \in Owners, Publish(n, from)
        PROVE  IInv' /\ Calm
    BY <2>6, PublishStep
  <2> QED
    BY <1>1, <2>1, <2>2, <2>3, <2>4, <2>5, <2>6 DEF Call
<1>2. CASE IoTask
  <2>1. ASSUME NEW w \in Ios, NEW k \in Keys, CloseEntry(w, k)
        PROVE  IInv' /\ Calm
    BY <2>1, CloseEntryStep
  <2> QED
    BY <1>2, <2>1, RunSubscribeStep, RunUnsubscribeStep, RunFreeStep, RunPublishStep,
       NextChannelStep, NextSubscriberStep, RunEndedStep, RunDeliverStep, CallMessageStep,
       EndDeliveryStep DEF IoTask
<1>3. CASE UserTask
  BY <1>3, UserDeliverStep, UserCallStep, UserReturnStep, UserEndedStep DEF UserTask
<1>4. CASE UNCHANGED vars
  <2>1. UNCHANGED <<o, env, handles, open, delivering, running, publishing, sent>>
    BY <1>4 DEF vars
  <2>2. IInv'
    BY <2>1 DEF IInv, Owned, Distributing, Others, InHand, With, Hands, HeldSet, Held, Subs
  <2>3. Calm
    BY <2>1, CalmSame DEF Subs
  <2> QED
    BY <2>2, <2>3
<1> QED
  BY <1>1, <1>2, <1>3, <1>4 DEF Next

(* A call that begins late was in hand when its subscription was cancelled.*)
LEMMA Lates == IInv /\ Lateness /\ Calm => Lateness'
<1> SUFFICES ASSUME IInv, Lateness, Calm, NEW i \in Subs'
             PROVE  /\ o'.sub[i].late <= 1
                    /\ o'.sub[i].live \/ Calling(i)' => o'.sub[i].late = 0
  BY DEF Lateness
<1>1. CASE i \notin Subs
  BY <1>1 DEF Calm
<1>2. CASE i \in Subs
  <2>1. PICK a, b : a \in Nat /\ a = o.sub[i].late /\ b = o'.sub[i].late
    BY <1>2, StateTypes DEF SubRec
  <2>2. a <= 1 /\ (o.sub[i].live \/ Calling(i) => a = 0)
    BY <1>2, <2>1 DEF Lateness
  <2>3. /\ o'.sub[i].live => o.sub[i].live
        /\ Calling(i)' => Calling(i) \/ o.sub[i].live
        /\ b = a \/ (Calling(i) /\ ~Calling(i)' /\ ~o.sub[i].live /\ b = a + 1)
    BY <1>2, <2>1 DEF Calm
  <2>4. CASE b = a
    BY <2>1, <2>2, <2>3, <2>4
  <2>5. CASE b # a
    <3>1. Calling(i) /\ ~Calling(i)' /\ ~o'.sub[i].live /\ b = a + 1
      BY <2>3, <2>5
    <3>2. b = 1
      BY <2>2, <3>1
    <3> QED
      BY <2>1, <3>1, <3>2
  <2> QED
    BY <2>4, <2>5
<1> QED
  BY <1>1, <1>2

(* The invariant that the properties follow from: every reference to a     *)
(* subscription or a channel is accounted for, and the messages in the     *)
(* queues are ahead of what was heard and behind what is distributed.      *)
THEOREM Invariance == Spec => [](IInv /\ Lateness)
<1>1. Init => IInv /\ Lateness
  BY Starts
<1>2. IInv /\ Lateness /\ [Next]_vars => IInv' /\ Lateness'
  BY Steps, Lates
<1> QED
  BY <1>1, <1>2, PTL DEF Spec

LEMMA References ==
    ASSUME IInv, NEW i \in Subs
    PROVE  /\ Owning(i) \in Nat /\ o.sub[i].refs \in Nat /\ o.sub[i].ended \in Nat
           /\ Owning(i) = Total(o, Idle, Hands, OwnerFn, i)
           /\ o.sub[i].refs = Owning(i) + One(Held(i))
           /\ Total(o, Idle, Hands, EndedFn, i) \in Nat
           /\ Total(o, Idle, Hands, EndedFn, i) + o.sub[i].ended
                  = IF o.sub[i].refs = 0 THEN 1 ELSE 0
<1>1. /\ o \in Shape /\ Counted(o, Idle, Hands, HeldSet) /\ i \in 1 .. Len(o.sub)
      /\ o.sub[i] \in SubRec
  BY StateTypes DEF IInv, Good, Subs
<1>2. PICK t, u, F, r : t = running /\ u = delivering /\ F = OwnerFn /\ r = Hands
  OBVIOUS
<1>3. /\ Count(o.io, F, i) \in Nat /\ Count(o.user, F, i) \in Nat
      /\ Tally(Idle, F, i) = 0 /\ Tally(t, F, i) \in Nat /\ Tally(t, F, i) = One(Is(t, F, i))
      /\ Tally(u, F, i) \in Nat /\ Tally(u, F, i) = One(Is(u, F, i))
  BY <1>1, <1>2, ShapeTypes, CountType, IdleTally, TotalType DEF Tally, One
<1>4. Owning(i) = Total(o, Idle, Hands, OwnerFn, i) /\ Owning(i) \in Nat
  <2>1. Owning(i) = Count(o.io, F, i) + Count(o.user, F, i) + Tally(u, F, i) + Tally(t, F, i)
    BY <1>2, <1>3 DEF Owning
  <2>2. r.io = u /\ r.user = t
    BY <1>2 DEF Hands
  <2>3. Total(o, Idle, r, F, i)
            = Count(o.io, F, i) + Count(o.user, F, i) + 0 + (Tally(u, F, i) + Tally(t, F, i))
    BY <1>3, <2>2 DEF Total, Queued, Both
  <2> QED
    BY <1>2, <1>3, <2>1, <2>3
<1>5. One(Held(i)) = IF i \in HeldSet THEN 1 ELSE 0
  BY DEF One, HeldSet
<1>6. Total(o, Idle, Hands, EndedFn, i) \in Nat
  BY <1>1, TotalType
<1> QED
  BY <1>1, <1>4, <1>5, <1>6 DEF Counted, SubRec

LEMMA Typed == IInv => TypeOK
<1> SUFFICES ASSUME IInv
             PROVE  TypeOK
  OBVIOUS
<1>1. /\ o \in Shape /\ Named(o, Idle, Hands) /\ Linked(o, 0) /\ Owned /\ Others
      /\ Ordered(o, publishing, Len(sent)) /\ Len(o.sub) \in Nat /\ Len(sent) \in Nat
      /\ Len(o.chan) \in Nat
  BY StateTypes, ShapeTypes DEF IInv, Good
<1>2. ASSUME NEW i \in Subs
      PROVE  /\ o.sub[i].refs \in Nat /\ o.sub[i].key \in Keys /\ o.sub[i].owner \in Owners
             /\ o.sub[i].chan \in 0..Len(o.chan) /\ o.sub[i].ended \in 0..1
  <2>1. o.sub[i] \in SubRec
    BY StateTypes
  <2>2. SubLinked(o, i)
    BY <1>1 DEF Linked, Subs
  <2>3. o.sub[i].ended \in 0..1
    BY References
  <2> QED
    BY <2>1, <2>2, <2>3 DEF SubRec, SubLinked
<1>3. \A c \in Channels : o.chan[c].key \in Keys /\ o.chan[c].list \subseteq Subs
  BY <1>1, ShapeTypes DEF Channels, ChanRec, Linked, ChanLinked, Users, Subs
<1>4. o.map \in [Keys -> 0..Len(o.chan)] /\ o.told \subseteq Keys
  <2>1. o.map \in [Keys -> Nat] /\ o.told \subseteq Keys
    BY <1>1, ShapeTypes
  <2>2. \A k \in Keys : o.map[k] \in 0..Len(o.chan)
    BY <1>1, <2>1 DEF Linked, MapLinked
  <2> QED
    BY <2>1, <2>2
<1>5. env \in [Owners -> [Keys -> 0..Len(o.sub)]]
  <2>1. env \in [Owners -> [Keys -> Nat]]
    BY <1>1 DEF Owned
  <2>2. \A w \in Owners, k \in Keys : env[w][k] \in 0..Len(o.sub)
    BY <1>1, <2>1 DEF Owned, Subs
  <2> QED
    BY <2>1, <2>2
<1>6. handles \subseteq Subs /\ open \subseteq Ios
  BY <1>1 DEF Owned, Others
<1>7. ASSUME NEW t \in Tasks
      PROVE  t.sub \in 0..Len(o.sub) /\ t.msg \in 0..Len(sent)
  <2>1. ASSUME NEW q \in Seq(TaskRec), Limited(q, Len(sent)), NEW j \in DOMAIN q
        PROVE  j \in 1 .. Len(q) /\ q[j].msg \in 0..Len(sent)
    <3>1. j \in 1 .. Len(q)
      OBVIOUS
    <3>2. q[j].msg \in Nat /\ q[j].msg <= Len(sent)
      BY <2>1, <3>1, MsgType DEF Limited
    <3> QED
      BY <1>1, <3>1, <3>2
  <2>2. CASE t \in {o.io[j] : j \in DOMAIN o.io}
    <3>1. PICK j \in DOMAIN o.io : t = o.io[j]
      BY <2>2
    <3>2. o.io \in Seq(TaskRec) /\ Limited(o.io, Len(sent))
      BY <1>1, ShapeTypes DEF Ordered
    <3> QED
      BY <1>1, <2>1, <3>1, <3>2 DEF Named
  <2>3. CASE t \in {o.user[j] : j \in DOMAIN o.user}
    <3>1. PICK j \in DOMAIN o.user : t = o.user[j]
      BY <2>3
    <3>2. o.user \in Seq(TaskRec) /\ Limited(o.user, Len(sent))
      BY <1>1, ShapeTypes DEF Ordered
    <3> QED
      BY <1>1, <2>1, <3>1, <3>2 DEF Named
  <2>4. CASE t \in {delivering, running}
    <3>1. t \in TaskRec /\ t.sub \in 0 .. Len(o.sub) /\ t.msg <= Len(sent)
      BY <1>1, <2>4, StateTypes DEF Others, InHand
    <3>2. t.msg \in Nat
      BY <3>1 DEF TaskRec
    <3> QED
      BY <1>1, <2>4, <3>1, <3>2
  <2> QED
    BY <2>2, <2>3, <2>4 DEF Tasks
<1> QED
  BY <1>2, <1>3, <1>4, <1>5, <1>6, <1>7 DEF TypeOK

(* Every reference to a subscription has one holder - an environment, a    *)
(* handle or a task - and every reference to a channel is the map's or a   *)
(* subscription's: nothing is used after it was freed, or kept for ever.   *)
THEOREM References_are_held == Spec => []RefsOK
<1>1. IInv => RefsOK
  <2> SUFFICES ASSUME IInv
               PROVE  RefsOK
    OBVIOUS
  <2>1. o \in Shape /\ Linked(o, 0)
    BY DEF IInv, Good
  <2>2. ASSUME NEW c \in Channels
        PROVE  /\ o.chan[c].refs = Cardinality({k \in Keys : o.map[k] = c})
                      + Cardinality({i \in Subs : o.sub[i].chan = c /\ o.sub[i].refs > 0})
               /\ \A i \in o.chan[c].list : o.sub[i].refs > 0 /\ o.sub[i].chan = c
    <3>1. ChanLinked(o, 0, c) /\ c # 0 /\ o.chan[c].key \in Keys /\ c \in 1 .. Len(o.chan)
      BY <2>1, ShapeTypes DEF Linked, Channels, ChanRec
    <3>2. Users(o, c) = {i \in Subs : o.sub[i].chan = c /\ o.sub[i].refs > 0}
      BY DEF Users, Subs
    <3>3. Cardinality({k \in Keys : o.map[k] = c}) = FromMap(o, c)
      <4>1. PICK x \in Keys : x = o.chan[c].key
        BY <3>1
      <4>2. \A k \in Keys : o.map[k] = c => k = x
        BY <2>1, <3>1, <4>1 DEF Linked, MapLinked
      <4>3. CASE o.map[x] = c
        <5>1. {k \in Keys : o.map[k] = c} = {x}
          BY <4>2, <4>3
        <5> QED
          BY <4>1, <4>3, <5>1, FS_Singleton DEF FromMap
      <4>4. CASE o.map[x] # c
        <5>1. {k \in Keys : o.map[k] = c} = {}
          BY <4>2, <4>4
        <5> QED
          BY <4>1, <4>4, <5>1, FS_EmptySet DEF FromMap
      <4> QED
        BY <4>3, <4>4
    <3>4. o.chan[c].refs = FromMap(o, c) + Cardinality(Users(o, c))
      <4>1. Cardinality(Users(o, c)) \in Nat /\ FromMap(o, c) \in Nat
        BY <2>1, <3>1, LinkedTypes DEF FromMap
      <4> QED
        BY <3>1, <4>1 DEF ChanLinked
    <3>5. \A i \in o.chan[c].list : o.sub[i].refs > 0 /\ o.sub[i].chan = c
      BY <3>1 DEF ChanLinked, Users
    <3> QED
      BY <3>2, <3>3, <3>4, <3>5
  <2>3. \A i \in Subs : o.sub[i].refs = Owning(i) + One(Held(i))
    BY References
  <2>4. TypeOK
    BY Typed
  <2> QED
    BY <2>2, <2>3, <2>4 DEF RefsOK
<1> QED
  BY <1>1, Invariance, PTL

(* on_unsubscribe is the last call that a subscriber gets, it gets it at   *)
(* most once, and once everything has run it was called for exactly the    *)
(* subscriptions that were cancelled.                                      *)
THEOREM Ends == Spec => []EndsLast
<1>1. IInv => EndsLast
  <2> SUFFICES ASSUME IInv
               PROVE  EndsLast
    OBVIOUS
  <2>1. ASSUME NEW i \in Subs, o.sub[i].ended > 0
        PROVE  o.sub[i].ended = 1 /\ o.sub[i].refs = 0 /\ Owning(i) = 0
    <3>1. PICK a \in Nat, b \in Nat, x \in Nat, y \in Nat, z \in {0, 1} :
              /\ a = Owning(i) /\ b = o.sub[i].refs /\ x = Total(o, Idle, Hands, EndedFn, i)
              /\ y = o.sub[i].ended /\ z = One(Held(i))
      BY References DEF One
    <3>2. b = a + z /\ x + y = IF b = 0 THEN 1 ELSE 0
      BY <3>1, References
    <3>3. y > 0
      BY <2>1, <3>1
    <3>4. y = 1 /\ b = 0 /\ a = 0
      BY ONLY <3>2, <3>3, a \in Nat, b \in Nat, x \in Nat, y \in Nat, z \in {0, 1}
    <3> QED
      BY <3>1, <3>4
  <2>2. ASSUME Quiet, NEW i \in Subs
        PROVE  (o.sub[i].ended = 1) <=> o.sub[i].cancelled
    <3>1. o.io = <<>> /\ o.user = <<>> /\ Hands.io = Idle /\ Hands.user = Idle
      BY <2>2 DEF Quiet, AtRest, Hands
    <3>2. \A F : Count(<<>>, F, i) = 0
      <4>1. <<>> \in Seq(TaskRec) /\ \A j \in 1 .. Len(<<>>) : FALSE
        BY EmptySeq
      <4> QED
        BY <4>1, CountType
    <3>3. ASSUME NEW F, Tally(Idle, F, i) = 0
          PROVE  Total(o, Idle, Hands, F, i) = 0
      BY <3>1, <3>2, <3>3 DEF Total, Queued, Both
    <3>4. /\ Total(o, Idle, Hands, OwnerFn, i) = 0 /\ Total(o, Idle, Hands, EndedFn, i) = 0
      BY <3>3, IdleTally
    <3>5. o.sub[i].ended = 1 <=> o.sub[i].refs = 0
      BY <3>4, References
    <3>6. o.sub[i].refs = One(Held(i))
      BY <3>4, References DEF One
    <3>7. o.sub[i].refs = 0 <=> ~Held(i)
      BY <3>6 DEF One
    <3>8. o.sub[i].cancelled <=> ~Held(i)
      BY DEF IInv, Owned
    <3> QED
      BY <3>5, <3>7, <3>8
  <2> QED
    BY <2>1, <2>2 DEF EndsLast
<1> QED
  BY <1>1, Invariance, PTL

(* A subscriber hears the messages in the order in which they were         *)
(* published, each of them once.                                           *)
THEOREM Order == Spec => []InOrder
<1>1. IInv => InOrder
  <2> SUFFICES ASSUME IInv, NEW i \in Subs, NEW a \in DOMAIN o.sub[i].heard,
                      NEW b \in DOMAIN o.sub[i].heard, a < b
               PROVE  o.sub[i].heard[a] < o.sub[i].heard[b]
    BY DEF InOrder
  <2>1. HeardInOrder(o, publishing, Len(sent), i)
    BY DEF IInv, Ordered, Subs
  <2>2. o.sub[i].heard \in Seq(Nat)
    BY StateTypes DEF SubRec
  <2>3. DOMAIN o.sub[i].heard = 1 .. Len(o.sub[i].heard)
    BY <2>2
  <2> QED
    BY <2>1, <2>3 DEF HeardInOrder
<1> QED
  BY <1>1, Invariance, PTL

(* A call of on_message that begins after its subscriber cancelled is the  *)
(* one that a thread had read before; there is never a second one.         *)
THEOREM Silence == Spec => []SilentWhenCancelled
<1>1. IInv /\ Lateness => SilentWhenCancelled
  BY DEF Lateness, SilentWhenCancelled
<1> QED
  BY <1>1, Invariance, PTL
=============================================================================
