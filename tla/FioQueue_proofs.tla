-------------------------- MODULE FioQueue_proofs --------------------------
(***************************************************************************)
(* Proofs about the task queue: what the ring operations do to a ring, and *)
(* that the chain of rings is well formed, leaks no ring, uses no freed    *)
(* one, counts its tasks and behaves as one list, for any ring size, any   *)
(* number of rings and any set of tasks; and about the spin lock under     *)
(* which each operation of the queue is one step.                          *)
(***************************************************************************)
EXTENDS FioQueue, SpinLock, SequenceTheorems, WellFoundedInduction, TLAPS

(* fio___task_ring_push adds the task behind the ones the ring holds.      *)
LEMMA RingPushLemma ==
    ASSUME NEW g, RingOK(g), ~RingFull(g), NEW t \in Task
    PROVE  /\ RingOK(RingPush(g, t))
           /\ RingLen(RingPush(g, t)) = RingLen(g) + 1
           /\ RingTasks(RingPush(g, t)) = Append(RingTasks(g), t)
           /\ ~RingEmpty(RingPush(g, t))
<1> DEFINE h == RingPush(g, t)
<1> USE TasksPerAllocAssumption
<1>1. g \in Ring /\ h \in Ring
  BY DEF RingOK, RingPush, Ring, Slot
<1>f. /\ g.r \in 0 .. TasksPerAlloc - 1 /\ g.w \in 0 .. TasksPerAlloc - 1
      /\ \/ g.dir = 0 /\ g.r <= g.w
         \/ g.dir = 1 /\ g.w < g.r
      /\ h.r = g.r
      /\ \/ g.w + 1 = TasksPerAlloc /\ h.w = 0 /\ h.dir = 1 - g.dir
         \/ g.w + 1 < TasksPerAlloc /\ h.w = g.w + 1 /\ h.dir = g.dir
  BY <1>1 DEF RingOK, RingPush, Ring, Slot, RingFull
<1>2. RingLen(g) \in Nat /\ RingLen(h) = RingLen(g) + 1 /\ RingLen(g) < TasksPerAlloc
  <2> HIDE DEF h
  <2> QED BY <1>f DEF RingLen
<1>3. ASSUME NEW i \in 1 .. RingLen(g)
      PROVE  RingSlot(h, i) = RingSlot(g, i) /\ RingSlot(g, i) \in Slot /\ RingSlot(g, i) # g.w
  <2> HIDE DEF h
  <2> QED BY <1>f, <1>2 DEF RingLen, RingSlot, Slot
<1>4. RingSlot(h, RingLen(h)) = g.w
  <2> HIDE DEF h
  <2> QED BY <1>f, <1>2 DEF RingLen, RingSlot
<1>5. /\ \A i \in 1 .. RingLen(g) : h.buf[RingSlot(h, i)] = g.buf[RingSlot(g, i)]
      /\ h.buf[RingSlot(h, RingLen(h))] = t
  <2>1. h.buf = [g.buf EXCEPT ![g.w] = t]
    BY DEF RingPush
  <2> HIDE DEF h
  <2> QED BY <1>1, <1>3, <1>4, <2>1 DEF Ring
<1>6. RingOK(h)
  <2>1. IF h.dir = 1 THEN h.w <= h.r ELSE h.r <= h.w
    BY <1>1, <1>2 DEF RingOK, RingPush, Ring, Slot, RingFull
  <2> HIDE DEF h
  <2> QED BY <1>1, <1>2, <1>5, <2>1 DEF RingOK
<1>7. RingTasks(h) = Append(RingTasks(g), t)
  <2> HIDE DEF h
  <2>1. /\ RingTasks(g) \in Seq(Task) /\ Len(RingTasks(g)) = RingLen(g)
        /\ RingTasks(h) \in Seq(Task) /\ Len(RingTasks(h)) = RingLen(h)
    BY <1>2, <1>6 DEF RingTasks, RingOK
  <2>2. \A i \in 1 .. RingLen(h) : RingTasks(h)[i] = Append(RingTasks(g), t)[i]
    BY <1>2, <1>5, <2>1 DEF RingTasks
  <2> QED BY <1>2, <2>1, <2>2
<1>8. ~RingEmpty(h)
  BY <1>1, <1>2 DEF RingOK, RingPush, Ring, Slot, RingFull, RingEmpty
<1> QED BY <1>2, <1>6, <1>7, <1>8

(* fio___task_ring_unpop adds the task in front of the ones it holds.      *)
LEMMA RingUnpopLemma ==
    ASSUME NEW g, RingOK(g), ~RingFull(g), NEW t \in Task
    PROVE  /\ RingOK(RingUnpop(g, t))
           /\ RingLen(RingUnpop(g, t)) = RingLen(g) + 1
           /\ RingTasks(RingUnpop(g, t)) = <<t>> \o RingTasks(g)
           /\ ~RingEmpty(RingUnpop(g, t))
<1> DEFINE h == RingUnpop(g, t)
<1> USE TasksPerAllocAssumption
<1>1. g \in Ring /\ h \in Ring
  BY DEF RingOK, RingUnpop, Ring, Slot
<1>f. /\ g.r \in 0 .. TasksPerAlloc - 1 /\ g.w \in 0 .. TasksPerAlloc - 1
      /\ \/ g.dir = 0 /\ g.r <= g.w
         \/ g.dir = 1 /\ g.w < g.r
      /\ h.w = g.w
      /\ \/ g.r = 0 /\ h.r = TasksPerAlloc - 1 /\ h.dir = 1 - g.dir
         \/ g.r > 0 /\ h.r = g.r - 1 /\ h.dir = g.dir
  BY <1>1 DEF RingOK, RingUnpop, Ring, Slot, RingFull
<1>2. RingLen(g) \in Nat /\ RingLen(h) = RingLen(g) + 1 /\ RingLen(g) < TasksPerAlloc
  <2> HIDE DEF h
  <2> QED BY <1>f DEF RingLen
<1>3. ASSUME NEW i \in 1 .. RingLen(g)
      PROVE  RingSlot(h, i + 1) = RingSlot(g, i) /\ RingSlot(g, i) \in Slot /\ RingSlot(g, i) # h.r
  <2> HIDE DEF h
  <2> QED BY <1>f, <1>2 DEF RingLen, RingSlot, Slot
<1>4. RingSlot(h, 1) = h.r
  BY <1>1, <1>2 DEF RingOK, RingUnpop, Ring, Slot, RingLen, RingSlot, RingFull
<1>5. /\ \A i \in 1 .. RingLen(g) : h.buf[RingSlot(h, i + 1)] = g.buf[RingSlot(g, i)]
      /\ h.buf[RingSlot(h, 1)] = t
  <2>1. h.buf = [g.buf EXCEPT ![h.r] = t]
    BY DEF RingUnpop
  <2>2. h.r \in Slot
    BY <1>1 DEF Ring
  <2> HIDE DEF h
  <2> QED BY <1>1, <1>3, <1>4, <2>1, <2>2 DEF Ring
<1>6. RingOK(h)
  <2>1. IF h.dir = 1 THEN h.w <= h.r ELSE h.r <= h.w
    BY <1>1, <1>2 DEF RingOK, RingUnpop, Ring, Slot, RingFull
  <2>2. ASSUME NEW i \in 1 .. RingLen(h) PROVE h.buf[RingSlot(h, i)] \in Task
    <3>1. CASE i = 1
      BY <1>5, <3>1
    <3>2. CASE i # 1
      <4>1. i - 1 \in 1 .. RingLen(g) /\ (i - 1) + 1 = i
        BY <1>2, <3>2
      <4> HIDE DEF h
      <4> QED BY <1>5, <4>1 DEF RingOK
    <3> QED BY <3>1, <3>2
  <2> HIDE DEF h
  <2> QED BY <1>1, <2>1, <2>2 DEF RingOK
<1>7. RingTasks(h) = <<t>> \o RingTasks(g)
  <2> HIDE DEF h
  <2>1. /\ RingTasks(g) \in Seq(Task) /\ Len(RingTasks(g)) = RingLen(g)
        /\ RingTasks(h) \in Seq(Task) /\ Len(RingTasks(h)) = RingLen(h)
    BY <1>2, <1>6 DEF RingTasks, RingOK
  <2>2. \A i \in 1 .. RingLen(h) : RingTasks(h)[i] = (<<t>> \o RingTasks(g))[i]
    <3> SUFFICES ASSUME NEW i \in 1 .. RingLen(h)
                 PROVE  RingTasks(h)[i] = (<<t>> \o RingTasks(g))[i]
      OBVIOUS
    <3>1. CASE i = 1
      BY <1>2, <1>5, <2>1, <3>1 DEF RingTasks
    <3>2. CASE i # 1
      <4>1. i - 1 \in 1 .. RingLen(g) /\ (i - 1) + 1 = i
        BY <1>2, <3>2
      <4>2. (<<t>> \o RingTasks(g))[i] = RingTasks(g)[i - 1]
        BY <1>2, <2>1, <4>1
      <4> QED BY <1>5, <4>1, <4>2 DEF RingTasks
    <3> QED BY <3>1, <3>2
  <2> QED BY <1>2, <2>1, <2>2
<1>8. ~RingEmpty(h)
  BY <1>1, <1>2 DEF RingOK, RingUnpop, Ring, Slot, RingFull, RingEmpty
<1> QED BY <1>2, <1>6, <1>7, <1>8

(* fio___task_ring_pop takes the first task of a ring that has one.        *)
LEMMA RingPopLemma ==
    ASSUME NEW g, RingOK(g), ~RingEmpty(g)
    PROVE  /\ RingOK(RingPop(g))
           /\ RingLen(RingPop(g)) = RingLen(g) - 1
           /\ RingLen(g) > 0
           /\ RingFront(g) \in Task
           /\ RingFront(g) = Head(RingTasks(g))
           /\ RingTasks(RingPop(g)) = Tail(RingTasks(g))
<1> DEFINE h == RingPop(g)
<1> USE TasksPerAllocAssumption
<1>1. g \in Ring /\ h \in Ring
  BY DEF RingOK, RingPop, Ring, Slot
<1>f. /\ g.r \in 0 .. TasksPerAlloc - 1 /\ g.w \in 0 .. TasksPerAlloc - 1
      /\ \/ g.dir = 0 /\ g.r < g.w
         \/ g.dir = 1 /\ g.w <= g.r
      /\ h.w = g.w
      /\ \/ g.r + 1 = TasksPerAlloc /\ h.r = 0 /\ h.dir = 1 - g.dir
         \/ g.r + 1 < TasksPerAlloc /\ h.r = g.r + 1 /\ h.dir = g.dir
  BY <1>1 DEF RingOK, RingPop, Ring, Slot, RingEmpty
<1>2. RingLen(h) \in Nat /\ RingLen(h) = RingLen(g) - 1 /\ RingLen(g) \in 1 .. TasksPerAlloc
  <2> HIDE DEF h
  <2> QED BY <1>f DEF RingLen
<1>3. ASSUME NEW i \in 1 .. RingLen(h)
      PROVE  RingSlot(h, i) = RingSlot(g, i + 1) /\ RingSlot(h, i) \in Slot /\ RingSlot(h, i) # g.r
  <2> HIDE DEF h
  <2> QED BY <1>f, <1>2 DEF RingLen, RingSlot, Slot
<1>4. RingSlot(g, 1) = g.r
  BY <1>1, <1>2 DEF RingOK, Ring, Slot, RingLen, RingSlot
<1>5. \A i \in 1 .. RingLen(h) : h.buf[RingSlot(h, i)] = g.buf[RingSlot(g, i + 1)]
  <2>1. h.buf = [g.buf EXCEPT ![g.r] = NoTask]
    BY DEF RingPop
  <2> HIDE DEF h
  <2> QED BY <1>1, <1>3, <2>1 DEF Ring
<1>6. RingOK(h)
  <2>1. IF h.dir = 1 THEN h.w <= h.r ELSE h.r <= h.w
    BY <1>1, <1>2 DEF RingOK, RingPop, Ring, Slot, RingEmpty
  <2>2. \A i \in 1 .. RingLen(h) : i + 1 \in 1 .. RingLen(g)
    BY <1>2
  <2> HIDE DEF h
  <2> QED BY <1>1, <1>5, <2>1, <2>2 DEF RingOK
<1>7. RingFront(g) \in Task /\ RingFront(g) = RingTasks(g)[1]
  BY <1>2, <1>4 DEF RingFront, RingOK, RingTasks
<1>8. RingTasks(h) = Tail(RingTasks(g)) /\ RingTasks(g)[1] = Head(RingTasks(g))
  <2> HIDE DEF h
  <2>1. /\ RingTasks(g) \in Seq(Task) /\ Len(RingTasks(g)) = RingLen(g)
        /\ RingTasks(h) \in Seq(Task) /\ Len(RingTasks(h)) = RingLen(h)
    BY <1>2, <1>6 DEF RingTasks, RingOK
  <2>2. \A i \in 1 .. RingLen(h) : RingTasks(h)[i] = RingTasks(g)[i + 1]
    BY <1>2, <1>5 DEF RingTasks
  <2>3. Len(Tail(RingTasks(g))) = RingLen(h) /\ Tail(RingTasks(g)) \in Seq(Task)
    BY <1>2, <2>1
  <2>4. \A i \in 1 .. RingLen(h) : Tail(RingTasks(g))[i] = RingTasks(g)[i + 1]
    BY <1>2, <2>1
  <2> QED BY <1>2, <2>1, <2>2, <2>3, <2>4
<1> QED BY <1>2, <1>6, <1>7, <1>8

-----------------------------------------------------------------------------
(* The inductive invariant.  None of its parts is inductive alone: that    *)
(* fio_queue_pop finds a task behind an empty first ring needs the links,  *)
(* the links need fio_queue_push to know from mem.next whether the         *)
(* embedded ring is in use, and the reset of a drained queue is only right *)
(* because count = 1 implies that every other ring is gone.                *)
Inv == TypeOK /\ LinksOK /\ MemoryOK /\ RingsOK /\ CountOK /\ OrderOK

(* An empty ring is legal, whatever its buffer holds.                      *)
LEMMA ResetRingLemma ==
    ASSUME NEW g \in Ring
    PROVE  /\ RingOK(ResetRing(g)) /\ RingLen(ResetRing(g)) = 0
           /\ ~RingFull(ResetRing(g)) /\ ResetRing(g) \in Ring
           /\ RingEmpty(ResetRing(g))
BY TasksPerAllocAssumption
   DEF RingOK, ResetRing, RingLen, RingFull, RingEmpty, Ring, Slot

LEMMA NewRingLemma ==
    /\ RingOK(NewRing) /\ RingLen(NewRing) = 0
    /\ ~RingFull(NewRing) /\ NewRing \in Ring /\ RingEmpty(NewRing)
BY TasksPerAllocAssumption
   DEF RingOK, NewRing, RingLen, RingFull, RingEmpty, Ring, Slot

(* The ring fio_queue_push_urgent builds by hand is one an unpop or a push *)
(* could have built: it holds the task and nothing else.                   *)
LEMMA UrgentRingLemma ==
    ASSUME NEW t \in Task
    PROVE  /\ RingOK(OneTaskRing(t)) /\ RingLen(OneTaskRing(t)) = 1
           /\ ~RingEmpty(OneTaskRing(t)) /\ OneTaskRing(t) \in Ring
<1>1. OneTaskRing(t) = RingPush(NewRing, t)
  BY TasksPerAllocAssumption DEF NewRing, RingPush, OneTaskRing
<1> QED BY <1>1, NewRingLemma, RingPushLemma DEF RingOK

(* A ring's length is a number, and is zero only if the ring is empty.     *)
LEMMA RingLenLemma ==
    ASSUME NEW g, RingOK(g)
    PROVE  /\ RingLen(g) \in Nat
           /\ RingLen(g) = 0 <=> RingEmpty(g)
BY TasksPerAllocAssumption DEF RingOK, RingLen, RingEmpty, Ring, Slot

LEMMA InitInv == Init => Inv
<1> SUFFICES ASSUME Init PROVE Inv
  OBVIOUS
<1> USE AddressAssumption, NewRingLemma DEF Init
<1>1. TypeOK
  BY DEF TypeOK, Address
<1>2. LinksOK
  <2>1. Len(chain) = 1 /\ chain[1] = Mem /\ 1 .. Len(chain) = {1}
    OBVIOUS
  <2> QED BY <2>1 DEF LinksOK, Linked, Address
<1>3. MemoryOK
  BY DEF MemoryOK, Linked
<1>4. RingsOK
  BY DEF RingsOK, Address
<1>5. CountOK
  BY DEF CountOK, UpTo, Address
<1>6. OrderOK
  BY DEF OrderOK
<1> QED BY <1>1, <1>2, <1>3, <1>4, <1>5, <1>6 DEF Inv

(* While no destroy is under way the queue has a last ring and it is q->w. *)
LEMMA IdleLemma ==
    ASSUME Inv, mode = "idle"
    PROVE  /\ Len(chain) \in Nat \ {0}
           /\ qr = chain[1] /\ qw = chain[Len(chain)] /\ next[qw] = Nil
           /\ qr \in Address /\ qw \in Address /\ Linked \subseteq Address
           /\ qr \in Linked /\ qw \in Linked
BY DEF Inv, TypeOK, LinksOK, Linked

(* Every ring of the chain is a legal ring with a number of tasks ahead.   *)
LEMMA IdleRings ==
    ASSUME Inv, mode = "idle", NEW i \in 1 .. Len(chain)
    PROVE  /\ chain[i] \in Address /\ chain[i] \in Linked
           /\ RingOK(ring[chain[i]]) /\ ring[chain[i]] \in Ring
           /\ RingLen(ring[chain[i]]) \in Nat
           /\ ahead[chain[i]] \in Nat
<1>1. chain[i] \in Address /\ chain[i] \in Linked /\ RingOK(ring[chain[i]])
  BY DEF Inv, TypeOK, RingsOK, Linked
<1> QED BY <1>1, RingLenLemma DEF Inv, TypeOK, RingOK

(* The rings at the two ends, and the count.                               *)
LEMMA IdleEnds ==
    ASSUME Inv, mode = "idle"
    PROVE  /\ RingOK(ring[qr]) /\ RingOK(ring[qw])
           /\ RingLen(ring[qr]) \in Nat /\ RingLen(ring[qw]) \in Nat
           /\ ahead[qr] = 0 /\ ahead[qw] \in Nat
           /\ count = ahead[qw] + RingLen(ring[qw]) /\ count = UpTo(qw)
<1>1. 1 \in 1 .. Len(chain) /\ Len(chain) \in 1 .. Len(chain)
  BY IdleLemma
<1>2. count = ahead[qw] + RingLen(ring[qw]) /\ ahead[qr] = 0
  BY IdleLemma DEF Inv, CountOK, UpTo
<1> QED BY <1>1, <1>2, IdleLemma, IdleRings DEF UpTo

(* No two rings of the chain are the same.                                 *)
LEMMA ChainDistinct ==
    ASSUME Inv, NEW i \in 1 .. Len(chain), NEW j \in 1 .. Len(chain), i # j
    PROVE  chain[i] # chain[j]
BY DEF Inv, LinksOK

LEMMA PushRoomInv ==
    ASSUME Inv, mode = "idle", NEW t \in Task, PushRoom(t),
           count' = count + 1, UNCHANGED mode
    PROVE  Inv'
<1> DEFINE n == Len(chain)
<1> USE IdleLemma
<1>1. /\ RingOK(RingPush(ring[qw], t)) /\ ~RingEmpty(RingPush(ring[qw], t))
      /\ RingLen(RingPush(ring[qw], t)) = RingLen(ring[qw]) + 1
  BY RingPushLemma, IdleEnds DEF PushRoom
<1>2. /\ ring' = [ring EXCEPT ![qw] = RingPush(ring[qw], t)]
      /\ UNCHANGED <<qr, qw, next, live, leaks, chain, ahead>>
  BY DEF PushRoom
<1>3. TypeOK'
  BY <1>1, <1>2 DEF Inv, TypeOK, RingOK
<1>4. LinksOK' /\ MemoryOK'
  BY <1>2 DEF Inv, LinksOK, MemoryOK, Linked
<1>5. RingsOK'
  BY <1>1, <1>2 DEF Inv, RingsOK, TypeOK
<1>6. CountOK'
  <2>1. \A i \in 1 .. n - 1 : chain[i] # qw
    BY ChainDistinct
  <2>2. \A i \in 1 .. n - 1 : RingLen(ring'[chain[i]]) = RingLen(ring[chain[i]])
    BY <1>2, <2>1, IdleRings DEF Inv, TypeOK
  <2>3. RingLen(ring'[qw]) = RingLen(ring[qw]) + 1
    BY <1>1, <1>2 DEF Inv, TypeOK
  <2>4. RingLen(ring[qw]) \in Nat /\ ahead[qw] \in Nat
    BY IdleEnds
  <2>5. ahead'[chain'[1]] = 0 /\ count' = ahead'[chain'[n]] + RingLen(ring'[chain'[n]])
    BY <1>2, <2>3, <2>4, IdleEnds
  <2>6. \A i \in 1 .. n - 1 :
           ahead'[chain'[i + 1]] = ahead'[chain'[i]] + RingLen(ring'[chain'[i]])
    BY <1>2, <2>2 DEF Inv, CountOK, UpTo
  <2> QED BY <1>2, <2>5, <2>6 DEF CountOK, UpTo
<1>7. OrderOK'
  <2>1. ASSUME NEW i \in 1 .. n - 1 PROVE ring'[chain[i]] = ring[chain[i]]
    <3>1. i \in 1 .. n /\ n \in 1 .. n /\ i # n
      OBVIOUS
    <3>2. chain[i] # qw
      BY <3>1, ChainDistinct
    <3> QED BY <1>2, <3>1, <3>2, IdleRings DEF Inv, TypeOK
  <2> QED BY <1>2, <2>1 DEF Inv, OrderOK, UpTo
<1> QED BY <1>3, <1>4, <1>5, <1>6, <1>7 DEF Inv

(* fio_queue_push extends the chain by one ring that holds one task.  What *)
(* the two ways of finding that ring have in common.                       *)
LEMMA ExtendInv ==
    ASSUME Inv, mode = "idle", NEW a \in Address, a \notin Linked,
           NEW g \in Ring, RingOK(g), RingLen(g) = 1, ~RingEmpty(g),
           next' = [next EXCEPT ![qw] = a, ![a] = Nil],
           ring' = [ring EXCEPT ![a] = g],
           qw' = a, qr' = qr, chain' = Append(chain, a),
           ahead' = [ahead EXCEPT ![a] = UpTo(qw)],
           live' = live \cup ({a} \ {Mem}), leaks' \in Int,
           count' = count + 1, UNCHANGED mode
    PROVE  Inv'
<1> DEFINE n == Len(chain)
<1> USE IdleLemma
<1>1. /\ Len(chain') = n + 1 /\ chain'[n + 1] = a
      /\ \A i \in 1 .. n : chain'[i] = chain[i]
      /\ chain' \in Seq(Address)
  BY DEF Inv, TypeOK
<1>2. \A i \in 1 .. n : chain[i] # a /\ chain[i] \in Address
  BY IdleRings DEF Linked
<1>3. Linked' = Linked \cup {a}
  BY <1>1 DEF Linked
<1>4. RingLen(ring[qw]) \in Nat /\ ahead[qw] \in Nat /\ UpTo(qw) \in Nat
  BY IdleEnds DEF UpTo
<1>5. TypeOK'
  <2>1. a \in HeapRing \cup {Mem}
    BY DEF Address
  <2>2. live' \in SUBSET HeapRing
    BY <2>1 DEF Inv, TypeOK
  <2>3. ring' \in [Address -> Ring] /\ next' \in [Address -> Address \cup {Nil}]
    BY DEF Inv, TypeOK
  <2>4. ahead' \in [Address -> Nat] /\ count' \in Nat
    BY <1>4 DEF Inv, TypeOK
  <2>5. qr' \in Address \cup {Nil} /\ qw' \in Address /\ mode' \in {"idle", "destroying"}
    BY DEF Inv, TypeOK
  <2> QED BY <1>1, <2>2, <2>3, <2>4, <2>5 DEF TypeOK
<1>6. LinksOK'
  <2>1. \A i, j \in 1 .. n + 1 : chain'[i] = chain'[j] => i = j
    BY <1>1, <1>2 DEF Inv, LinksOK
  <2>2. ASSUME NEW i \in 1 .. n PROVE next'[chain'[i]] = chain'[i + 1]
    <3>1. CASE i = n
      BY <1>1, <1>2, <3>1, AddressAssumption DEF Inv, TypeOK
    <3>2. CASE i # n
      <4>1. i \in 1 .. n - 1 /\ i + 1 \in 1 .. n
        BY <3>2
      <4>2. chain[i] # qw /\ chain[i] # a
        BY <1>2, <4>1 DEF Inv, LinksOK
      <4>3. next[chain[i]] = chain[i + 1]
        BY <4>1 DEF Inv, LinksOK
      <4> QED BY <1>1, <1>2, <4>1, <4>2, <4>3 DEF Inv, TypeOK
    <3> QED BY <3>1, <3>2
  <2>3. qr' = chain'[1] /\ qw' = chain'[n + 1] /\ next'[a] = Nil
    BY <1>1 DEF Inv, TypeOK
  <2>4. Mem \notin Linked' => next'[Mem] = Nil
    <3>1. SUFFICES ASSUME Mem \notin Linked' PROVE next'[Mem] = Nil
      OBVIOUS
    <3>2. Mem \notin Linked /\ Mem # a /\ Mem # qw /\ Mem \in Address
      BY <1>3, <3>1 DEF Address
    <3> QED BY <3>2 DEF Inv, LinksOK, TypeOK
  <2>5. chain' # <<>> /\ (n + 1) - 1 = n
    BY <1>1
  <2> QED BY ONLY <1>1, <2>1, <2>2, <2>3, <2>4, <2>5 DEF LinksOK
<1>7. MemoryOK'
  BY <1>3 DEF Inv, MemoryOK
<1>8. /\ \A i \in 1 .. n : ring'[chain'[i]] = ring[chain[i]]
      /\ ring'[a] = g
      /\ \A i \in 1 .. n : ahead'[chain'[i]] = ahead[chain[i]]
      /\ ahead'[a] = UpTo(qw)
  BY <1>1, <1>2 DEF Inv, TypeOK
<1>9. RingsOK'
  BY <1>1, <1>8 DEF Inv, RingsOK
<1>10. CountOK'
  <2>1. ASSUME NEW i \in 1 .. n
        PROVE  ahead'[chain'[i + 1]] = ahead'[chain'[i]] + RingLen(ring'[chain'[i]])
    <3>1. CASE i = n
      BY <1>1, <1>8, <3>1 DEF UpTo
    <3>2. CASE i # n
      <4>1. i \in 1 .. n - 1 /\ i + 1 \in 1 .. n
        BY <3>2
      <4> QED BY <1>8, <4>1 DEF Inv, CountOK, UpTo
    <3> QED BY <3>1, <3>2
  <2>2. ahead'[chain'[1]] = 0
    BY <1>8 DEF Inv, CountOK
  <2>3. count' = ahead'[a] + RingLen(ring'[a])
    BY <1>4, <1>8, IdleEnds
  <2> QED BY <1>1, <2>1, <2>2, <2>3, SMTT(30) DEF CountOK, UpTo
<1>11. OrderOK'
  <2>1. ASSUME NEW i \in 1 .. n + 1, NEW j \in 1 .. n + 1, i < j
        PROVE  ahead'[chain'[i]] + RingLen(ring'[chain'[i]]) <= ahead'[chain'[j]]
    <3>1. i \in 1 .. n /\ ahead'[chain'[i]] = ahead[chain[i]] /\ ring'[chain'[i]] = ring[chain[i]]
      BY <1>8, <2>1
    <3>2. CASE j = n + 1 /\ i = n
      <4>1. chain'[i] = chain[n] /\ chain'[j] = a
        BY <1>1, <3>1, <3>2
      <4>2. /\ ahead'[chain'[i]] = ahead[qw] /\ ring'[chain'[i]] = ring[qw]
            /\ ahead'[chain'[j]] = ahead[qw] + RingLen(ring[qw])
        BY <1>8, <3>1, <3>2, <4>1 DEF UpTo
      <4> QED BY ONLY <1>4, <4>2
    <3>3. CASE j = n + 1 /\ i # n
      <4>1. ahead[chain[i]] + RingLen(ring[chain[i]]) <= ahead[qw]
        BY <3>1, <3>3 DEF Inv, OrderOK, UpTo
      <4>2. /\ ahead'[chain'[j]] = ahead[qw] + RingLen(ring[qw])
            /\ RingLen(ring[chain[i]]) \in Nat /\ ahead[chain[i]] \in Nat
        BY <1>1, <1>8, <3>1, <3>3, IdleRings DEF UpTo
      <4> QED BY ONLY <1>4, <3>1, <4>1, <4>2
    <3>4. CASE j # n + 1
      <4>1. j \in 1 .. n /\ ahead'[chain'[j]] = ahead[chain[j]]
        BY <1>8, <3>4
      <4>2. ahead[chain[i]] + RingLen(ring[chain[i]]) <= ahead[chain[j]]
        BY <2>1, <3>1, <4>1 DEF Inv, OrderOK, UpTo
      <4> QED BY ONLY <3>1, <4>1, <4>2
    <3> QED BY <3>2, <3>3, <3>4
  <2> QED BY <1>1, <2>1 DEF OrderOK, UpTo
<1> QED BY <1>5, <1>6, <1>7, <1>9, <1>10, <1>11 DEF Inv

LEMMA PushReuseMemInv ==
    ASSUME Inv, mode = "idle", NEW t \in Task, PushReuseMem(t),
           count' = count + 1, UNCHANGED mode
    PROVE  Inv'
<1> DEFINE g == RingPush(ResetRing(ring[Mem]), t)
<1>1. Mem \in Address /\ ring[Mem] \in Ring /\ leaks \in Int
  BY DEF Address, Inv, TypeOK
<1>2. RingOK(g) /\ RingLen(g) = 1 /\ ~RingEmpty(g) /\ g \in Ring
  BY <1>1, ResetRingLemma, RingPushLemma DEF RingOK
<1>3. Mem \notin Linked
  <2>1. SUFFICES ASSUME NEW i \in 1 .. Len(chain), chain[i] = Mem PROVE FALSE
    BY DEF Linked
  <2>2. i \in 1 .. Len(chain) - 1
    BY <2>1, IdleLemma DEF PushReuseMem
  <2>3. chain[i + 1] \in Address /\ next[Mem] = chain[i + 1]
    <3>1. i + 1 \in 1 .. Len(chain) /\ next[chain[i]] = chain[i + 1]
      BY <2>2, IdleLemma DEF Inv, LinksOK
    <3> QED BY <2>1, <3>1, IdleRings
  <2> QED BY <2>3, AddressAssumption DEF PushReuseMem, Address
<1>4. next' = [next EXCEPT ![qw] = Mem, ![Mem] = Nil]
  BY <1>1 DEF PushReuseMem, Inv, TypeOK
<1> QED
  BY <1>1, <1>2, <1>3, <1>4, ExtendInv DEF PushReuseMem

LEMMA PushAllocInv ==
    ASSUME Inv, mode = "idle", NEW t \in Task, PushAlloc(t),
           count' = count + 1, UNCHANGED mode
    PROVE  Inv'
<1> DEFINE g == RingPush(NewRing, t)
<1>1. PICK a \in HeapRing \ live :
        /\ live' = live \cup {a}
        /\ next' = [next EXCEPT ![qw] = a, ![a] = Nil]
        /\ ring' = [ring EXCEPT ![a] = g]
        /\ qw' = a
        /\ chain' = Append(chain, a)
        /\ ahead' = [ahead EXCEPT ![a] = UpTo(qw)]
  BY DEF PushAlloc
<1>2. RingOK(g) /\ RingLen(g) = 1 /\ ~RingEmpty(g) /\ g \in Ring
  BY NewRingLemma, RingPushLemma DEF RingOK
<1>3. a \in Address /\ a # Mem /\ a \notin Linked /\ live \cup {a} = live \cup ({a} \ {Mem})
  BY <1>1, AddressAssumption DEF Address, Inv, MemoryOK
<1>4. leaks' \in Int /\ qr' = qr
  BY DEF PushAlloc, Inv, TypeOK
<1> HIDE DEF g
<1> QED
  BY <1>1, <1>2, <1>3, <1>4, ExtendInv

LEMMA PushUrgentRoomInv ==
    ASSUME Inv, mode = "idle", NEW t \in Task, PushUrgentRoom(t),
           count' = count + 1, qw' = qw, UNCHANGED mode
    PROVE  Inv'
<1> DEFINE n == Len(chain)
<1> USE IdleLemma
<1>1. /\ RingOK(RingUnpop(ring[qr], t)) /\ ~RingEmpty(RingUnpop(ring[qr], t))
      /\ RingLen(RingUnpop(ring[qr], t)) = RingLen(ring[qr]) + 1
  <2>1. RingOK(ring[qr]) /\ ~RingFull(ring[qr])
    BY IdleEnds DEF PushUrgentRoom
  <2> QED BY ONLY <2>1, t \in Task, RingUnpopLemma
<1>2. /\ ring' = [ring EXCEPT ![qr] = RingUnpop(ring[qr], t)]
      /\ UNCHANGED <<qr, next, live, leaks, chain>>
      /\ ahead' = [a \in Address |->
                    IF a \in Linked \ {qr} THEN ahead[a] + 1 ELSE ahead[a]]
  BY DEF PushUrgentRoom
<1>3. TypeOK'
  BY <1>1, <1>2 DEF Inv, TypeOK, RingOK
<1>4. LinksOK' /\ MemoryOK'
  BY <1>2 DEF Inv, LinksOK, MemoryOK, Linked
<1>5. RingsOK'
  BY <1>1, <1>2 DEF Inv, RingsOK, TypeOK
<1>6. CountOK'
  <2>1. ASSUME NEW i \in 2 .. n
        PROVE  chain[i] # qr /\ chain[i] \in Linked \ {qr} /\ chain[i] \in Address
    BY ChainDistinct, IdleRings
  <2>2. /\ RingLen(ring'[qr]) = RingLen(ring[qr]) + 1 /\ ahead'[qr] = 0
        /\ \A i \in 2 .. n : /\ ring'[chain[i]] = ring[chain[i]]
                             /\ ahead'[chain[i]] = ahead[chain[i]] + 1
    BY <1>1, <1>2, <2>1, IdleEnds DEF Inv, TypeOK
  <2>3. \A i \in 1 .. n : RingLen(ring[chain[i]]) \in Nat /\ ahead[chain[i]] \in Nat
    BY IdleRings
  <2>4. ASSUME NEW i \in 1 .. n - 1
        PROVE  ahead'[chain[i + 1]] = ahead'[chain[i]] + RingLen(ring'[chain[i]])
    <3>1. i + 1 \in 2 .. n /\ ahead[chain[i + 1]] = ahead[chain[i]] + RingLen(ring[chain[i]])
      BY DEF Inv, CountOK, UpTo
    <3>2. CASE i = 1
      BY <2>2, <2>3, <3>1, <3>2, IdleEnds
    <3>3. CASE i # 1
      <4>1. i \in 2 .. n /\ i + 1 \in 1 .. n /\ i \in 1 .. n
        BY <3>3
      <4>2. ring'[chain[i]] = ring[chain[i]] /\ ahead'[chain[i]] = ahead[chain[i]] + 1
        BY <2>2, <4>1
      <4>3. ahead'[chain[i + 1]] = ahead[chain[i + 1]] + 1
        BY <2>2, <3>1
      <4>4. RingLen(ring[chain[i]]) \in Nat /\ ahead[chain[i]] \in Nat
        BY <2>3, <4>1
      <4> QED BY ONLY <3>1, <4>2, <4>3, <4>4
    <3> QED BY <3>2, <3>3
  <2>5. count' = ahead'[qw] + RingLen(ring'[qw])
    <3>1. count = ahead[qw] + RingLen(ring[qw])
      BY IdleEnds
    <3>2. CASE n = 1
      BY <2>2, <2>3, <3>1, <3>2, IdleEnds
    <3>3. CASE n # 1
      <4>1. n \in 2 .. n
        BY <3>3
      <4>2. ring'[qw] = ring[qw] /\ ahead'[qw] = ahead[qw] + 1
        BY <2>2, <4>1
      <4> QED BY <3>1, <4>2, IdleEnds
    <3> QED BY <3>2, <3>3
  <2> QED BY <1>2, <2>2, <2>4, <2>5 DEF CountOK, UpTo
<1>7. OrderOK'
  <2>1. ASSUME NEW i \in 1 .. n, NEW j \in 1 .. n, i < j
        PROVE  ahead'[chain[i]] + RingLen(ring'[chain[i]]) <= ahead'[chain[j]]
    <3>1. /\ ahead[chain[i]] + RingLen(ring[chain[i]]) <= ahead[chain[j]]
          /\ RingLen(ring[chain[i]]) \in Nat /\ ahead[chain[i]] \in Nat
          /\ ahead[chain[j]] \in Nat
      BY <2>1, IdleRings DEF Inv, OrderOK, UpTo
    <3>2. ahead'[chain[j]] = ahead[chain[j]] + 1
      <4>1. chain[j] \in Linked \ {qr} /\ chain[j] \in Address
        BY <2>1, ChainDistinct, IdleRings
      <4> QED BY <1>2, <4>1
    <3>3. ahead'[chain[i]] + RingLen(ring'[chain[i]]) = ahead[chain[i]] + RingLen(ring[chain[i]]) + 1
      <4>1. CASE i = 1
        BY <1>1, <1>2, <3>1, <4>1, IdleEnds DEF Inv, TypeOK
      <4>2. CASE i # 1
        <5>1. chain[i] \in Linked \ {qr} /\ chain[i] \in Address
          BY <4>2, ChainDistinct, IdleRings
        <5>2. ahead'[chain[i]] = ahead[chain[i]] + 1 /\ ring'[chain[i]] = ring[chain[i]]
          BY <1>2, <5>1 DEF Inv, TypeOK
        <5> QED BY <3>1, <5>2
      <4> QED BY <4>1, <4>2
    <3> QED BY ONLY <3>1, <3>2, <3>3
  <2> QED BY <1>2, <2>1 DEF OrderOK, UpTo
<1> QED BY <1>3, <1>4, <1>5, <1>6, <1>7 DEF Inv

LEMMA PushUrgentAllocInv ==
    ASSUME Inv, mode = "idle", NEW t \in Task, PushUrgentAlloc(t),
           count' = count + 1, qw' = qw, UNCHANGED mode
    PROVE  Inv'
<1> DEFINE n == Len(chain)
           g == OneTaskRing(t)
<1> USE IdleLemma
<1>1. PICK a \in HeapRing \ live :
        /\ live' = live \cup {a}
        /\ next' = [next EXCEPT ![a] = qr]
        /\ ring' = [ring EXCEPT ![a] = g]
        /\ qr' = a
        /\ chain' = <<a>> \o chain
        /\ ahead' = [b \in Address |->
                        IF b \in Linked THEN ahead[b] + 1 ELSE 0]
  BY DEF PushUrgentAlloc
<1>2. RingOK(g) /\ RingLen(g) = 1 /\ ~RingEmpty(g) /\ g \in Ring
  BY UrgentRingLemma
<1> HIDE DEF g
<1>3. a \in Address /\ a # Mem /\ a \notin Linked /\ RingFull(ring[qr]) /\ leaks' \in Int
  BY <1>1, AddressAssumption DEF Address, Inv, MemoryOK, TypeOK, PushUrgentAlloc
<1>4. /\ Len(chain') = n + 1 /\ chain'[1] = a
      /\ \A i \in 1 .. n : chain'[i + 1] = chain[i]
      /\ \A i \in 2 .. n + 1 : chain'[i] = chain[i - 1]
      /\ chain' \in Seq(Address)
  BY <1>1, <1>3 DEF Inv, TypeOK
<1>5. \A i \in 1 .. n : chain[i] # a /\ chain[i] \in Address /\ chain[i] \in Linked
  BY <1>3, IdleRings
<1>6. Linked' = Linked \cup {a}
  <2>1. Linked' = {chain'[i] : i \in 1 .. n + 1}
    BY <1>4 DEF Linked
  <2>2. ASSUME NEW i \in 1 .. n + 1 PROVE chain'[i] \in Linked \cup {a}
    <3>1. CASE i = 1
      BY <1>4, <3>1
    <3>2. CASE i # 1
      <4>1. i - 1 \in 1 .. n /\ i \in 2 .. n + 1
        BY <3>2
      <4> QED BY <1>4, <1>5, <4>1
    <3> QED BY <3>1, <3>2
  <2>3. ASSUME NEW i \in 1 .. n PROVE chain[i] \in Linked'
    <3>1. i + 1 \in 1 .. n + 1 /\ chain'[i + 1] = chain[i]
      BY <1>4
    <3> QED BY <2>1, <3>1
  <2>4. a \in Linked'
    BY <1>4, <2>1
  <2> QED BY ONLY <2>1, <2>2, <2>3, <2>4 DEF Linked
<1>7. TypeOK'
  <2>1. /\ ring' \in [Address -> Ring] /\ next' \in [Address -> Address \cup {Nil}]
        /\ live' \in SUBSET HeapRing
    BY <1>1, <1>2 DEF Inv, TypeOK
  <2>2. ahead' \in [Address -> Nat] /\ count' \in Nat
    BY <1>1 DEF Inv, TypeOK
  <2>3. qr' \in Address \cup {Nil} /\ qw' \in Address /\ mode' \in {"idle", "destroying"}
    BY <1>1, <1>3 DEF Inv, TypeOK
  <2> QED BY <1>3, <1>4, <2>1, <2>2, <2>3 DEF TypeOK
<1>8. LinksOK'
  <2>1. \A i, j \in 1 .. n + 1 : chain'[i] = chain'[j] => i = j
    <3> SUFFICES ASSUME NEW i \in 1 .. n + 1, NEW j \in 1 .. n + 1,
                        chain'[i] = chain'[j]
                 PROVE  i = j
      OBVIOUS
    <3>1. CASE i = 1 \/ j = 1
      <4>1. \A k \in 1 .. n + 1 : k # 1 => chain'[k] # a
        <5>1. \A k \in 1 .. n + 1 : k # 1 => k - 1 \in 1 .. n /\ chain'[k] = chain[k - 1]
          BY <1>4
        <5> QED BY <1>5, <5>1
      <4> QED BY <1>4, <3>1, <4>1
    <3>2. CASE i # 1 /\ j # 1
      <4>1. i - 1 \in 1 .. n /\ j - 1 \in 1 .. n
        BY <3>2
      <4>2. chain[i - 1] = chain[j - 1]
        BY <1>4, <3>2
      <4> QED BY <4>1, <4>2, ChainDistinct
    <3> QED BY <3>1, <3>2
  <2>2. ASSUME NEW i \in 1 .. n PROVE next'[chain'[i]] = chain'[i + 1]
    <3>1. CASE i = 1
      <4>1. chain'[i] = a /\ chain'[i + 1] = qr /\ next'[a] = qr
        BY <1>1, <1>3, <1>4, <3>1 DEF Inv, TypeOK
      <4> QED BY <4>1
    <3>2. CASE i # 1
      <4>1. i - 1 \in 1 .. n - 1 /\ (i - 1) + 1 = i /\ chain'[i] = chain[i - 1]
        BY <1>4, <3>2
      <4>2. next[chain[i - 1]] = chain[i] /\ chain[i - 1] # a
        BY <1>5, <4>1 DEF Inv, LinksOK
      <4>3. chain'[i + 1] = chain[i] /\ chain[i - 1] \in Address
        BY <1>4, <1>5, <4>1
      <4> QED BY <1>1, <4>1, <4>2, <4>3 DEF Inv, TypeOK
    <3> QED BY <3>1, <3>2
  <2>3. qr' = chain'[1] /\ qw' = chain'[n + 1] /\ next'[qw] = Nil
    BY <1>1, <1>4, <1>5 DEF Inv, TypeOK
  <2>4. Mem \notin Linked' => next'[Mem] = Nil
    BY <1>1, <1>3, <1>6 DEF Inv, LinksOK, TypeOK, Address
  <2>5. chain' # <<>>
    BY <1>4
  <2> QED BY <1>4, <2>1, <2>2, <2>3, <2>4, <2>5 DEF LinksOK
<1>9. MemoryOK'
  BY <1>1, <1>3, <1>6 DEF Inv, MemoryOK
<1>10. /\ \A i \in 1 .. n : /\ ring'[chain'[i + 1]] = ring[chain[i]]
                            /\ ahead'[chain'[i + 1]] = ahead[chain[i]] + 1
       /\ ring'[a] = g /\ ahead'[a] = 0
  BY <1>1, <1>3, <1>4, <1>5 DEF Inv, TypeOK
<1>11. RingsOK'
  <2>1. ASSUME NEW i \in 1 .. n + 1
        PROVE  RingOK(ring'[chain'[i]]) /\ (i # 1 => ~RingEmpty(ring'[chain'[i]]))
    <3>1. CASE i = 1
      BY <1>2, <1>4, <1>10, <3>1
    <3>2. CASE i # 1
      <4>1. i - 1 \in 1 .. n /\ (i - 1) + 1 = i
        BY <3>2
      <4>2. ring'[chain'[i]] = ring[chain[i - 1]]
        BY <1>10, <4>1
      <4>3. CASE i - 1 = 1
        BY <1>3, <4>2, <4>3, IdleEnds DEF RingFull, RingEmpty
      <4>4. CASE i - 1 # 1
        <5>1. i - 1 \in 2 .. n
          BY <4>1, <4>4
        <5> QED BY <4>2, <5>1 DEF Inv, RingsOK
      <4> QED BY <4>3, <4>4
    <3> QED BY <3>1, <3>2
  <2>2. \A i \in 2 .. n + 1 : i \in 1 .. n + 1 /\ i # 1
    OBVIOUS
  <2> QED BY ONLY <1>4, <2>1, <2>2 DEF RingsOK
<1>12. CountOK'
  <2>1. \A i \in 1 .. n : RingLen(ring[chain[i]]) \in Nat /\ ahead[chain[i]] \in Nat
    BY IdleRings
  <2>3. ASSUME NEW i \in 1 .. n
        PROVE  ahead'[chain'[i + 1]] = ahead'[chain'[i]] + RingLen(ring'[chain'[i]])
    <3>1. CASE i = 1
      <4>1. chain'[i] = a /\ chain'[i + 1] = qr /\ ahead'[chain'[i + 1]] = ahead[qr] + 1
        BY <1>4, <1>10, <3>1
      <4> QED BY <1>2, <1>10, <4>1, IdleEnds
    <3>2. CASE i # 1
      <4>1. i - 1 \in 1 .. n - 1 /\ (i - 1) + 1 = i
        BY <3>2
      <4>2. ahead[chain[i]] = ahead[chain[i - 1]] + RingLen(ring[chain[i - 1]])
        BY <4>1 DEF Inv, CountOK, UpTo
      <4>3. /\ ahead'[chain'[i + 1]] = ahead[chain[i]] + 1
            /\ ahead'[chain'[i]] = ahead[chain[i - 1]] + 1
            /\ ring'[chain'[i]] = ring[chain[i - 1]]
            /\ i - 1 \in 1 .. n
        BY <1>10, <4>1
      <4>4. RingLen(ring[chain[i - 1]]) \in Nat /\ ahead[chain[i - 1]] \in Nat
        BY <2>1, <4>3
      <4> QED BY ONLY <4>2, <4>3, <4>4
    <3> QED BY <3>1, <3>2
  <2>4. count' = ahead'[qw] + RingLen(ring'[qw])
    <3>1. n \in 1 .. n /\ qw = chain'[n + 1]
      BY <1>4
    <3>2. ahead'[qw] = ahead[qw] + 1 /\ ring'[qw] = ring[qw]
      BY <1>10, <3>1
    <3> QED BY <3>2, IdleEnds
  <2> QED BY <1>4, <1>8, <1>10, <2>3, <2>4 DEF CountOK, UpTo, LinksOK
<1>13. OrderOK'
  <2>1. ASSUME NEW i \in 1 .. n + 1, NEW j \in 1 .. n + 1, i < j
        PROVE  ahead'[chain'[i]] + RingLen(ring'[chain'[i]]) <= ahead'[chain'[j]]
    <3>1. j - 1 \in 1 .. n /\ ahead'[chain'[j]] = ahead[chain[j - 1]] + 1
      <4>1. j - 1 \in 1 .. n /\ (j - 1) + 1 = j
        BY <2>1
      <4> QED BY <1>10, <4>1
    <3>2. ahead[chain[j - 1]] \in Nat
      BY <3>1, IdleRings
    <3>3. CASE i = 1
      BY <1>2, <1>4, <1>10, <3>1, <3>2, <3>3
    <3>4. CASE i # 1
      <4>1. i - 1 \in 1 .. n /\ (i - 1) + 1 = i
        BY <3>4
      <4>2. ahead'[chain'[i]] = ahead[chain[i - 1]] + 1 /\ ring'[chain'[i]] = ring[chain[i - 1]]
        BY <1>10, <4>1
      <4>3. ahead[chain[i - 1]] + RingLen(ring[chain[i - 1]]) <= ahead[chain[j - 1]]
        BY <2>1, <3>1, <4>1 DEF Inv, OrderOK, UpTo
      <4>4. RingLen(ring[chain[i - 1]]) \in Nat /\ ahead[chain[i - 1]] \in Nat
        BY <4>1, IdleRings
      <4>5. /\ RingLen(ring'[chain'[i]]) = RingLen(ring[chain[i - 1]])
            /\ ahead'[chain'[i]] = ahead[chain[i - 1]] + 1
            /\ ahead'[chain'[j]] = ahead[chain[j - 1]] + 1
        BY ONLY <3>1, <4>2
      <4> QED BY ONLY <3>2, <4>3, <4>4, <4>5
    <3> QED BY <3>3, <3>4
  <2> QED BY <1>4, <2>1 DEF OrderOK, UpTo
<1> QED BY <1>7, <1>8, <1>9, <1>11, <1>12, <1>13 DEF Inv

(* What a pop finds: it hops over at most one empty ring and always        *)
(* reaches a task; when that task is the last one, the ring it was in is   *)
(* the last of the chain.                                                  *)
LEMMA PopFacts ==
    ASSUME Inv, mode = "idle", count > 0
    PROVE  LET k == IF Crosses THEN 2 ELSE 1
               g == ring[PopRing]
           IN  /\ k <= Len(chain) /\ PopRing = chain[k] /\ PopRing \in Address
               /\ RingOK(g) /\ g \in Ring /\ ~RingEmpty(g)
               /\ Popped \in Task /\ Popped # NoTask
               /\ RingOK(RingPop(g)) /\ RingPop(g) \in Ring
               /\ RingLen(g) \in Nat \ {0} /\ RingLen(RingPop(g)) = RingLen(g) - 1
               /\ ahead[PopRing] = 0
               /\ count = 1 => k = Len(chain)
<1> DEFINE n == Len(chain)
           k == IF Crosses THEN 2 ELSE 1
           g == ring[PopRing]
<1> USE IdleLemma
<1>0. n \in Nat \ {0}
  OBVIOUS
<1>k. k \in Nat /\ k >= 1
  OBVIOUS
<1>1. k <= n /\ PopRing = chain[k] /\ ~RingEmpty(g) /\ ahead[PopRing] = 0
  <2>1. CASE Crosses
    <3>1. RingLen(ring[qr]) = 0
      BY <2>1, IdleEnds, RingLenLemma DEF Crosses
    <3>2. n # 1
      <4>1. n = 1 => qw = qr
        OBVIOUS
      <4>2. qw = qr => count = 0
        BY ONLY <3>1, IdleEnds, Inv, mode = "idle"
      <4> QED BY ONLY <4>1, <4>2, count > 0
    <3>3. 1 \in 1 .. n - 1 /\ 2 \in 2 .. n
      <4> HIDE DEF n
      <4> QED BY ONLY <1>0, <3>2
    <3>4. PopRing = chain[2]
      BY <2>1, <3>3 DEF PopRing, Inv, LinksOK
    <3>5. ahead[chain[2]] = ahead[qr] + RingLen(ring[qr])
      BY <3>3 DEF Inv, CountOK, UpTo
    <3> QED BY <2>1, <3>1, <3>3, <3>4, <3>5, IdleEnds DEF Inv, RingsOK
  <2>2. CASE ~Crosses
    BY <2>2, IdleEnds DEF PopRing, Crosses
  <2> QED BY <2>1, <2>2
<1>2. k \in 1 .. n
  BY <1>1
<1>3. RingOK(g) /\ PopRing \in Address
  BY <1>1, <1>2, IdleRings
<1>4. /\ Popped \in Task /\ Popped # NoTask /\ RingOK(RingPop(g))
      /\ RingLen(g) > 0 /\ RingLen(RingPop(g)) = RingLen(g) - 1
  BY <1>1, <1>3, RingPopLemma, TaskAssumption DEF Popped
<1>5. RingLen(g) \in Nat \ {0} /\ g \in Ring /\ RingPop(g) \in Ring
  BY <1>3, <1>4, RingLenLemma DEF RingOK
<1>6. count = 1 => k = n
  <2> SUFFICES ASSUME k # n PROVE count # 1
    OBVIOUS
  <2>1. n \in 2 .. n /\ n \in 1 .. n /\ k < n
    <3>1. k <= n
      BY <1>1
    <3> HIDE DEF n, k
    <3> QED BY ONLY <1>0, <1>k, <3>1, k # n
  <2>2. RingLen(ring[qw]) \in Nat \ {0}
    BY <2>1, IdleEnds, RingLenLemma DEF Inv, RingsOK
  <2>3. ahead[chain[k]] + RingLen(ring[chain[k]]) <= ahead[chain[n]]
    BY <1>2, <2>1 DEF Inv, OrderOK, UpTo
  <2>4. ahead[qw] >= 1
    <3>1. RingLen(g) <= ahead[qw]
      BY <1>1, <1>5, <2>3
    <3> QED BY <1>5, <3>1, IdleEnds
  <2> QED BY <2>2, <2>4, IdleEnds
<1> QED BY <1>1, <1>3, <1>4, <1>5, <1>6

(* What every pop does to the counters of the rings that stay in the       *)
(* chain: the popped ring loses a task, the ones behind it have one less   *)
(* ahead of them.                                                          *)
LEMMA PopRest ==
    ASSUME Inv, mode = "idle", count > 0, Pop, ~Drained,
           NEW i \in 1 .. Len(chain), i >= (IF Crosses THEN 2 ELSE 1)
    PROVE  LET k == IF Crosses THEN 2 ELSE 1
           IN  /\ i = k => /\ ring'[chain[i]] = RingPop(ring[chain[i]])
                           /\ ahead'[chain[i]] = 0
               /\ i > k => /\ ring'[chain[i]] = ring[chain[i]]
                           /\ ahead'[chain[i]] = ahead[chain[i]] - 1
                           /\ ahead[chain[i]] - 1 \in Nat
<1> DEFINE n == Len(chain)
           k == IF Crosses THEN 2 ELSE 1
<1>1. PopFrees = (IF Crosses THEN {qr} ELSE {})
  BY DEF PopFrees
<1>2. chain[i] \in Address /\ chain[i] \notin PopFrees
  <2>1. 1 \in 1 .. n /\ qr = chain[1]
    BY IdleLemma
  <2> QED BY <1>1, <2>1, ChainDistinct, IdleRings
<1>3. ring' = Forget(PopFrees, [ring EXCEPT ![PopRing] = RingPop(ring[PopRing])])
  BY DEF Pop
<1>4. ring'[chain[i]] = [ring EXCEPT ![PopRing] = RingPop(ring[PopRing])][chain[i]]
  BY <1>2, <1>3 DEF Forget
<1>5. ahead'[chain[i]] = IF ahead[chain[i]] > 0 THEN ahead[chain[i]] - 1 ELSE 0
  BY <1>2 DEF Pop
<1>6. k \in 1 .. n /\ PopRing = chain[k] /\ PopRing \in Address /\ ahead[PopRing] = 0
  BY PopFacts, IdleLemma
<1>7. ASSUME i = k
      PROVE  ring'[chain[i]] = RingPop(ring[chain[i]]) /\ ahead'[chain[i]] = 0
  BY <1>4, <1>5, <1>6, <1>7 DEF Inv, TypeOK
<1>8. ASSUME i > k
      PROVE  /\ ring'[chain[i]] = ring[chain[i]]
             /\ ahead'[chain[i]] = ahead[chain[i]] - 1
             /\ ahead[chain[i]] - 1 \in Nat
  <2>1. chain[i] # PopRing
    BY <1>6, <1>8, ChainDistinct
  <2>2. RingLen(ring[chain[k]]) <= ahead[chain[i]]
    <3>1. ahead[chain[k]] + RingLen(ring[chain[k]]) <= ahead[chain[i]]
      BY <1>6, <1>8 DEF Inv, OrderOK, UpTo
    <3> QED BY <1>6, <3>1, IdleRings
  <2>3. RingLen(ring[chain[k]]) \in Nat \ {0}
    BY <1>6, PopFacts
  <2>4. ahead[chain[i]] \in Nat \ {0}
    BY <2>2, <2>3, IdleRings
  <2> QED BY <1>2, <1>4, <1>5, <2>1, <2>4 DEF Inv, TypeOK
<1> QED BY <1>7, <1>8

LEMMA PopTypeOK ==
    ASSUME Inv, mode = "idle", count > 0, Pop
    PROVE  TypeOK'
<1>1. PopRing \in Address /\ RingPop(ring[PopRing]) \in Ring /\ Popped # NoTask
  BY PopFacts
<1>2. Mem \in Address /\ NewRing \in Ring /\ \A g \in Ring : ResetRing(g) \in Ring
  BY NewRingLemma, ResetRingLemma DEF Address
<1> DEFINE popped == [ring EXCEPT ![PopRing] = RingPop(ring[PopRing])]
           reset == [popped EXCEPT ![Mem] = ResetRing(popped[Mem])]
<1>3. popped \in [Address -> Ring]
  BY <1>1 DEF Inv, TypeOK
<1>4. reset \in [Address -> Ring]
  <2> HIDE DEF popped
  <2> QED BY <1>2, <1>3
<1>5. ring' \in [Address -> Ring]
  <2>1. ring' = Forget(PopFrees, popped) \/ ring' = Forget(PopFrees, reset)
    BY DEF Pop
  <2> HIDE DEF popped, reset
  <2> QED BY <1>2, <1>3, <1>4, <2>1 DEF Forget
<1>6. next' \in [Address -> Address \cup {Nil}] /\ live' \in SUBSET HeapRing
  BY DEF Pop, Inv, TypeOK
<1>7. count' \in Nat /\ leaks' \in Int
  BY <1>1 DEF Pop, Inv, TypeOK
<1>8. ahead' \in [Address -> Nat]
  BY DEF Pop, Inv, TypeOK
<1>9. qr' \in Address /\ qw' \in Address /\ mode' = "idle"
  BY <1>1, <1>2, IdleLemma DEF Pop
<1>10. chain' \in Seq(Address)
  <2>1. Tail(chain) \in Seq(Address) /\ <<Mem>> \in Seq(Address)
    BY <1>2, IdleLemma DEF Inv, TypeOK
  <2> QED BY <2>1 DEF Pop, Inv, TypeOK
<1> QED BY <1>5, <1>6, <1>7, <1>8, <1>9, <1>10 DEF TypeOK

(* A pop that stays in the first ring.                                     *)
LEMMA PopStayInv ==
    ASSUME Inv, mode = "idle", count > 0, Pop, ~Drained, ~Crosses
    PROVE  Inv'
<1> DEFINE n == Len(chain)
<1> USE IdleLemma
<1>1. /\ qr' = qr /\ qw' = qw /\ next' = next /\ live' = live /\ chain' = chain
      /\ count' = count - 1 /\ UNCHANGED mode
  <2>1. Popped # NoTask /\ PopRing = qr /\ PopFrees = {}
    BY PopFacts DEF PopRing, PopFrees
  <2> QED BY <2>1 DEF Pop
<1>2. /\ ring'[qr] = RingPop(ring[qr]) /\ ahead'[qr] = 0
      /\ RingOK(ring'[qr]) /\ RingLen(ring'[qr]) = RingLen(ring[qr]) - 1
  <2>1. 1 \in 1 .. n /\ PopRing = qr
    BY DEF PopRing
  <2> QED BY <2>1, PopRest, PopFacts
<1>3. ASSUME NEW i \in 2 .. n
      PROVE  /\ ring'[chain[i]] = ring[chain[i]]
             /\ ahead'[chain[i]] = ahead[chain[i]] - 1
             /\ ahead[chain[i]] \in Nat /\ RingLen(ring[chain[i]]) \in Nat
  BY PopRest, IdleRings
<1>4. LinksOK' /\ MemoryOK'
  BY <1>1 DEF Inv, LinksOK, MemoryOK, Linked
<1>5. RingsOK'
  <2>1. \A i \in 1 .. n : RingOK(ring'[chain[i]])
    BY <1>2, <1>3, IdleRings
  <2>2. \A i \in 2 .. n : ~RingEmpty(ring'[chain[i]])
    BY <1>3 DEF Inv, RingsOK
  <2> QED BY <1>1, <2>1, <2>2 DEF RingsOK
<1>6. ASSUME NEW i \in 1 .. n
      PROVE  /\ ahead'[chain[i]] + RingLen(ring'[chain[i]])
                    = ahead[chain[i]] + RingLen(ring[chain[i]]) - 1
             /\ ahead[chain[i]] \in Nat /\ RingLen(ring[chain[i]]) \in Nat
  <2>1. ahead[chain[i]] \in Nat /\ RingLen(ring[chain[i]]) \in Nat
    BY IdleRings
  <2>2. CASE i = 1
    BY <1>2, <2>1, <2>2, IdleEnds
  <2>3. CASE i # 1
    <3>1. i \in 2 .. n
      BY <2>3
    <3>2. ring'[chain[i]] = ring[chain[i]] /\ ahead'[chain[i]] = ahead[chain[i]] - 1
      BY <1>3, <3>1
    <3> QED BY ONLY <2>1, <3>2
  <2> QED BY <2>1, <2>2, <2>3
<1>7. CountOK'
  <2>1. ASSUME NEW i \in 1 .. n - 1
        PROVE  ahead'[chain[i + 1]] = ahead'[chain[i]] + RingLen(ring'[chain[i]])
    <3>1. i + 1 \in 2 .. n /\ i \in 1 .. n
      OBVIOUS
    <3>2. ahead[chain[i + 1]] = ahead[chain[i]] + RingLen(ring[chain[i]])
      BY DEF Inv, CountOK, UpTo
    <3>3. ahead'[chain[i + 1]] = ahead[chain[i + 1]] - 1
      BY <1>3, <3>1
    <3>4. /\ ahead'[chain[i]] + RingLen(ring'[chain[i]])
                = ahead[chain[i]] + RingLen(ring[chain[i]]) - 1
          /\ ahead[chain[i]] \in Nat /\ RingLen(ring[chain[i]]) \in Nat
      BY <1>6, <3>1
    <3> QED BY ONLY <3>2, <3>3, <3>4
  <2>2. count' = ahead'[chain[n]] + RingLen(ring'[chain[n]])
    <3>1. n \in 1 .. n
      OBVIOUS
    <3>2. /\ ahead'[chain[n]] + RingLen(ring'[chain[n]])
                = ahead[chain[n]] + RingLen(ring[chain[n]]) - 1
      BY <1>6, <3>1
    <3>3. /\ count = ahead[chain[n]] + RingLen(ring[chain[n]]) /\ count' = count - 1
          /\ ahead[chain[n]] \in Nat /\ RingLen(ring[chain[n]]) \in Nat
      BY <1>1, IdleEnds
    <3> QED BY ONLY <3>2, <3>3
  <2> QED BY <1>1, <1>2, <2>1, <2>2 DEF CountOK, UpTo
<1>8. OrderOK'
  <2>1. ASSUME NEW i \in 1 .. n, NEW j \in 1 .. n, i < j
        PROVE  ahead'[chain[i]] + RingLen(ring'[chain[i]]) <= ahead'[chain[j]]
    <3>1. ahead[chain[i]] + RingLen(ring[chain[i]]) <= ahead[chain[j]]
      BY <2>1 DEF Inv, OrderOK, UpTo
    <3>2. ahead'[chain[j]] = ahead[chain[j]] - 1 /\ ahead[chain[j]] \in Nat
      <4>1. j \in 2 .. n
        BY <2>1
      <4> QED BY <1>3, <4>1
    <3>3. /\ ahead'[chain[i]] + RingLen(ring'[chain[i]])
                = ahead[chain[i]] + RingLen(ring[chain[i]]) - 1
          /\ ahead[chain[i]] \in Nat /\ RingLen(ring[chain[i]]) \in Nat
      BY <1>6
    <3> QED BY ONLY <3>1, <3>2, <3>3
  <2> QED BY <1>1, <2>1 DEF OrderOK, UpTo
<1> QED BY <1>4, <1>5, <1>7, <1>8, PopTypeOK DEF Inv

(* A pop that unlinks an empty first ring and goes on to the next.         *)
LEMMA PopCrossInv ==
    ASSUME Inv, mode = "idle", count > 0, Pop, ~Drained, Crosses
    PROVE  Inv'
<1> DEFINE n == Len(chain)
<1> USE IdleLemma
<1>1. /\ qr' = chain[2] /\ qw' = qw /\ next' = [next EXCEPT ![qr] = Nil]
      /\ live' = live \ {qr} /\ chain' = Tail(chain)
      /\ count' = count - 1 /\ UNCHANGED mode
  <2>1. Popped # NoTask /\ PopRing = chain[2] /\ PopFrees = {qr}
    BY PopFacts DEF PopFrees
  <2> QED BY <2>1 DEF Pop
<1>2. /\ n \in Nat /\ n >= 2
      /\ ring'[chain[2]] = RingPop(ring[chain[2]]) /\ ahead'[chain[2]] = 0
      /\ RingOK(ring'[chain[2]]) /\ RingLen(ring'[chain[2]]) = RingLen(ring[chain[2]]) - 1
      /\ ahead[chain[2]] = 0 /\ RingLen(ring[chain[2]]) \in Nat
  <2>1. n >= 2 /\ PopRing = chain[2]
    BY PopFacts
  <2>2. 2 \in 1 .. n
    BY <2>1
  <2> QED BY <2>1, <2>2, PopRest, PopFacts
<1>3. ASSUME NEW i \in 3 .. n
      PROVE  /\ ring'[chain[i]] = ring[chain[i]]
             /\ ahead'[chain[i]] = ahead[chain[i]] - 1
             /\ ahead[chain[i]] \in Nat /\ RingLen(ring[chain[i]]) \in Nat
  BY PopRest, IdleRings
<1>4. /\ Len(chain') = n - 1 /\ chain' # <<>>
      /\ \A i \in 1 .. n - 1 : chain'[i] = chain[i + 1] /\ i + 1 \in 2 .. n
  <2>1. chain \in Seq(Address) /\ chain # <<>> /\ chain' = Tail(chain)
    BY <1>1 DEF Inv, TypeOK
  <2>2. n \in Nat /\ n >= 2
    BY <1>2
  <2>3. Len(chain') = n - 1 /\ \A i \in 1 .. n - 1 : chain'[i] = chain[i + 1]
    BY ONLY <2>1, <2>2
  <2>4. chain' # <<>>
    BY ONLY <2>2, <2>3
  <2>5. \A i \in 1 .. n - 1 : i + 1 \in 2 .. n
    BY <2>2
  <2> QED BY ONLY <2>3, <2>4, <2>5
<1>5. \A i \in 2 .. n : chain[i] # qr /\ chain[i] \in Address
  BY ChainDistinct, IdleRings
<1>6. Linked' = Linked \ {qr}
  <2>1. Linked' = {chain'[i] : i \in 1 .. n - 1}
    BY <1>4 DEF Linked
  <2>2. ASSUME NEW i \in 1 .. n - 1 PROVE chain'[i] \in Linked \ {qr}
    <3>1. i + 1 \in 2 .. n /\ i + 1 \in 1 .. n /\ chain'[i] = chain[i + 1]
      BY <1>4
    <3>2. chain[i + 1] \in Linked
      BY <3>1, IdleRings
    <3> QED BY ONLY <1>5, <3>1, <3>2
  <2>3. ASSUME NEW i \in 1 .. n, chain[i] # qr PROVE chain[i] \in Linked'
    <3>1. i - 1 \in 1 .. n - 1 /\ (i - 1) + 1 = i
      BY <1>2, <2>3
    <3>2. chain'[i - 1] = chain[i]
      BY <1>4, <3>1
    <3> QED BY <2>1, <3>1, <3>2
  <2> QED BY ONLY <2>1, <2>2, <2>3 DEF Linked
<1>7. LinksOK'
  <2>1. ASSUME NEW i \in 1 .. n - 1, NEW j \in 1 .. n - 1, chain'[i] = chain'[j]
        PROVE  i = j
    <3>1. i + 1 \in 1 .. n /\ j + 1 \in 1 .. n /\ chain[i + 1] = chain[j + 1]
      BY <1>4, <2>1
    <3>2. i + 1 = j + 1
      BY <3>1, ChainDistinct
    <3> QED BY <3>2
  <2>2. ASSUME NEW i \in 1 .. (n - 1) - 1 PROVE next'[chain'[i]] = chain'[i + 1]
    <3>1. /\ i + 1 \in 2 .. n /\ i + 1 \in 1 .. n - 1
          /\ chain'[i] = chain[i + 1] /\ chain'[i + 1] = chain[(i + 1) + 1]
      BY <1>4
    <3>2. next[chain[i + 1]] = chain[(i + 1) + 1]
      BY <3>1 DEF Inv, LinksOK
    <3> QED BY <1>1, <1>5, <3>1, <3>2 DEF Inv, TypeOK
  <2>3. /\ qr' = chain'[1] /\ qw' = chain'[n - 1] /\ next'[qw'] = Nil
    <3>1. 1 \in 1 .. n - 1 /\ n - 1 \in 1 .. n - 1 /\ n \in 2 .. n /\ (n - 1) + 1 = n /\ 1 + 1 = 2
      BY <1>2
    <3>2. chain'[1] = chain[2] /\ chain'[n - 1] = chain[n]
      BY <1>4, <3>1
    <3> QED BY <1>1, <1>5, <3>1, <3>2 DEF Inv, TypeOK
  <2>4. Mem \notin Linked' => next'[Mem] = Nil
    BY <1>1, <1>6 DEF Inv, LinksOK, TypeOK, Address
  <2>5. Len(chain') = n - 1 /\ chain' # <<>>
    BY <1>4
  <2> HIDE DEF n
  <2>6. \A i, j \in 1 .. Len(chain') : chain'[i] = chain'[j] => i = j
    BY ONLY <2>1, <2>5
  <2>7. \A i \in 1 .. Len(chain') - 1 : next'[chain'[i]] = chain'[i + 1]
    BY ONLY <2>2, <2>5
  <2>8. qr' = chain'[1] /\ qw' = chain'[Len(chain')] /\ next'[chain'[Len(chain')]] = Nil
    BY ONLY <2>3, <2>5
  <2> QED BY ONLY <2>4, <2>5, <2>6, <2>7, <2>8 DEF LinksOK
<1>8. MemoryOK'
  BY <1>1, <1>6 DEF Inv, MemoryOK
<1>9. RingsOK'
  <2>1. ASSUME NEW i \in 1 .. n - 1
        PROVE  RingOK(ring'[chain'[i]]) /\ (i # 1 => ~RingEmpty(ring'[chain'[i]]))
    <3>1. i + 1 \in 2 .. n /\ chain'[i] = chain[i + 1]
      BY <1>4
    <3>2. CASE i = 1
      BY <1>2, <3>1, <3>2
    <3>3. CASE i # 1
      <4>1. i + 1 \in 3 .. n
        BY <3>1, <3>3
      <4>2. ring'[chain'[i]] = ring[chain[i + 1]]
        BY <1>3, <3>1, <4>1
      <4> QED BY <3>1, <4>2, IdleRings DEF Inv, RingsOK
    <3> QED BY <3>2, <3>3
  <2>2. \A i \in 2 .. n - 1 : i \in 1 .. n - 1 /\ i # 1
    OBVIOUS
  <2> QED BY ONLY <1>4, <2>1, <2>2 DEF RingsOK
<1>10. ASSUME NEW i \in 1 .. n - 1
       PROVE  /\ ahead'[chain'[i]] + RingLen(ring'[chain'[i]])
                     = ahead[chain[i + 1]] + RingLen(ring[chain[i + 1]]) - 1
              /\ ahead[chain[i + 1]] \in Nat /\ RingLen(ring[chain[i + 1]]) \in Nat
  <2>0. ahead[chain[i + 1]] \in Nat /\ RingLen(ring[chain[i + 1]]) \in Nat
    <3>1. i + 1 \in 1 .. n
      BY <1>2
    <3> QED BY <3>1, IdleRings
  <2>1. i + 1 \in 2 .. n /\ chain'[i] = chain[i + 1]
    BY <1>4
  <2>2. CASE i = 1
    BY <1>2, <2>0, <2>1, <2>2
  <2>3. CASE i # 1
    <3>1. i + 1 \in 3 .. n
      BY <2>1, <2>3
    <3>2. /\ ring'[chain[i + 1]] = ring[chain[i + 1]]
          /\ ahead'[chain[i + 1]] = ahead[chain[i + 1]] - 1
      BY <1>3, <3>1
    <3>3. /\ ahead'[chain'[i]] = ahead[chain[i + 1]] - 1
          /\ RingLen(ring'[chain'[i]]) = RingLen(ring[chain[i + 1]])
      BY ONLY <2>1, <3>2
    <3> QED BY ONLY <2>0, <3>3
  <2> QED BY <2>0, <2>2, <2>3
<1>11. CountOK'
  <2>1. ASSUME NEW i \in 1 .. (n - 1) - 1
        PROVE  ahead'[chain'[i + 1]] = ahead'[chain'[i]] + RingLen(ring'[chain'[i]])
    <3>1. /\ i + 1 \in 1 .. n - 1 /\ i \in 1 .. n - 1 /\ (i + 1) + 1 \in 3 .. n
          /\ chain'[i + 1] = chain[(i + 1) + 1]
      BY <1>4
    <3>2. ahead[chain[(i + 1) + 1]] = ahead[chain[i + 1]] + RingLen(ring[chain[i + 1]])
      BY <3>1 DEF Inv, CountOK, UpTo
    <3>3. ahead'[chain'[i + 1]] = ahead[chain[(i + 1) + 1]] - 1
      BY <1>3, <3>1
    <3>4. /\ ahead'[chain'[i]] + RingLen(ring'[chain'[i]])
                = ahead[chain[i + 1]] + RingLen(ring[chain[i + 1]]) - 1
          /\ ahead[chain[i + 1]] \in Nat /\ RingLen(ring[chain[i + 1]]) \in Nat
      BY <1>10, <3>1
    <3> QED BY ONLY <3>2, <3>3, <3>4
  <2>2. count' = ahead'[chain'[n - 1]] + RingLen(ring'[chain'[n - 1]])
    <3>1. n - 1 \in 1 .. n - 1 /\ (n - 1) + 1 = n
      BY <1>2
    <3>2. ahead'[chain'[n - 1]] + RingLen(ring'[chain'[n - 1]])
            = ahead[chain[n]] + RingLen(ring[chain[n]]) - 1
      BY <1>10, <3>1
    <3>3. /\ count = ahead[chain[n]] + RingLen(ring[chain[n]]) /\ count' = count - 1
          /\ ahead[chain[n]] \in Nat /\ RingLen(ring[chain[n]]) \in Nat
      BY <1>1, IdleEnds
    <3> QED BY ONLY <3>2, <3>3
  <2>3. ahead'[chain'[1]] = 0
    BY <1>2, <1>4
  <2> QED BY ONLY <1>4, <2>1, <2>2, <2>3 DEF CountOK, UpTo
<1>12. OrderOK'
  <2>1. ASSUME NEW i \in 1 .. n - 1, NEW j \in 1 .. n - 1, i < j
        PROVE  ahead'[chain'[i]] + RingLen(ring'[chain'[i]]) <= ahead'[chain'[j]]
    <3>1. /\ i + 1 \in 1 .. n /\ j + 1 \in 3 .. n /\ i + 1 < j + 1
          /\ chain'[j] = chain[j + 1]
      BY <1>4, <2>1
    <3>2. ahead[chain[i + 1]] + RingLen(ring[chain[i + 1]]) <= ahead[chain[j + 1]]
      BY <3>1 DEF Inv, OrderOK, UpTo
    <3>3. ahead'[chain'[j]] = ahead[chain[j + 1]] - 1 /\ ahead[chain[j + 1]] \in Nat
      BY <1>3, <3>1
    <3>4. RingLen(ring[chain[i + 1]]) \in Nat /\ ahead[chain[i + 1]] \in Nat
      BY <3>1, IdleRings
    <3>5. ahead'[chain'[i]] + RingLen(ring'[chain'[i]])
            = ahead[chain[i + 1]] + RingLen(ring[chain[i + 1]]) - 1
      BY <1>10
    <3> QED BY ONLY <3>2, <3>3, <3>4, <3>5
  <2> QED BY <1>4, <2>1 DEF OrderOK, UpTo
<1> QED BY <1>7, <1>8, <1>9, <1>11, <1>12, PopTypeOK DEF Inv

(* A queue that is the embedded ring, empty, and nothing else.             *)
LEMMA EmptyQueueInv ==
    ASSUME TypeOK', qr' = Mem, qw' = Mem, chain' = <<Mem>>, count' = 0,
           mode' = "idle", live' = {}, next'[Mem] = Nil, ahead'[Mem] = 0,
           RingOK(ring'[Mem]), RingLen(ring'[Mem]) = 0
    PROVE  Inv'
<1>1. Len(chain') = 1 /\ chain'[1] = Mem /\ 1 .. Len(chain') = {1} /\ chain' # <<>>
  OBVIOUS
<1>2. Linked' = {Mem}
  BY <1>1 DEF Linked
<1>3. LinksOK'
  BY <1>1, <1>2 DEF LinksOK
<1>4. MemoryOK'
  BY <1>2 DEF MemoryOK
<1>5. RingsOK' /\ CountOK' /\ OrderOK'
  BY <1>1 DEF RingsOK, CountOK, OrderOK, UpTo
<1> QED BY <1>3, <1>4, <1>5 DEF Inv

(* A pop of the last task, from an allocated ring: the chain is the        *)
(* embedded ring again, and every allocated ring has been freed.           *)
LEMMA PopDrainedInv ==
    ASSUME Inv, mode = "idle", count > 0, Pop, Drained
    PROVE  Inv'
<1> DEFINE n == Len(chain)
<1> USE IdleLemma
<1>1. count = 1 /\ PopRing # Mem /\ Popped # NoTask
  BY DEF Drained
<1>2. /\ qr' = Mem /\ qw' = Mem /\ chain' = <<Mem>> /\ count' = 0 /\ mode' = "idle"
      /\ live' = live \ PopFrees
  BY <1>1 DEF Pop
<1>3. Mem \in Address
  BY DEF Address
<1>4. ring'[Mem] = ResetRing([ring EXCEPT ![PopRing] = RingPop(ring[PopRing])][Mem])
  <2> DEFINE popped == [ring EXCEPT ![PopRing] = RingPop(ring[PopRing])]
  <2>1. ring' = Forget(PopFrees, [popped EXCEPT ![Mem] = ResetRing(popped[Mem])])
    BY DEF Pop
  <2>2. popped \in [Address -> Ring]
    BY PopFacts DEF Inv, TypeOK
  <2> HIDE DEF popped
  <2>3. ring'[Mem] = [popped EXCEPT ![Mem] = ResetRing(popped[Mem])][Mem]
    BY <1>3, <2>1 DEF Forget
  <2>4. ring'[Mem] = ResetRing(popped[Mem])
    BY <1>3, <2>2, <2>3
  <2> QED BY <2>4 DEF popped
<1>5. ring'[Mem] = ResetRing(ring[Mem]) /\ ring[Mem] \in Ring
  BY <1>1, <1>3, <1>4 DEF Inv, TypeOK
<1>6. Linked \ {Mem} \subseteq PopFrees
  <2>1. CASE Crosses
    <3>1. n = 2 /\ PopRing = chain[2]
      BY <1>1, <2>1, PopFacts
    <3>2. Linked = {qr, PopRing}
      BY <3>1 DEF Linked
    <3> QED BY <2>1, <3>2 DEF PopFrees, Drained
  <2>2. CASE ~Crosses
    <3>1. n = 1 /\ PopRing = chain[1]
      BY <1>1, <2>2, PopFacts
    <3>2. Linked = {PopRing}
      BY <3>1 DEF Linked
    <3> QED BY <2>2, <3>2 DEF PopFrees, Drained
  <2> QED BY <2>1, <2>2
<1>7. live' = {}
  BY <1>2, <1>6 DEF Inv, MemoryOK
<1>8. next'[Mem] = Nil
  <2>1. CASE Mem \in Linked
    <3>1. Mem = qr /\ Crosses
      <4>1. CASE Crosses
        <5>1. n = 2 /\ PopRing = chain[2]
          BY <1>1, <4>1, PopFacts
        <5>2. Linked = {qr, PopRing}
          BY <5>1 DEF Linked
        <5> QED BY <1>1, <2>1, <4>1, <5>2
      <4>2. CASE ~Crosses
        <5>1. n = 1 /\ PopRing = chain[1]
          BY <1>1, <4>2, PopFacts
        <5> QED BY <1>1, <2>1, <5>1 DEF Linked
      <4> QED BY <4>1, <4>2
    <3> QED BY <1>3, <3>1 DEF Pop, Inv, TypeOK
  <2>2. CASE Mem \notin Linked
    BY <1>3, <2>2 DEF Pop, Inv, LinksOK, TypeOK
  <2> QED BY <2>1, <2>2
<1>9. ahead'[Mem] = 0
  BY <1>3 DEF Pop
<1> QED
  BY <1>2, <1>5, <1>7, <1>8, <1>9, PopTypeOK, ResetRingLemma, EmptyQueueInv

LEMMA DestroyInv ==
    ASSUME Inv, DestroyBegin \/ DestroyRing \/ DestroyDone
    PROVE  Inv'
<1> DEFINE n == Len(chain)
<1>1. CASE DestroyBegin
  BY <1>1 DEF DestroyBegin, queue, Inv, TypeOK, LinksOK, MemoryOK, RingsOK,
              CountOK, OrderOK, Linked
<1>2. CASE DestroyRing
  <2>1. /\ mode = "destroying" /\ mode' = "destroying" /\ qr # Nil
        /\ qr' = next[qr] /\ live' = live \ {qr} /\ chain' = Tail(chain)
        /\ ring' = Forget({qr}, ring)
        /\ UNCHANGED <<qw, count, next, leaks, ahead>>
    BY <1>2 DEF DestroyRing, Inv, TypeOK
  <2>2. n \in Nat \ {0} /\ chain # <<>> /\ qr = chain[1] /\ qr \in Address
    BY <2>1 DEF Inv, LinksOK, TypeOK
  <2>3. /\ Len(chain') = n - 1 /\ chain' \in Seq(Address)
        /\ \A i \in 1 .. n - 1 : chain'[i] = chain[i + 1] /\ i + 1 \in 2 .. n
    BY <2>1, <2>2 DEF Inv, TypeOK
  <2>4. TypeOK'
    <3>1. ring' \in [Address -> Ring]
      BY <2>1, NewRingLemma DEF Forget, Inv, TypeOK
    <3>2. qr' \in Address \cup {Nil} /\ live' \in SUBSET HeapRing
      BY <2>1, <2>2 DEF Inv, TypeOK
    <3> QED BY <2>1, <2>3, <3>1, <3>2 DEF Inv, TypeOK
  <2>5. Linked' = Linked \ {qr}
    <3>1. Linked' = {chain'[i] : i \in 1 .. n - 1}
      BY <2>3 DEF Linked
    <3>2. ASSUME NEW i \in 1 .. n - 1 PROVE chain'[i] \in Linked \ {qr}
      <4>1. i + 1 \in 1 .. n /\ i + 1 # 1 /\ 1 \in 1 .. n /\ chain'[i] = chain[i + 1]
        BY <2>2, <2>3
      <4> QED BY <2>2, <4>1, ChainDistinct DEF Linked
    <3>3. ASSUME NEW i \in 1 .. n, chain[i] # qr PROVE chain[i] \in Linked'
      <4>1. i - 1 \in 1 .. n - 1 /\ (i - 1) + 1 = i
        BY <2>2, <3>3
      <4>2. chain'[i - 1] = chain[i]
        BY <2>3, <4>1
      <4> QED BY <3>1, <4>1, <4>2
    <3> QED BY ONLY <3>1, <3>2, <3>3 DEF Linked
  <2>6. LinksOK'
    <3>1. ASSUME NEW i \in 1 .. n - 1, NEW j \in 1 .. n - 1, chain'[i] = chain'[j]
          PROVE  i = j
      <4>1. i + 1 \in 1 .. n /\ j + 1 \in 1 .. n /\ chain[i + 1] = chain[j + 1]
        BY <2>3, <3>1
      <4>2. i + 1 = j + 1
        BY <4>1, ChainDistinct
      <4> QED BY <4>2
    <3>2. ASSUME NEW i \in 1 .. (n - 1) - 1 PROVE next'[chain'[i]] = chain'[i + 1]
      <4>1. /\ i + 1 \in 1 .. n - 1
            /\ chain'[i] = chain[i + 1] /\ chain'[i + 1] = chain[(i + 1) + 1]
        BY <2>3
      <4> QED BY <2>1, <4>1 DEF Inv, LinksOK
    <3>3. chain' # <<>> => qr' = chain'[1] /\ next'[chain'[n - 1]] = Nil
      <4> SUFFICES ASSUME chain' # <<>>
                   PROVE  qr' = chain'[1] /\ next'[chain'[n - 1]] = Nil
        OBVIOUS
      <4>1. /\ n - 1 \in 1 .. n - 1 /\ 1 \in 1 .. n - 1
            /\ (n - 1) + 1 = n /\ 1 + 1 = 2
        BY <2>2, <2>3
      <4>2. chain'[1] = chain[1 + 1] /\ chain'[n - 1] = chain[n]
        BY <2>3, <4>1
      <4> QED BY <2>1, <2>2, <4>1, <4>2 DEF Inv, LinksOK
    <3>4. chain' = <<>> => qr' = Nil
      <4>1. chain' = <<>> => n = 1
        BY <2>2, <2>3
      <4> QED BY <2>1, <2>2, <4>1 DEF Inv, LinksOK
    <3>5. mode' = "destroying"
      BY <2>1
    <3> QED BY ONLY <2>3, <3>1, <3>2, <3>3, <3>4, <3>5 DEF LinksOK
  <2>7. MemoryOK'
    BY <2>1, <2>5 DEF Inv, MemoryOK
  <2> QED BY <2>1, <2>4, <2>6, <2>7 DEF Inv, RingsOK, CountOK, OrderOK
<1>3. CASE DestroyDone
  <2>1. Mem \in Address /\ ring[Mem] \in Ring /\ chain = <<>>
    <3>1. chain # <<>> => chain[1] \in Address /\ qr = chain[1]
      BY DEF Inv, TypeOK, LinksOK
    <3> QED BY <1>3, <3>1, AddressAssumption DEF DestroyDone, Inv, TypeOK, Address
  <2>2. live = {}
    BY <2>1 DEF Inv, MemoryOK, Linked
  <2>3. /\ ring'[Mem] = ResetRing(ring[Mem]) /\ next'[Mem] = Nil /\ ahead'[Mem] = 0
        /\ qr' = Mem /\ qw' = Mem /\ chain' = <<Mem>> /\ count' = 0
        /\ mode' = "idle" /\ live' = {}
    BY <1>3, <2>1, <2>2 DEF DestroyDone, Inv, TypeOK
  <2>4. TypeOK'
    BY <1>3, <2>1, ResetRingLemma DEF DestroyDone, Inv, TypeOK
  <2> QED BY <2>1, <2>3, <2>4, ResetRingLemma, EmptyQueueInv
<1> QED BY <1>1, <1>2, <1>3

LEMMA NextInv == Inv /\ [Next]_vars => Inv'
<1> SUFFICES ASSUME Inv, [Next]_vars PROVE Inv'
  OBVIOUS
<1>1. CASE UNCHANGED vars
  BY <1>1 DEF vars, queue, Inv, TypeOK, LinksOK, MemoryOK, RingsOK, CountOK,
              OrderOK, Linked, UpTo
<1>2. ASSUME NEW t \in Task, Push(t) PROVE Inv'
  BY <1>2, PushRoomInv, PushReuseMemInv, PushAllocInv DEF Push
<1>3. ASSUME NEW t \in Task, PushUrgent(t) PROVE Inv'
  BY <1>3, PushUrgentRoomInv, PushUrgentAllocInv DEF PushUrgent
<1>4. CASE Pop
  BY <1>4, PopStayInv, PopCrossInv, PopDrainedInv DEF Pop
<1>5. CASE DestroyBegin \/ DestroyRing \/ DestroyDone
  BY <1>5, DestroyInv
<1> QED BY <1>1, <1>2, <1>3, <1>4, <1>5 DEF Next

(* Every reachable state of the queue satisfies the inductive invariant.   *)
THEOREM Invariance == Spec => []Inv
BY InitInv, NextInv, PTL DEF Spec

(* Types are as declared.                                                  *)
THEOREM TypeCorrect == Spec => []TypeOK
<1>1. Inv => TypeOK
  BY DEF Inv
<1> QED BY <1>1, Invariance, PTL

(* fio_queue_push, fio_queue_push_urgent, fio_queue_pop and                *)
(* fio_queue_destroy keep one simple list of rings, free what they unlink, *)
(* never touch a freed ring, and q->count is the number of queued tasks.   *)
THEOREM WellFormed == Spec => []ChainOK
<1>1. Inv => ChainOK
  BY DEF Inv, ChainOK
<1> QED BY <1>1, Invariance, PTL

(* fio_queue_pop returns a task whenever q->count is not zero.             *)
THEOREM PopCorrect == Spec => []PopReturnsTask
<1>1. Inv => PopReturnsTask
  <2> SUFFICES ASSUME Inv, mode = "idle", count > 0
               PROVE  PopRing # Nil /\ Popped \in Task
    BY DEF PopReturnsTask
  <2> QED BY PopFacts, AddressAssumption DEF Address
<1> QED BY <1>1, Invariance, PTL

-----------------------------------------------------------------------------
(* The queue as one list.  A task lies at place k of the queue when a ring *)
(* of the chain holds it and k - 1 tasks come before it.                   *)

LiesIn(i, k, x) ==
    /\ i \in 1 .. Len(chain)
    /\ ahead[chain[i]] < k /\ k <= UpTo(chain[i])
    /\ x = RingTasks(ring[chain[i]])[k - ahead[chain[i]]]

Lies(k, x) == \E i \in 1 .. Len(chain) : LiesIn(i, k, x)

LessThan == {p \in Nat \X Nat : p[1] < p[2]}

(* A set of natural numbers has a least element.                           *)
LEMMA LeastNumber ==
    ASSUME NEW T \in SUBSET Nat, T # {}
    PROVE  \E m \in T : \A k \in T : m <= k
<1>1. IsWellFoundedOn(LessThan, Nat)
  BY NatLessThanWellFounded DEF OpToRel, LessThan
<1>2. \E m \in T : \A k \in T : ~(<<k, m>> \in LessThan)
  BY <1>1, WFMin
<1>3. PICK m \in T : \A k \in T : ~(<<k, m>> \in LessThan)
  BY <1>2
<1>4. ASSUME NEW k \in T
      PROVE  m <= k
  <2>1. <<k, m>> \notin LessThan /\ k \in Nat /\ m \in Nat
    BY <1>3
  <2>2. ~(k < m)
    BY <2>1 DEF LessThan
  <2> QED
    BY <2>1, <2>2
<1> QED
  BY <1>4

LEMMA RingSeq ==
    ASSUME NEW g, RingOK(g)
    PROVE  RingTasks(g) \in Seq(Task) /\ Len(RingTasks(g)) = RingLen(g)
BY RingLenLemma DEF RingTasks, RingOK

(* Every place up to the count is in one of the rings: in the last one     *)
(* that has fewer tasks ahead of it.                                       *)
LEMMA Covered ==
    ASSUME Inv, mode = "idle", NEW k \in 1 .. count
    PROVE  \E i \in 1 .. Len(chain) : ahead[chain[i]] < k /\ k <= UpTo(chain[i])
<1> DEFINE n == Len(chain)
           T == {m \in Nat : \E i \in 1 .. n : m = n - i /\ ahead[chain[i]] < k}
<1>1. /\ n \in Nat \ {0} /\ count \in Nat /\ count = UpTo(chain[n])
      /\ ahead[chain[1]] = 0
  BY IdleLemma, IdleEnds DEF Inv, TypeOK
<1>2. T # {}
  <2>1. 1 \in 1 .. n /\ n - 1 \in Nat /\ ahead[chain[1]] < k
    BY <1>1
  <2> QED
    BY <2>1
<1>3. PICK m \in T : \A l \in T : m <= l
  BY <1>2, LeastNumber
<1>4. PICK i \in 1 .. n : m = n - i /\ ahead[chain[i]] < k
  OBVIOUS
<1>5. k <= UpTo(chain[i])
  <2>1. CASE i = n
    BY <1>1, <2>1
  <2>2. CASE i # n
    <3>1. i \in 1 .. n - 1 /\ i + 1 \in 1 .. n /\ n - (i + 1) \in Nat /\ ~(m <= n - (i + 1))
      BY <1>1, <1>4, <2>2
    <3>2. ~(ahead[chain[i + 1]] < k)
      BY <1>3, <3>1
    <3>3. ahead[chain[i + 1]] = UpTo(chain[i]) /\ ahead[chain[i + 1]] \in Nat
      BY <3>1, IdleRings DEF Inv, CountOK
    <3> QED
      BY <3>2, <3>3
  <2> QED
    BY <2>1, <2>2
<1> QED
  BY <1>4, <1>5

(* The rings before and behind it do not reach that place.                 *)
LEMMA OneHolder ==
    ASSUME Inv, mode = "idle", NEW k \in Nat,
           NEW i \in 1 .. Len(chain), ahead[chain[i]] < k, k <= UpTo(chain[i]),
           NEW j \in 1 .. Len(chain), ahead[chain[j]] < k, k <= UpTo(chain[j])
    PROVE  i = j
<1>1. /\ ahead[chain[i]] \in Nat /\ ahead[chain[j]] \in Nat
      /\ UpTo(chain[i]) \in Nat /\ UpTo(chain[j]) \in Nat
  BY IdleRings DEF UpTo
<1>2. i < j => UpTo(chain[i]) <= ahead[chain[j]]
  BY DEF Inv, OrderOK
<1>3. j < i => UpTo(chain[j]) <= ahead[chain[i]]
  BY DEF Inv, OrderOK
<1>4. Len(chain) \in Nat
  BY IdleLemma
<1> QED
  BY <1>1, <1>2, <1>3, <1>4

LEMMA LiesQueued ==
    Inv /\ mode = "idle" =>
        /\ count \in Nat /\ Queued \in Seq(Task) /\ Len(Queued) = count
        /\ \A k \in 1 .. count : Lies(k, Queued[k])
        /\ \A k \in 1 .. count : \A x : Lies(k, x) => Queued[k] = x
<1> SUFFICES ASSUME Inv, mode = "idle"
             PROVE  /\ count \in Nat /\ Queued \in Seq(Task) /\ Len(Queued) = count
                    /\ \A k \in 1 .. count : Lies(k, Queued[k])
                    /\ \A k \in 1 .. count : \A x : Lies(k, x) => Queued[k] = x
  OBVIOUS
<1>1. count \in Nat
  BY DEF Inv, TypeOK
<1>2. Queued = [k \in 1 .. count |->
                  RingTasks(ring[HolderOf(k)])[k - ahead[HolderOf(k)]]]
  BY DEF Queued
<1>3. ASSUME NEW k \in 1 .. count, NEW i \in 1 .. Len(chain),
             ahead[chain[i]] < k, k <= UpTo(chain[i])
      PROVE  /\ Queued[k] = RingTasks(ring[chain[i]])[k - ahead[chain[i]]]
             /\ Queued[k] \in Task
  <2>1. chain[i] \in Linked
    BY IdleRings
  <2>2. \A a \in Linked : ahead[a] < k /\ k <= UpTo(a) => a = chain[i]
    <3> SUFFICES ASSUME NEW j \in 1 .. Len(chain), ahead[chain[j]] < k,
                        k <= UpTo(chain[j])
                 PROVE  chain[j] = chain[i]
      BY DEF Linked
    <3> QED
      BY <1>1, <1>3, OneHolder
  <2>3. HolderOf(k) = chain[i]
    BY <1>3, <2>1, <2>2 DEF HolderOf
  <2>4. Queued[k] = RingTasks(ring[chain[i]])[k - ahead[chain[i]]]
    BY <1>2, <2>3
  <2>5. k - ahead[chain[i]] \in 1 .. RingLen(ring[chain[i]])
    BY <1>1, <1>3, IdleRings DEF UpTo
  <2>6. RingTasks(ring[chain[i]])[k - ahead[chain[i]]] \in Task
    BY <2>5, IdleRings, RingSeq, ElementOfSeq
  <2> QED
    BY <2>4, <2>6
<1>4. ASSUME NEW k \in 1 .. count
      PROVE  Lies(k, Queued[k]) /\ Queued[k] \in Task
  BY <1>3, Covered DEF Lies, LiesIn
<1>5. ASSUME NEW k \in 1 .. count, NEW x, Lies(k, x)
      PROVE  Queued[k] = x
  BY <1>3, <1>5 DEF Lies, LiesIn
<1>6. Queued \in Seq(Task) /\ Len(Queued) = count
  <2>1. \A k \in 1 .. count : RingTasks(ring[HolderOf(k)])[k - ahead[HolderOf(k)]] \in Task
    BY <1>2, <1>4
  <2> QED
    BY <1>1, <1>2, <2>1
<1> QED
  BY <1>1, <1>4, <1>5, <1>6

LEMMA LiesQueuedNext ==
    (Inv /\ mode = "idle")' =>
        /\ count' \in Nat /\ Queued' \in Seq(Task) /\ Len(Queued') = count'
        /\ \A k \in 1 .. count' : \A x : Lies(k, x)' => Queued'[k] = x
<1>1. (Inv /\ mode = "idle" =>
        /\ count \in Nat /\ Queued \in Seq(Task) /\ Len(Queued) = count
        /\ \A k \in 1 .. count : Lies(k, Queued[k])
        /\ \A k \in 1 .. count : \A x : Lies(k, x) => Queued[k] = x)'
  BY LiesQueued, PTL
<1> QED
  BY <1>1

(* What the places of the tasks say of the list: all stay and one is       *)
(* added behind ...                                                        *)
LEMMA Appended ==
    ASSUME Inv, Inv', mode = "idle", mode' = "idle", NEW t \in Task, count' = count + 1,
           \A k \in 1 .. count : \A x : Lies(k, x) => Lies(k, x)',
           Lies(count, t)'
    PROVE  Queued' = Append(Queued, t)
<1>1. /\ count \in Nat /\ Queued \in Seq(Task) /\ Len(Queued) = count
      /\ Queued' \in Seq(Task) /\ Len(Queued') = count + 1
  BY LiesQueued, LiesQueuedNext
<1>2. \A k \in 1 .. count : Queued'[k] = Queued[k]
  BY <1>1, LiesQueued, LiesQueuedNext
<1>3. Queued'[count + 1] = t
  BY <1>1, LiesQueuedNext
<1>4. /\ Append(Queued, t) \in Seq(Task) /\ Len(Append(Queued, t)) = count + 1
      /\ \A k \in 1 .. count + 1 : Append(Queued, t)[k] = Queued'[k]
  BY <1>1, <1>2, <1>3, AppendProperties
<1> QED
  BY <1>1, <1>4, SeqEqual

(* ... all move up and one is added in front ...                           *)
LEMMA Prepended ==
    ASSUME Inv, Inv', mode = "idle", mode' = "idle", NEW t \in Task, count' = count + 1,
           \A k \in 1 .. count : \A x : Lies(k, x) => Lies(k + 1, x)',
           Lies(1, t)'
    PROVE  Queued' = <<t>> \o Queued
<1>1. /\ count \in Nat /\ Queued \in Seq(Task) /\ Len(Queued) = count
      /\ Queued' \in Seq(Task) /\ Len(Queued') = count + 1
  BY LiesQueued, LiesQueuedNext
<1>2. \A k \in 1 .. count : Queued'[k + 1] = Queued[k]
  BY <1>1, LiesQueued, LiesQueuedNext
<1>3. Queued'[1] = t
  BY <1>1, LiesQueuedNext
<1>4. PICK s : s = <<t>>
  OBVIOUS
<1>5. /\ s \in Seq(Task) /\ Len(s) = 1 /\ s[1] = t
  BY <1>4
<1>6. /\ s \o Queued \in Seq(Task) /\ Len(s \o Queued) = 1 + count
      /\ \A k \in 1 .. 1 + count :
            (s \o Queued)[k] = IF k <= 1 THEN s[k] ELSE Queued[k - 1]
  <2>1. /\ s \o Queued \in Seq(Task) /\ Len(s \o Queued) = Len(s) + Len(Queued)
        /\ \A k \in 1 .. Len(s) + Len(Queued) :
              (s \o Queued)[k] = IF k <= Len(s) THEN s[k] ELSE Queued[k - Len(s)]
    BY <1>1, <1>5, ConcatProperties, Zenon
  <2> QED
    BY <1>1, <1>5, <2>1
<1>7. ASSUME NEW k \in 1 .. count + 1
      PROVE  (s \o Queued)[k] = Queued'[k]
  <2>1. CASE k = 1
    BY <1>1, <1>3, <1>5, <1>6, <2>1
  <2>2. CASE k # 1
    <3>1. k - 1 \in 1 .. count /\ (k - 1) + 1 = k /\ ~(k <= 1)
      BY <1>1, <2>2
    <3>2. Queued'[k] = Queued[k - 1]
      BY <1>2, <3>1
    <3> QED
      BY <1>1, <1>6, <3>1, <3>2
  <2> QED
    BY <2>1, <2>2
<1>8. Queued' = s \o Queued
  <2>1. Len(s \o Queued) = count + 1
    BY <1>1, <1>6
  <2> QED
    BY ONLY <1>1, <1>6, <1>7, <2>1, SeqEqual
<1> QED
  BY <1>4, <1>8

(* ... or the first one leaves.                                            *)
LEMMA Shortened ==
    ASSUME Inv, Inv', mode = "idle", mode' = "idle", count > 0, count' = count - 1,
           \A k \in 2 .. count : \A x : Lies(k, x) => Lies(k - 1, x)'
    PROVE  Queued # <<>> /\ Queued' = Tail(Queued)
<1>1. /\ count \in Nat \ {0} /\ Queued \in Seq(Task) /\ Len(Queued) = count
      /\ Queued' \in Seq(Task) /\ Len(Queued') = count - 1
  BY LiesQueued, LiesQueuedNext
<1>2. \A k \in 2 .. count : Queued'[k - 1] = Queued[k]
  <2> SUFFICES ASSUME NEW k \in 2 .. count
               PROVE  Queued'[k - 1] = Queued[k]
    OBVIOUS
  <2>1. k \in 1 .. count /\ k - 1 \in 1 .. count'
    BY <1>1
  <2>2. Lies(k, Queued[k])
    BY <2>1, LiesQueued
  <2> QED
    BY <2>1, <2>2, LiesQueuedNext
<1>3. Queued # <<>>
  BY <1>1
<1>4. /\ Tail(Queued) \in Seq(Task) /\ Len(Tail(Queued)) = count - 1
      /\ \A k \in 1 .. count - 1 : Tail(Queued)[k] = Queued[k + 1]
  BY <1>1, <1>3, HeadTailProperties
<1>5. ASSUME NEW k \in 1 .. count - 1
      PROVE  Tail(Queued)[k] = Queued'[k]
  <2>1. k + 1 \in 2 .. count /\ (k + 1) - 1 = k
    BY <1>1
  <2> QED
    BY <1>2, <1>4, <2>1
<1> QED
  BY <1>1, <1>3, <1>4, <1>5, SeqEqual

(* A ring that keeps its tasks, with d more or fewer ahead of them.        *)
LEMMA Kept ==
    ASSUME Inv, mode = "idle", NEW k \in Nat, NEW x, NEW i, LiesIn(i, k, x),
           NEW j \in 1 .. Len(chain'), NEW d \in Int,
           ring'[chain'[j]] = ring[chain[i]],
           ahead'[chain'[j]] = ahead[chain[i]] + d
    PROVE  LiesIn(j, k + d, x)' /\ Lies(k + d, x)'
<1>1. /\ i \in 1 .. Len(chain) /\ ahead[chain[i]] \in Nat
      /\ RingLen(ring[chain[i]]) \in Nat
  BY IdleRings DEF LiesIn
<1>2. ahead'[chain'[j]] < k + d
  BY <1>1 DEF LiesIn
<1>3. k + d <= ahead'[chain'[j]] + RingLen(ring'[chain'[j]])
  BY <1>1 DEF LiesIn, UpTo
<1>4. (k + d) - ahead'[chain'[j]] = k - ahead[chain[i]]
  BY <1>1
<1>5. x = RingTasks(ring'[chain'[j]])[(k + d) - ahead'[chain'[j]]]
  BY <1>4 DEF LiesIn
<1> QED
  BY <1>2, <1>3, <1>5 DEF LiesIn, Lies, UpTo

(* fio_queue_push into the last ring.                                      *)
LEMMA PushRoomAppends ==
    ASSUME Inv, Inv', mode = "idle", NEW t \in Task, PushRoom(t),
           count' = count + 1, UNCHANGED mode
    PROVE  Queued' = Append(Queued, t)
<1> DEFINE n == Len(chain)
<1>1. /\ n \in Nat \ {0} /\ qw = chain[n] /\ qw \in Address /\ count \in Nat
      /\ RingOK(ring[qw]) /\ ~RingFull(ring[qw])
      /\ count = ahead[qw] + RingLen(ring[qw]) /\ ahead[qw] \in Nat
      /\ RingLen(ring[qw]) \in Nat
  BY IdleLemma, IdleEnds DEF PushRoom, Inv, TypeOK
<1>2. /\ ring'[qw] = RingPush(ring[qw], t) /\ chain' = chain /\ ahead' = ahead
      /\ \A a \in Address \ {qw} : ring'[a] = ring[a]
  BY <1>1 DEF PushRoom, Inv, TypeOK
<1>3. /\ RingLen(ring'[qw]) = RingLen(ring[qw]) + 1
      /\ RingTasks(ring'[qw]) = Append(RingTasks(ring[qw]), t)
      /\ RingTasks(ring[qw]) \in Seq(Task)
      /\ Len(RingTasks(ring[qw])) = RingLen(ring[qw])
  BY <1>1, <1>2, RingPushLemma, RingSeq
<1>4. ASSUME NEW k \in 1 .. count, NEW x, NEW i, LiesIn(i, k, x)
      PROVE  Lies(k, x)'
  <2>1. i \in 1 .. n /\ chain[i] \in Address
    BY <1>4, IdleRings DEF LiesIn
  <2>2. CASE i = n
    <3>1. k - ahead[qw] \in 1 .. RingLen(ring[qw]) /\ ahead[qw] < k
          /\ x = RingTasks(ring[qw])[k - ahead[qw]]
      BY <1>1, <1>4, <2>2 DEF LiesIn, UpTo
    <3>2. RingTasks(ring'[qw])[k - ahead[qw]] = x
      BY <1>3, <3>1, AppendProperties
    <3>3. n \in 1 .. Len(chain') /\ chain'[n] = qw
          /\ ahead'[qw] < k /\ k <= ahead'[qw] + RingLen(ring'[qw])
          /\ k - ahead'[qw] = k - ahead[qw]
      BY <1>1, <1>2, <1>3, <3>1
    <3> QED
      BY <3>2, <3>3 DEF LiesIn, Lies, UpTo
  <2>3. CASE i # n
    <3>1. chain[i] # qw
      BY <1>1, <2>1, <2>3, ChainDistinct
    <3>2. ring'[chain'[i]] = ring[chain[i]] /\ ahead'[chain'[i]] = ahead[chain[i]] + 0
          /\ i \in 1 .. Len(chain')
      BY <1>2, <2>1, <3>1, IdleRings
    <3>3. k \in Nat /\ k + 0 = k /\ 0 \in Int
      BY <1>1
    <3>4. Lies(k + 0, x)'
      BY ONLY <1>4, <3>2, <3>3, Kept, Inv, mode = "idle"
    <3> QED
      BY <3>3, <3>4
  <2> QED
    BY <2>2, <2>3
<1>5. Lies(count, t)'
  <2>1. /\ count' - ahead'[qw] = RingLen(ring[qw]) + 1 /\ ahead'[qw] < count'
        /\ count' <= ahead'[qw] + RingLen(ring'[qw])
        /\ n \in 1 .. Len(chain') /\ chain'[n] = qw
    BY <1>1, <1>2, <1>3
  <2>2. RingTasks(ring'[qw])[RingLen(ring[qw]) + 1] = t
    BY <1>3, AppendProperties
  <2> QED
    BY <2>1, <2>2 DEF Lies, LiesIn, UpTo
<1>6. \A k \in 1 .. count : \A x : Lies(k, x) => Lies(k, x)'
  BY <1>4 DEF Lies
<1> QED
  BY <1>5, <1>6, Appended

(* fio_queue_push into a ring of its own.                                  *)
LEMMA ExtendAppends ==
    ASSUME Inv, Inv', mode = "idle", NEW t \in Task, NEW a \in Address, a \notin Linked,
           NEW g \in Ring, RingOK(g), RingLen(g) = 1, RingTasks(g) = <<t>>,
           ring' = [ring EXCEPT ![a] = g], chain' = Append(chain, a),
           ahead' = [ahead EXCEPT ![a] = UpTo(qw)],
           count' = count + 1, UNCHANGED mode
    PROVE  Queued' = Append(Queued, t)
<1> DEFINE n == Len(chain)
<1>1. /\ n \in Nat \ {0} /\ count \in Nat /\ count = UpTo(qw) /\ chain \in Seq(Address)
  BY IdleLemma, IdleEnds DEF Inv, TypeOK
<1>2. /\ Len(chain') = n + 1 /\ chain'[n + 1] = a
      /\ \A i \in 1 .. n : chain'[i] = chain[i]
  BY <1>1, AppendProperties
<1>3. ring'[a] = g /\ ahead'[a] = count
  BY <1>1 DEF Inv, TypeOK
<1>4. ASSUME NEW k \in 1 .. count, NEW x, NEW i, LiesIn(i, k, x)
      PROVE  Lies(k, x)'
  <2>1. i \in 1 .. n /\ chain[i] \in Address /\ chain[i] # a
    BY <1>4, IdleRings DEF LiesIn
  <2>2. ring'[chain'[i]] = ring[chain[i]] /\ ahead'[chain'[i]] = ahead[chain[i]]
        /\ i \in 1 .. Len(chain')
    BY <1>1, <1>2, <2>1 DEF Inv, TypeOK
  <2>3. ahead[chain[i]] \in Nat /\ k \in Nat
    BY <1>1, <2>1, IdleRings
  <2>4. ahead'[chain'[i]] = ahead[chain[i]] + 0
    BY <2>2, <2>3
  <2>5. Lies(k + 0, x)'
    BY ONLY <1>4, <2>2, <2>3, <2>4, Kept, Inv, mode = "idle", 0 \in Int
  <2> QED
    BY <2>3, <2>5
<1>5. Lies(count, t)'
  <2>1. /\ n + 1 \in 1 .. Len(chain') /\ ahead'[chain'[n + 1]] < count'
        /\ count' <= ahead'[chain'[n + 1]] + RingLen(ring'[chain'[n + 1]])
        /\ count' - ahead'[chain'[n + 1]] = 1
    BY <1>1, <1>2, <1>3
  <2>2. RingTasks(ring'[chain'[n + 1]])[1] = t
    BY <1>2, <1>3
  <2> QED
    BY <2>1, <2>2 DEF Lies, LiesIn, UpTo
<1>6. \A k \in 1 .. count : \A x : Lies(k, x) => Lies(k, x)'
  BY <1>4 DEF Lies
<1> QED
  BY <1>5, <1>6, Appended

LEMMA PushAppends ==
    ASSUME Inv, Inv', NEW t \in Task, Push(t)
    PROVE  Queued' = Append(Queued, t)
<1>1. /\ mode = "idle" /\ count' = count + 1 /\ UNCHANGED mode
      /\ PushRoom(t) \/ PushReuseMem(t) \/ PushAlloc(t)
  BY DEF Push
<1>2. CASE PushReuseMem(t)
  <2>1. PICK g : g = RingPush(ResetRing(ring[Mem]), t)
    OBVIOUS
  <2>2. Mem \in Address /\ ring[Mem] \in Ring
    BY DEF Address, Inv, TypeOK
  <2>3. RingOK(ResetRing(ring[Mem])) /\ ~RingFull(ResetRing(ring[Mem]))
        /\ RingLen(ResetRing(ring[Mem])) = 0
    BY <2>2, ResetRingLemma
  <2>4. RingTasks(ResetRing(ring[Mem])) = <<>>
    BY <2>3, RingSeq, EmptySeq
  <2>5. RingOK(g) /\ RingLen(g) = 1 /\ g \in Ring /\ RingTasks(g) = <<t>>
    <3>1. /\ RingOK(g) /\ RingLen(g) = 0 + 1
          /\ RingTasks(g) = Append(RingTasks(ResetRing(ring[Mem])), t)
      BY <2>1, <2>3, RingPushLemma
    <3>2. Append(<<>>, t) = <<t>>
      OBVIOUS
    <3> QED
      BY <2>4, <3>1, <3>2 DEF RingOK
  <2>6. Mem \notin Linked
    <3>1. SUFFICES ASSUME NEW i \in 1 .. Len(chain), chain[i] = Mem PROVE FALSE
      BY DEF Linked
    <3>2. i \in 1 .. Len(chain) - 1
      BY <1>1, <1>2, <3>1, IdleLemma DEF PushReuseMem
    <3>3. chain[i + 1] \in Address /\ next[Mem] = chain[i + 1]
      <4>1. i + 1 \in 1 .. Len(chain) /\ next[chain[i]] = chain[i + 1]
        BY <1>1, <3>2, IdleLemma DEF Inv, LinksOK
      <4> QED
        BY <1>1, <3>1, <4>1, IdleRings
    <3> QED
      BY <1>2, <3>3, AddressAssumption DEF PushReuseMem, Address
  <2> QED
    BY <1>1, <1>2, <2>1, <2>2, <2>5, <2>6, ExtendAppends DEF PushReuseMem
<1>3. CASE PushAlloc(t)
  <2>1. PICK g : g = RingPush(NewRing, t)
    OBVIOUS
  <2>2. PICK a \in HeapRing \ live :
          /\ ring' = [ring EXCEPT ![a] = g]
          /\ chain' = Append(chain, a)
          /\ ahead' = [ahead EXCEPT ![a] = UpTo(qw)]
    BY <1>3, <2>1 DEF PushAlloc
  <2>3. RingTasks(NewRing) = <<>>
    BY NewRingLemma, RingSeq, EmptySeq
  <2>4. RingOK(g) /\ RingLen(g) = 1 /\ g \in Ring /\ RingTasks(g) = <<t>>
    <3>1. /\ RingOK(g) /\ RingLen(g) = 0 + 1
          /\ RingTasks(g) = Append(RingTasks(NewRing), t)
      BY <2>1, NewRingLemma, RingPushLemma
    <3>2. Append(<<>>, t) = <<t>>
      OBVIOUS
    <3> QED
      BY <2>3, <3>1, <3>2 DEF RingOK
  <2>5. a \in Address /\ a \notin Linked
    BY AddressAssumption DEF Address, Inv, MemoryOK
  <2> QED
    BY <1>1, <2>2, <2>4, <2>5, ExtendAppends
<1> QED
  BY <1>1, <1>2, <1>3, PushRoomAppends

(* fio_queue_push_urgent.                                                  *)
LEMMA UrgentRoomPrepends ==
    ASSUME Inv, Inv', mode = "idle", NEW t \in Task, PushUrgentRoom(t),
           count' = count + 1, UNCHANGED mode
    PROVE  Queued' = <<t>> \o Queued
<1> DEFINE n == Len(chain)
<1>1. /\ n \in Nat \ {0} /\ qr = chain[1] /\ qr \in Address /\ count \in Nat
      /\ RingOK(ring[qr]) /\ ~RingFull(ring[qr])
      /\ ahead[qr] = 0 /\ RingLen(ring[qr]) \in Nat
  BY IdleLemma, IdleEnds DEF PushUrgentRoom, Inv, TypeOK
<1>2. /\ ring'[qr] = RingUnpop(ring[qr], t) /\ chain' = chain /\ ahead'[qr] = 0
      /\ \A a \in Address \ {qr} : ring'[a] = ring[a]
      /\ \A a \in Linked \ {qr} : a \in Address => ahead'[a] = ahead[a] + 1
  BY <1>1 DEF PushUrgentRoom, Inv, TypeOK
<1>3. PICK s : s = <<t>>
  OBVIOUS
<1>4. /\ RingLen(ring'[qr]) = RingLen(ring[qr]) + 1
      /\ RingTasks(ring'[qr]) = s \o RingTasks(ring[qr])
      /\ RingTasks(ring[qr]) \in Seq(Task)
      /\ Len(RingTasks(ring[qr])) = RingLen(ring[qr])
  BY <1>1, <1>2, <1>3, RingUnpopLemma, RingSeq
<1>5. s \in Seq(Task) /\ Len(s) = 1 /\ s[1] = t
  BY <1>3
<1>6. \A k \in 1 .. Len(s) + Len(RingTasks(ring[qr])) :
        (s \o RingTasks(ring[qr]))[k] =
            IF k <= Len(s) THEN s[k] ELSE RingTasks(ring[qr])[k - Len(s)]
  BY <1>4, <1>5, ConcatProperties, Zenon
<1>7. /\ RingTasks(ring'[qr])[1] = t
      /\ \A k \in 1 .. RingLen(ring[qr]) :
            RingTasks(ring'[qr])[k + 1] = RingTasks(ring[qr])[k]
  <2>1. /\ \A k \in 1 .. RingLen(ring[qr]) :
             k + 1 \in 1 .. 1 + RingLen(ring[qr]) /\ ~(k + 1 <= 1) /\ (k + 1) - 1 = k
        /\ 1 \in 1 .. 1 + RingLen(ring[qr])
    BY <1>1
  <2>2. \A k \in 1 .. 1 + RingLen(ring[qr]) :
          RingTasks(ring'[qr])[k] =
              IF k <= 1 THEN s[k] ELSE RingTasks(ring[qr])[k - 1]
    <3>1. Len(s) + Len(RingTasks(ring[qr])) = 1 + RingLen(ring[qr])
      BY <1>4, <1>5
    <3> QED
      BY <1>4, <1>5, <1>6, <3>1
  <2>3. RingTasks(ring'[qr])[1] = t
    BY <1>5, <2>1, <2>2
  <2>4. ASSUME NEW k \in 1 .. RingLen(ring[qr])
        PROVE  RingTasks(ring'[qr])[k + 1] = RingTasks(ring[qr])[k]
    BY <2>1, <2>2
  <2> QED
    BY <2>3, <2>4
<1>8. ASSUME NEW k \in 1 .. count, NEW x, NEW i, LiesIn(i, k, x)
      PROVE  Lies(k + 1, x)'
  <2>1. i \in 1 .. n /\ chain[i] \in Address /\ chain[i] \in Linked
    BY <1>8, IdleRings DEF LiesIn
  <2>2. CASE i = 1
    <3>1. k \in 1 .. RingLen(ring[qr]) /\ x = RingTasks(ring[qr])[k]
      BY <1>1, <1>8, <2>2 DEF LiesIn, UpTo
    <3>2. RingTasks(ring'[qr])[k + 1] = x
      BY <1>7, <3>1
    <3>3. /\ 1 \in 1 .. Len(chain') /\ chain'[1] = qr /\ ahead'[qr] < k + 1
          /\ k + 1 <= ahead'[qr] + RingLen(ring'[qr]) /\ (k + 1) - ahead'[qr] = k + 1
      BY <1>1, <1>2, <1>4, <3>1
    <3> QED
      BY <3>2, <3>3 DEF Lies, LiesIn, UpTo
  <2>3. CASE i # 1
    <3>1. chain[i] # qr
      BY <1>1, <2>1, <2>3, ChainDistinct
    <3>2. ring'[chain'[i]] = ring[chain[i]] /\ ahead'[chain'[i]] = ahead[chain[i]] + 1
          /\ i \in 1 .. Len(chain')
      BY <1>2, <2>1, <3>1
    <3>3. k \in Nat /\ 1 \in Int
      BY <1>1
    <3> QED
      BY ONLY <1>8, <3>2, <3>3, Kept, Inv, mode = "idle"
  <2> QED
    BY <2>2, <2>3
<1>9. Lies(1, t)'
  <2>1. /\ 1 \in 1 .. Len(chain') /\ chain'[1] = qr /\ ahead'[qr] < 1
        /\ 1 <= ahead'[qr] + RingLen(ring'[qr]) /\ 1 - ahead'[qr] = 1
    BY <1>1, <1>2, <1>4
  <2> QED
    BY <1>7, <2>1 DEF Lies, LiesIn, UpTo
<1>10. \A k \in 1 .. count : \A x : Lies(k, x) => Lies(k + 1, x)'
  BY <1>8 DEF Lies
<1> QED
  BY <1>9, <1>10, Prepended

LEMMA UrgentAllocPrepends ==
    ASSUME Inv, Inv', mode = "idle", NEW t \in Task, PushUrgentAlloc(t),
           count' = count + 1, UNCHANGED mode
    PROVE  Queued' = <<t>> \o Queued
<1> DEFINE n == Len(chain)
<1>1. PICK g : g = OneTaskRing(t)
  OBVIOUS
<1>2. PICK a \in HeapRing \ live :
        /\ ring' = [ring EXCEPT ![a] = g]
        /\ chain' = <<a>> \o chain
        /\ ahead' = [b \in Address |-> IF b \in Linked THEN ahead[b] + 1 ELSE 0]
  BY <1>1 DEF PushUrgentAlloc
<1>3. RingOK(g) /\ RingLen(g) = 1
  BY <1>1, UrgentRingLemma
<1>4. RingTasks(g)[1] = t
  <2>1. g.r = 0 /\ g.buf[0] = t
    BY <1>1, TasksPerAllocAssumption DEF OneTaskRing, NewRing, Slot
  <2> QED
    BY <1>3, <2>1, TasksPerAllocAssumption DEF RingTasks, RingSlot
<1>5. /\ n \in Nat \ {0} /\ chain \in Seq(Address) /\ a \in Address /\ a \notin Linked
  BY IdleLemma, AddressAssumption DEF Address, Inv, MemoryOK, TypeOK
<1>6. /\ Len(chain') = n + 1 /\ chain'[1] = a
      /\ \A i \in 1 .. n : i + 1 \in 1 .. n + 1 /\ chain'[i + 1] = chain[i]
  BY <1>2, <1>5
<1>7. ring'[a] = g /\ ahead'[a] = 0
  BY <1>2, <1>5 DEF Inv, TypeOK
<1>8. ASSUME NEW k \in 1 .. count, NEW x, NEW i, LiesIn(i, k, x)
      PROVE  Lies(k + 1, x)'
  <2>1. i \in 1 .. n /\ chain[i] \in Address /\ chain[i] \in Linked /\ chain[i] # a
        /\ k \in Nat
    <3>1. i \in 1 .. Len(chain)
      BY ONLY <1>8 DEF LiesIn
    <3>2. chain[i] \in Address /\ chain[i] \in Linked
      BY <3>1, IdleRings
    <3>3. count \in Nat
      BY DEF Inv, TypeOK
    <3>4. k \in Nat
      BY ONLY <3>3, k \in 1 .. count
    <3> QED
      BY <1>5, <3>1, <3>2, <3>4
  <2>2. /\ i + 1 \in 1 .. Len(chain') /\ chain'[i + 1] = chain[i]
        /\ ring'[chain'[i + 1]] = ring[chain[i]]
        /\ ahead'[chain'[i + 1]] = ahead[chain[i]] + 1
    BY <1>2, <1>6, <2>1 DEF Inv, TypeOK
  <2>3. PICK j \in 1 .. Len(chain') : j = i + 1
    BY <2>2
  <2> QED
    BY ONLY <1>8, <2>1, <2>2, <2>3, Kept, Inv, mode = "idle", 1 \in Int
<1>9. Lies(1, t)'
  BY <1>3, <1>4, <1>5, <1>6, <1>7 DEF Lies, LiesIn, UpTo
<1>10. \A k \in 1 .. count : \A x : Lies(k, x) => Lies(k + 1, x)'
  BY <1>8 DEF Lies
<1> QED
  BY <1>9, <1>10, Prepended

(* fio_queue_pop.                                                          *)
LEMMA PopShortens ==
    ASSUME Inv, Inv', Pop
    PROVE  Queued # <<>> /\ Queued' = Tail(Queued)
<1> DEFINE n == Len(chain)
<1>1. mode = "idle" /\ mode' = "idle" /\ count > 0 /\ count' = count - 1 /\ count \in Nat
  BY PopFacts DEF Pop, Inv, TypeOK
<1>2. PICK p : p = IF Crosses THEN 2 ELSE 1
  OBVIOUS
<1>3. /\ p \in 1 .. n /\ PopRing = chain[p] /\ ahead[chain[p]] = 0 /\ n \in Nat \ {0}
      /\ RingOK(ring[chain[p]]) /\ ~RingEmpty(ring[chain[p]])
      /\ count = 1 => p = n
  BY <1>1, <1>2, PopFacts, IdleLemma
<1>4. CASE count = 1
  BY <1>1, <1>4, Shortened
<1>5. CASE count # 1
  <2>1. ~Drained
    BY <1>5 DEF Drained
  <2>2. PICK d \in {0, 1} : /\ Len(chain') = n - d /\ p = 1 + d
                            /\ \A i \in 1 .. n : i > d => chain'[i - d] = chain[i]
    <3>1. CASE Crosses
      <4>1. chain' = Tail(chain) /\ chain # <<>> /\ chain \in Seq(Address)
        BY <1>1, <1>3, <2>1, <3>1, EmptySeq DEF Pop, Inv, TypeOK
      <4>2. /\ Len(chain') = n - 1
            /\ \A i \in 1 .. Len(chain') : chain'[i] = chain[i + 1]
        BY <4>1, HeadTailProperties
      <4>3. \A i \in 1 .. n : i > 1 => i - 1 \in 1 .. n - 1 /\ (i - 1) + 1 = i
        BY <1>3
      <4>4. \A i \in 1 .. n : i > 1 => chain'[i - 1] = chain[i]
        BY <4>2, <4>3
      <4> QED
        BY <1>2, <3>1, <4>2, <4>4
    <3>2. CASE ~Crosses
      <4>1. chain' = chain
        BY <2>1, <3>2 DEF Pop
      <4> QED
        BY <1>2, <1>3, <3>2, <4>1
    <3> QED
      BY <3>1, <3>2
  <2>3. ASSUME NEW k \in 2 .. count, NEW x, NEW i, LiesIn(i, k, x)
        PROVE  Lies(k - 1, x)'
    <3>1. /\ i \in 1 .. n /\ k \in Nat /\ ahead[chain[i]] < k /\ k <= UpTo(chain[i])
          /\ x = RingTasks(ring[chain[i]])[k - ahead[chain[i]]]
          /\ ahead[chain[i]] \in Nat
      BY <1>1, <2>3, IdleRings DEF LiesIn
    <3>2. i >= p
      <4>1. CASE Crosses
        <5>1. RingLen(ring[qr]) = 0 /\ ahead[qr] = 0 /\ qr = chain[1]
          BY <1>1, <4>1, IdleEnds, IdleLemma, RingLenLemma DEF Crosses
        <5>2. i # 1
          BY <3>1, <5>1 DEF UpTo
        <5> QED
          BY <1>2, <1>3, <3>1, <4>1, <5>2
      <4>2. CASE ~Crosses
        BY SMTT(30), <1>2, <3>1, <4>2
      <4> QED
        BY <4>1, <4>2
    <3>3. i > d /\ i - d \in 1 .. Len(chain') /\ chain'[i - d] = chain[i]
      <4>1. i > d /\ i - d \in 1 .. n - d
        <5>1. n \in Nat /\ i \in 1 .. n /\ d \in {0, 1} /\ p = 1 + d /\ i >= p
          BY <1>3, <2>2, <3>1, <3>2
        <5> HIDE DEF n
        <5> QED
          BY ONLY <5>1
      <4> QED
        BY <2>2, <3>1, <4>1
    <3>4. CASE i = p
      <4>1. ring'[chain[i]] = RingPop(ring[chain[i]]) /\ ahead'[chain[i]] = 0
        BY <1>1, <1>2, <2>1, <3>1, <3>2, <3>4, PopRest
      <4>2. /\ RingLen(ring'[chain[i]]) = RingLen(ring[chain[i]]) - 1
            /\ RingTasks(ring'[chain[i]]) = Tail(RingTasks(ring[chain[i]]))
            /\ RingTasks(ring[chain[i]]) \in Seq(Task)
            /\ Len(RingTasks(ring[chain[i]])) = RingLen(ring[chain[i]])
            /\ RingLen(ring[chain[i]]) \in Nat
        BY <1>3, <3>4, <4>1, RingPopLemma, RingSeq, RingLenLemma
      <4>3. k - 1 \in 1 .. RingLen(ring[chain[i]]) - 1 /\ k <= RingLen(ring[chain[i]])
            /\ x = RingTasks(ring[chain[i]])[k] /\ (k - 1) + 1 = k
            /\ RingLen(ring[chain[i]]) # 0
        BY <1>3, <3>1, <3>4, <4>2 DEF UpTo
      <4>4. RingTasks(ring[chain[i]]) # <<>>
        BY <4>2, <4>3
      <4>5. Tail(RingTasks(ring[chain[i]]))[k - 1] = x
        BY <4>2, <4>3, <4>4, HeadTailProperties
      <4>6. /\ ahead'[chain'[i - d]] < k - 1
            /\ k - 1 <= ahead'[chain'[i - d]] + RingLen(ring'[chain'[i - d]])
            /\ (k - 1) - ahead'[chain'[i - d]] = k - 1
        BY <3>3, <4>1, <4>2, <4>3
      <4>7. x = RingTasks(ring'[chain'[i - d]])[(k - 1) - ahead'[chain'[i - d]]]
        BY <3>3, <4>2, <4>5, <4>6
      <4> QED
        BY <3>3, <4>6, <4>7 DEF Lies, LiesIn, UpTo
    <3>5. CASE i # p
      <4>1. i > p
        BY <1>3, <3>1, <3>2, <3>5
      <4>2. ring'[chain[i]] = ring[chain[i]] /\ ahead'[chain[i]] = ahead[chain[i]] - 1
        BY <1>1, <1>2, <2>1, <3>1, <3>2, <4>1, PopRest
      <4>3. /\ ring'[chain'[i - d]] = ring[chain[i]]
            /\ ahead'[chain'[i - d]] = ahead[chain[i]] + (-1)
        BY <3>1, <3>3, <4>2
      <4>4. PICK e \in Int : e = -1
        OBVIOUS
      <4>5. ahead'[chain'[i - d]] = ahead[chain[i]] + e
        BY <4>3, <4>4
      <4>6. PICK j \in 1 .. Len(chain') : j = i - d
        BY <3>3
      <4>7. Lies(k + e, x)'
        BY <1>1, <2>3, <3>1, <4>3, <4>5, <4>6, Kept
      <4>8. k + e = k - 1
        BY <3>1, <4>4
      <4> QED
        BY <4>7, <4>8
    <3> QED
      BY <3>4, <3>5
  <2>4. \A k \in 2 .. count : \A x : Lies(k, x) => Lies(k - 1, x)'
    BY <2>3 DEF Lies
  <2> QED
    BY <1>1, <2>4, Shortened
<1> QED
  BY <1>4, <1>5

-----------------------------------------------------------------------------
(* The chain of rings implements the list of TaskDeque: every push appends *)
(* or prepends one task, every pop takes the first, and what allocates,    *)
(* reuses, unlinks and frees the rings is not seen.                        *)

LEMMA InitEmpty == Init => Deque!Init
BY DEF Init, Queued, Deque!Init

LEMMA StepOfList == Inv /\ Inv' /\ [Next]_vars => [Deque!Next]_Queued
<1> SUFFICES ASSUME Inv, Inv', [Next]_vars
             PROVE  Deque!Next \/ Queued' = Queued
  OBVIOUS
<1>1. CASE UNCHANGED vars
  BY <1>1 DEF vars, queue, Queued, HolderOf, UpTo, Linked
<1>2. ASSUME NEW t \in Task, Push(t)
      PROVE  Deque!Next
  BY <1>2, PushAppends DEF Deque!Next, Deque!Push
<1>3. ASSUME NEW t \in Task, PushUrgent(t)
      PROVE  Deque!Next
  <2>1. Queued' = <<t>> \o Queued
    BY <1>3, UrgentRoomPrepends, UrgentAllocPrepends DEF PushUrgent
  <2> QED
    BY <2>1 DEF Deque!Next, Deque!PushUrgent
<1>4. CASE Pop
  BY <1>4, PopShortens DEF Deque!Next, Deque!Pop
<1>5. CASE DestroyBegin
  BY <1>5 DEF DestroyBegin, Queued, Deque!Next, Deque!Destroy
<1>6. CASE DestroyRing
  BY <1>6 DEF DestroyRing, Queued
<1>7. CASE DestroyDone
  <2>1. Queued = <<>>
    BY <1>7 DEF DestroyDone, Queued
  <2>2. count' = 0 /\ mode' = "idle"
    BY <1>7 DEF DestroyDone
  <2>3. Queued' \in Seq(Task) /\ Len(Queued') = 0
    BY <2>2, LiesQueuedNext
  <2>4. Queued' = <<>>
    BY <2>3, EmptySeq
  <2> QED
    BY <2>1, <2>4
<1> QED
  BY <1>1, <1>2, <1>3, <1>4, <1>5, <1>6, <1>7 DEF Next

(* fio_queue_s is a double-ended list of tasks, for any ring size, any     *)
(* number of rings and tasks, and wherever the embedded ring is reused.    *)
THEOREM Refinement == Spec => ImplementsDeque
<1>1. Spec => []Inv
  BY Invariance
<1> QED
  BY <1>1, InitEmpty, StepOfList, PTL DEF Spec, ImplementsDeque, Deque!Spec
-----------------------------------------------------------------------------
(* The lock that guards a queue (fio_lock_i): what a failed attempt clears *)
(* is exactly what it has set, for every set of threads, of sub-locks and  *)
(* of groups.                                                              *)
LockInv == LockTypeOK /\ NoBitLeaks /\ OneOwner

(* A group that a thread asks for is made of sub-locks.                    *)
LEMMA ActualType == \A g \in Group : Actual(g) \subseteq Sublock
BY LockAssumption DEF Actual

LEMMA LockInitInv == LockInit => LockInv
BY DEF LockInit, LockInv, LockTypeOK, NoBitLeaks, OneOwner, Owned

(* The atomic OR gives every bit that it sets to the thread.               *)
LEMMA AcquireInv ==
    ASSUME LockInv, NEW t \in Thread, NEW g \in SUBSET Sublock,
           NEW f \in {"undo", "retry"}, pc[t] \in {"idle", "lock"},
           Acquire(t, g, f), group' \in [Thread -> SUBSET Sublock]
    PROVE  LockInv'
<1>1. undo[t] = {}
  BY DEF LockInv, OneOwner
<1>2. CASE lock \cap g = {}
  <2>1. /\ lock' = lock \cup g
        /\ held' = [held EXCEPT ![t] = @ \cup g]
        /\ pc' = [pc EXCEPT ![t] = "idle"]
        /\ undo' = undo
    BY <1>2 DEF Acquire
  <2>2. LockTypeOK'
    BY <2>1 DEF LockInv, LockTypeOK
  <2>3. Owned(t)' = Owned(t) \cup g
    BY <2>1 DEF LockInv, LockTypeOK, Owned
  <2>4. \A u \in Thread : u # t => Owned(u)' = Owned(u)
    BY <2>1 DEF LockInv, LockTypeOK, Owned
  <2>5. NoBitLeaks'
    BY <2>1, <2>3, <2>4 DEF LockInv, NoBitLeaks
  <2>6. \A u \in Thread : Owned(u) \cap g = {}
    BY <1>2 DEF LockInv, NoBitLeaks
  <2>7. OneOwner'
    <3>1. \A u, v \in Thread : u # v => Owned(u)' \cap Owned(v)' = {}
      BY <2>3, <2>4, <2>6 DEF LockInv, OneOwner
    <3>2. \A u \in Thread : held'[u] \cap undo'[u] = {}
      BY <1>1, <2>1 DEF LockInv, OneOwner, LockTypeOK
    <3>3. \A u \in Thread : undo'[u] # {} => pc'[u] \in {"undo", "retry"}
      BY <1>1, <2>1 DEF LockInv, OneOwner, LockTypeOK
    <3>4. QED
      BY <3>1, <3>2, <3>3 DEF OneOwner, Owned
  <2>8. QED
    BY <2>2, <2>5, <2>7 DEF LockInv
<1>3. CASE lock \cap g # {}
  <2>1. /\ lock' = lock \cup g
        /\ undo' = [undo EXCEPT ![t] = g \ lock]
        /\ pc' = [pc EXCEPT ![t] = f]
        /\ held' = held
    BY <1>3 DEF Acquire
  <2>2. LockTypeOK'
    BY <2>1 DEF LockInv, LockTypeOK
  <2>3. Owned(t)' = Owned(t) \cup (g \ lock)
    BY <1>1, <2>1 DEF LockInv, LockTypeOK, Owned
  <2>4. \A u \in Thread : u # t => Owned(u)' = Owned(u)
    BY <2>1 DEF LockInv, LockTypeOK, Owned
  <2>5. NoBitLeaks'
    BY <2>1, <2>3, <2>4 DEF LockInv, NoBitLeaks
  <2>6. \A u \in Thread : Owned(u) \cap (g \ lock) = {}
    BY DEF LockInv, NoBitLeaks
  <2>7. OneOwner'
    <3>1. \A u, v \in Thread : u # v => Owned(u)' \cap Owned(v)' = {}
      BY <2>3, <2>4, <2>6 DEF LockInv, OneOwner
    <3>2. \A u \in Thread : held'[u] \cap undo'[u] = {}
      BY <2>1, <2>6 DEF LockInv, OneOwner, LockTypeOK, Owned
    <3>3. \A u \in Thread : undo'[u] # {} => pc'[u] \in {"undo", "retry"}
      BY <2>1 DEF LockInv, OneOwner, LockTypeOK
    <3>4. QED
      BY <3>1, <3>2, <3>3 DEF OneOwner, Owned
  <2>8. QED
    BY <2>2, <2>5, <2>7 DEF LockInv
<1>4. QED
  BY <1>2, <1>3

(* The atomic AND clears bits that nobody else owns.                       *)
LEMMA UndoInv ==
    ASSUME LockInv, NEW t \in Thread, Undo(t)
    PROVE  LockInv'
<1>1. /\ lock' = lock \ undo[t]
      /\ undo' = [undo EXCEPT ![t] = {}]
      /\ pc' = [pc EXCEPT ![t] = IF @ = "retry" THEN "lock" ELSE "idle"]
      /\ group' = group /\ held' = held
  BY DEF Undo
<1>2. LockTypeOK'
  BY <1>1 DEF LockInv, LockTypeOK
<1>3. Owned(t)' = Owned(t) \ undo[t]
  BY <1>1 DEF LockInv, LockTypeOK, Owned, OneOwner
<1>4. \A u \in Thread : u # t => Owned(u)' = Owned(u)
  BY <1>1 DEF LockInv, LockTypeOK, Owned
<1>5. \A u \in Thread : u # t => Owned(u) \cap undo[t] = {}
  BY DEF LockInv, OneOwner, Owned
<1>6. NoBitLeaks'
  BY <1>1, <1>3, <1>4, <1>5 DEF LockInv, NoBitLeaks
<1>7. OneOwner'
  <2>1. \A u, v \in Thread : u # v => Owned(u)' \cap Owned(v)' = {}
    BY <1>3, <1>4 DEF LockInv, OneOwner
  <2>2. \A u \in Thread : held'[u] \cap undo'[u] = {}
    BY <1>1 DEF LockInv, OneOwner, LockTypeOK
  <2>3. \A u \in Thread : undo'[u] # {} => pc'[u] \in {"undo", "retry"}
    BY <1>1 DEF LockInv, OneOwner, LockTypeOK
  <2>4. QED
    BY <2>1, <2>2, <2>3 DEF OneOwner, Owned
<1>8. QED
  BY <1>2, <1>6, <1>7 DEF LockInv

(* A thread releases bits that it holds, and nobody else owns.             *)
LEMMA GiveBackInv ==
    ASSUME LockInv, NEW t \in Thread, NEW g, g \subseteq held[t],
           lock' = lock \ g,
           held' = [held EXCEPT ![t] = @ \ g],
           UNCHANGED <<pc, group, undo>>
    PROVE  LockInv'
<1>1. LockTypeOK'
  BY DEF LockInv, LockTypeOK
<1>2. Owned(t)' = Owned(t) \ g
  BY DEF LockInv, LockTypeOK, Owned, OneOwner
<1>3. \A u \in Thread : u # t => Owned(u)' = Owned(u)
  BY DEF LockInv, LockTypeOK, Owned
<1>4. \A u \in Thread : u # t => Owned(u) \cap g = {}
  BY DEF LockInv, OneOwner, Owned
<1>5. NoBitLeaks'
  BY <1>2, <1>3, <1>4 DEF LockInv, NoBitLeaks
<1>6. OneOwner'
  <2>1. \A u, v \in Thread : u # v => Owned(u)' \cap Owned(v)' = {}
    BY <1>2, <1>3 DEF LockInv, OneOwner
  <2>2. \A u \in Thread : held'[u] \cap undo'[u] = {}
    BY DEF LockInv, OneOwner, LockTypeOK
  <2>3. \A u \in Thread : undo'[u] # {} => pc'[u] \in {"undo", "retry"}
    BY DEF LockInv, OneOwner
  <2>4. QED
    BY <2>1, <2>2, <2>3 DEF OneOwner, Owned
<1>7. QED
  BY <1>1, <1>5, <1>6 DEF LockInv

(* The owner of every sub-lock lets go of all of them at once.             *)
LEMMA UnlockFullInv ==
    ASSUME LockInv, NEW t \in Thread, UnlockFull(t)
    PROVE  LockInv'
<1>1. lock = held[t]
  BY DEF LockInv, LockTypeOK, NoBitLeaks, Owned, UnlockFull
<1>2. lock' = lock \ held[t] /\ held' = [held EXCEPT ![t] = @ \ held[t]]
  BY <1>1 DEF UnlockFull
<1>3. QED
  BY <1>2, GiveBackInv DEF UnlockFull

LEMMA LockNextInv == LockInv /\ [LockNext]_lockVars => LockInv'
<1> SUFFICES ASSUME LockInv, [LockNext]_lockVars PROVE LockInv'
  OBVIOUS
<1>1. ASSUME NEW t \in Thread, TryLock(t) PROVE LockInv'
  <2>1. PICK g \in Group : group' = [group EXCEPT ![t] = Actual(g)]
                           /\ Acquire(t, Actual(g), "undo")
    BY <1>1 DEF TryLock
  <2>2. pc[t] = "idle" /\ Actual(g) \in SUBSET Sublock
    BY <1>1, ActualType DEF TryLock, MayLock
  <2>3. group' \in [Thread -> SUBSET Sublock]
    BY <2>1, <2>2 DEF LockInv, LockTypeOK
  <2>4. QED
    BY <2>1, <2>2, <2>3, AcquireInv
<1>2. ASSUME NEW t \in Thread, Lock(t) PROVE LockInv'
  <2>1. PICK g \in Group : group' = [group EXCEPT ![t] = Actual(g)]
    BY <1>2 DEF Lock
  <2>2. pc[t] = "idle" /\ pc' = [pc EXCEPT ![t] = "lock"]
        /\ lock' = lock /\ undo' = undo /\ held' = held
    BY <1>2 DEF Lock, MayLock
  <2>3. LockTypeOK'
    BY <2>1, <2>2, ActualType DEF LockInv, LockTypeOK
  <2>4. NoBitLeaks'
    BY <2>2 DEF LockInv, NoBitLeaks, Owned
  <2>5. OneOwner'
    BY <2>2 DEF LockInv, LockTypeOK, OneOwner, Owned
  <2>6. QED
    BY <2>3, <2>4, <2>5 DEF LockInv
<1>3. ASSUME NEW t \in Thread, Spin(t) PROVE LockInv'
  <2>1. pc[t] = "lock" /\ Acquire(t, group[t], "retry") /\ group' = group
    BY <1>3 DEF Spin
  <2>2. group[t] \in SUBSET Sublock /\ group' \in [Thread -> SUBSET Sublock]
    BY <2>1 DEF LockInv, LockTypeOK
  <2>3. QED
    BY <2>1, <2>2, AcquireInv
<1>4. ASSUME NEW t \in Thread, Undo(t) PROVE LockInv'
  BY <1>4, UndoInv
<1>5. ASSUME NEW t \in Thread, Unlock(t) PROVE LockInv'
  <2>1. PICK g \in Group : /\ Actual(g) \subseteq held[t]
                           /\ lock' = lock \ Actual(g)
                           /\ held' = [held EXCEPT ![t] = @ \ Actual(g)]
    BY <1>5 DEF Unlock
  <2>2. QED
    BY <1>5, <2>1, GiveBackInv DEF Unlock
<1>6. ASSUME NEW t \in Thread, UnlockFull(t) PROVE LockInv'
  BY <1>6, UnlockFullInv
<1>7. CASE UNCHANGED lockVars
  BY <1>7 DEF lockVars, LockInv, LockTypeOK, NoBitLeaks, OneOwner, Owned
<1>8. QED
  BY <1>1, <1>2, <1>3, <1>4, <1>5, <1>6, <1>7 DEF LockNext, Release

LEMMA LockInductive == LockSpec => []LockInv
<1>1. LockInit => LockInv
  BY LockInitInv
<1>2. LockInv /\ [LockNext]_lockVars => LockInv'
  BY LockNextInv
<1>3. QED
  BY <1>1, <1>2, PTL DEF LockSpec

(* No sub-lock is ever held by two threads: fio_trylock_group may clear    *)
(* bits at any moment and never clears one that somebody holds.            *)
THEOREM Exclusion == LockSpec => []MutualExclusion
<1>1. LockInv => MutualExclusion
  BY DEF LockInv, OneOwner, Owned, MutualExclusion
<1>2. QED
  BY <1>1, LockInductive, PTL

(* The byte holds exactly the bits that somebody holds or will clear.      *)
THEOREM Exact == LockSpec => []NoBitLeaks
<1>1. LockInv => NoBitLeaks
  BY DEF LockInv
<1>2. QED
  BY <1>1, LockInductive, PTL

(* The variables of the lock and of its threads have their types.         *)
THEOREM LockTypes == LockSpec => []LockTypeOK
<1>1. LockInv => LockTypeOK
  BY DEF LockInv
<1>2. QED
  BY <1>1, LockInductive, PTL
=============================================================================
