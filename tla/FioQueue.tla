------------------------------ MODULE FioQueue ------------------------------
(***************************************************************************)
(* The task queue fio_queue_s: a chain of task rings.  The first ring to   *)
(* be used, `mem`, is embedded in the queue object; the others are         *)
(* allocated when the chain has no room and freed when they drain.  Every  *)
(* operation runs under the queue's lock, so each is one step.  (The       *)
(* unlocked test of `count` at the top of fio_queue_pop only answers       *)
(* "empty" when the queue was empty at that moment.)                       *)
(*                                                                         *)
(* A pop that crosses into the next ring unlinks the one it leaves; a pop  *)
(* that takes the last task goes back to `mem`; a push that finds the last *)
(* ring full reuses `mem` if `mem` is out of the chain, which it tells     *)
(* from mem.next being NULL.                                               *)
(***************************************************************************)
EXTENDS TaskRing, FiniteSets

CONSTANTS
    HeapRing,       \* addresses the allocator can return for a ring
    Mem,            \* the address of the embedded ring, &q->mem
    Nil,            \* the NULL pointer
    MaxCount,       \* bound on the number of queued tasks
    MaxLeaks        \* bound on the leak counter

ASSUME AddressAssumption ==
    /\ Mem \notin HeapRing
    /\ Nil \notin HeapRing \cup {Mem}

ASSUME BoundAssumption == MaxCount \in Nat /\ MaxLeaks \in Nat

Address == HeapRing \cup {Mem}

VARIABLES
    qr,         \* q->r, the ring tasks are taken from
    qw,         \* q->w, the ring tasks are added to
    count,      \* q->count
    ring,       \* the contents of each ring
    next,       \* each ring's `next` pointer
    live,       \* the heap rings that are allocated
    leaks,      \* the leak counter fio_queue_task_rings
    mode,       \* "idle", or "destroying" inside fio_queue_destroy
    chain,      \* auxiliary: the rings linked from q->r, in order
    ahead       \* auxiliary: how many tasks are queued ahead of each ring's

queue == <<qr, qw, count, ring, next, live, leaks>>
vars == <<queue, mode, chain, ahead>>

(* fio_queue_init *)
Init ==
    /\ qr = Mem
    /\ qw = Mem
    /\ count = 0
    /\ ring = [a \in Address |-> NewRing]
    /\ next = [a \in Address |-> Nil]
    /\ live = {}
    /\ leaks = 0
    /\ mode = "idle"
    /\ chain = <<Mem>>
    /\ ahead = [a \in Address |-> 0]

Linked == {chain[i] : i \in 1 .. Len(chain)}

(* What a freed heap ring held is gone; a new one is written before it is  *)
(* read, so one value stands for all.                                      *)
Forget(freed, rings) ==
    [a \in Address |-> IF a \in freed \ {Mem} THEN NewRing ELSE rings[a]]

(* How many tasks are queued up to and including the last one of a ring.   *)
UpTo(a) == ahead[a] + RingLen(ring[a])

-----------------------------------------------------------------------------
(* fio_queue_push.  A push that needs a ring and gets no memory returns -1 *)
(* and changes nothing: it is a stuttering step.                           *)

PushRoom(t) ==
    /\ ~RingFull(ring[qw])
    /\ ring' = [ring EXCEPT ![qw] = RingPush(@, t)]
    /\ UNCHANGED <<qr, qw, next, live, leaks, chain, ahead>>

(* A mistake to guard against: the embedded ring is reused while it is     *)
(* still in the chain.                                                     *)
PushReuseLinkedMem(t) ==
    /\ RingFull(ring[qw])
    /\ qw # Mem
    /\ next' = [next EXCEPT ![qw] = Mem]
    /\ ring' = [ring EXCEPT ![Mem] = RingPush(ResetRing(@), t)]
    /\ qw' = Mem
    /\ chain' = Append(chain, Mem)
    /\ ahead' = [ahead EXCEPT ![Mem] = UpTo(qw)]
    /\ UNCHANGED <<qr, live, leaks>>

(* A mistake to guard against: q->w moves on before it is linked.          *)
PushReuseUnlinkedMem(t) ==
    /\ RingFull(ring[qw])
    /\ qw # Mem /\ next[Mem] = Nil
    /\ ring' = [ring EXCEPT ![Mem] = RingPush(ResetRing(@), t)]
    /\ qw' = Mem
    /\ chain' = Append(chain, Mem)
    /\ ahead' = [ahead EXCEPT ![Mem] = UpTo(qw)]
    /\ UNCHANGED <<qr, next, live, leaks>>

PushReuseMem(t) ==
    /\ RingFull(ring[qw])
    /\ qw # Mem /\ next[Mem] = Nil
    /\ next' = [next EXCEPT ![qw] = Mem]
    /\ ring' = [ring EXCEPT ![Mem] = RingPush(ResetRing(@), t)]
    /\ qw' = Mem
    /\ chain' = Append(chain, Mem)
    /\ ahead' = [ahead EXCEPT ![Mem] = UpTo(qw)]
    /\ UNCHANGED <<qr, live, leaks>>

PushAlloc(t) ==
    /\ RingFull(ring[qw])
    /\ qw = Mem \/ next[Mem] # Nil
    /\ leaks < MaxLeaks
    /\ leaks' = leaks + 1
    /\ \E a \in HeapRing \ live :
        /\ live' = live \cup {a}
        /\ next' = [next EXCEPT ![qw] = a, ![a] = Nil]
        /\ ring' = [ring EXCEPT ![a] = RingPush(NewRing, t)]
        /\ qw' = a
        /\ chain' = Append(chain, a)
        /\ ahead' = [ahead EXCEPT ![a] = UpTo(qw)]
    /\ UNCHANGED qr

Push(t) ==
    /\ mode = "idle"
    /\ count < MaxCount
    /\ PushRoom(t) \/ PushReuseMem(t) \/ PushAlloc(t)
    /\ count' = count + 1
    /\ UNCHANGED mode

(* fio_queue_push_urgent *)

(* A mistake to guard against: the task goes behind the first ring's.      *)
PushUrgentBehind(t) ==
    /\ ~RingFull(ring[qr])
    /\ ring' = [ring EXCEPT ![qr] = RingPush(@, t)]
    /\ ahead' = [a \in Address |->
                    IF a \in Linked \ {qr} THEN ahead[a] + 1 ELSE ahead[a]]
    /\ UNCHANGED <<qr, next, live, leaks, chain>>

PushUrgentRoom(t) ==
    /\ ~RingFull(ring[qr])
    /\ ring' = [ring EXCEPT ![qr] = RingUnpop(@, t)]
    /\ ahead' = [a \in Address |->
                    IF a \in Linked \ {qr} THEN ahead[a] + 1 ELSE ahead[a]]
    /\ UNCHANGED <<qr, next, live, leaks, chain>>

OneTaskRing(t) ==
    [r |-> 0, w |-> 1, dir |-> 0, buf |-> [NewRing.buf EXCEPT ![0] = t]]

PushUrgentAlloc(t) ==
    /\ RingFull(ring[qr])
    /\ leaks < MaxLeaks
    /\ leaks' = leaks + 1
    /\ \E a \in HeapRing \ live :
        /\ live' = live \cup {a}
        /\ next' = [next EXCEPT ![a] = qr]
        /\ ring' = [ring EXCEPT ![a] = OneTaskRing(t)]
        /\ qr' = a
        /\ chain' = <<a>> \o chain
        /\ ahead' = [b \in Address |->
                        IF b \in Linked THEN ahead[b] + 1 ELSE 0]

(* A mistake to guard against: a task that is not counted.                 *)
PushUrgentUncounted(t) ==
    /\ mode = "idle"
    /\ count < MaxCount
    /\ PushUrgentRoom(t) \/ PushUrgentAlloc(t)
    /\ UNCHANGED <<count, qw, mode>>

PushUrgent(t) ==
    /\ mode = "idle"
    /\ count < MaxCount
    /\ PushUrgentRoom(t) \/ PushUrgentAlloc(t)
    /\ count' = count + 1
    /\ UNCHANGED <<qw, mode>>

(* fio_queue_pop.  When the first ring is empty the task comes from the    *)
(* next one, and the first ring is unlinked and freed.  When the task was  *)
(* the last one and its ring is not the embedded one, that ring is freed   *)
(* too and the queue goes back to the embedded ring.                       *)

Crosses == RingEmpty(ring[qr])
PopRing == IF Crosses THEN next[qr] ELSE qr
Popped  == RingFront(ring[PopRing])
Drained == Popped # NoTask /\ count = 1 /\ PopRing # Mem

(* A mistake to guard against: only the ring that was left is freed.       *)
PopFreesOne == IF Crosses THEN {qr} ELSE {}

PopFrees ==
    (IF Crosses THEN {qr} ELSE {}) \cup (IF Drained THEN {PopRing} ELSE {})

Pop ==
    /\ mode = "idle"
    /\ count > 0
    /\ next' = IF Crosses THEN [next EXCEPT ![qr] = Nil] ELSE next
    /\ count' = IF Popped = NoTask THEN count ELSE count - 1
    /\ live' = live \ PopFrees
    /\ leaks' = leaks - (IF Crosses /\ qr # Mem THEN 1 ELSE 0)
                      - (IF Drained THEN 1 ELSE 0)
    /\ LET popped == [ring EXCEPT ![PopRing] = RingPop(@)]
       IN  IF Drained
           THEN /\ qr' = Mem
                /\ qw' = Mem
                /\ ring' = Forget(PopFrees, [popped EXCEPT ![Mem] = ResetRing(@)])
                /\ chain' = <<Mem>>
                /\ ahead' = [a \in Address |-> 0]
           ELSE /\ qr' = PopRing
                /\ qw' = qw
                /\ ring' = Forget(PopFrees, popped)
                /\ chain' = IF Crosses THEN Tail(chain) ELSE chain
                /\ ahead' = [a \in Address |->
                                IF ahead[a] > 0 THEN ahead[a] - 1 ELSE 0]
    /\ UNCHANGED mode

(* fio_queue_destroy, for a queue that has no worker threads: free the     *)
(* rings one by one, then fio_queue_init.  The loop frees without a call   *)
(* to the leak counter.                                                    *)

DestroyBegin ==
    /\ mode = "idle"
    /\ mode' = "destroying"
    /\ UNCHANGED <<queue, chain, ahead>>

DestroyRing ==
    /\ mode = "destroying"
    /\ qr # Nil
    /\ qr' = next[qr]
    /\ live' = live \ {qr}
    /\ ring' = Forget({qr}, ring)
    /\ chain' = Tail(chain)
    /\ UNCHANGED <<qw, count, next, leaks, mode, ahead>>

DestroyDone ==
    /\ mode = "destroying"
    /\ qr = Nil
    /\ mode' = "idle"
    /\ qr' = Mem
    /\ qw' = Mem
    /\ count' = 0
    /\ ring' = [ring EXCEPT ![Mem] = ResetRing(@)]
    /\ next' = [next EXCEPT ![Mem] = Nil]
    /\ chain' = <<Mem>>
    /\ ahead' = [a \in Address |-> 0]
    /\ UNCHANGED <<live, leaks>>

Next ==
    \/ \E t \in Task : Push(t) \/ PushUrgent(t)
    \/ Pop
    \/ DestroyBegin \/ DestroyRing \/ DestroyDone

Spec == Init /\ [][Next]_vars
-----------------------------------------------------------------------------
TypeOK ==
    /\ qr \in Address \cup {Nil}
    /\ qw \in Address
    /\ count \in Nat
    /\ ring \in [Address -> Ring]
    /\ next \in [Address -> Address \cup {Nil}]
    /\ live \in SUBSET HeapRing
    /\ leaks \in Int
    /\ mode \in {"idle", "destroying"}
    /\ chain \in Seq(Address)
    /\ ahead \in [Address -> Nat]

(* The pointers describe one simple list of rings, from q->r to NULL, and  *)
(* q->w is its last ring.  fio_queue_push tells whether the embedded ring  *)
(* is in that list from its `next` pointer alone, so `next` must be NULL   *)
(* whenever it is not.                                                     *)
LinksOK ==
    /\ \A i, j \in 1 .. Len(chain) : chain[i] = chain[j] => i = j
    /\ \A i \in 1 .. Len(chain) - 1 : next[chain[i]] = chain[i + 1]
    /\ chain # <<>> => qr = chain[1] /\ next[chain[Len(chain)]] = Nil
    /\ chain = <<>> => qr = Nil /\ mode = "destroying"
    /\ mode = "idle" => qw = chain[Len(chain)]
    /\ mode = "idle" /\ Mem \notin Linked => next[Mem] = Nil

(* Every ring reached through the queue's pointers is allocated, and every *)
(* allocated ring is reached: no use of a freed ring, no leak.             *)
MemoryOK == Linked \ {Mem} = live

(* Every ring in use is in a legal state, and only the first may be empty: *)
(* one hop of fio_queue_pop always finds a task when count is not zero.    *)
RingsOK ==
    mode = "idle" =>
        /\ \A i \in 1 .. Len(chain) : RingOK(ring[chain[i]])
        /\ \A i \in 2 .. Len(chain) : ~RingEmpty(ring[chain[i]])

(* q->count is the number of tasks the rings hold.                         *)
CountOK ==
    mode = "idle" =>
        /\ ahead[chain[1]] = 0
        /\ \A i \in 1 .. Len(chain) - 1 :
               ahead[chain[i + 1]] = UpTo(chain[i])
        /\ count = UpTo(chain[Len(chain)])

(* All the tasks of a ring come before all the tasks of the rings linked   *)
(* after it, so count = 1 leaves room for one ring only: resetting the     *)
(* queue to the embedded ring when the count reaches zero loses no task.   *)
OrderOK ==
    mode = "idle" =>
        \A i, j \in 1 .. Len(chain) : i < j => UpTo(chain[i]) <= ahead[chain[j]]

(* The chain of rings, their memory and their tasks agree with each other  *)
(* and with the count between any two calls.                               *)
ChainOK == LinksOK /\ MemoryOK /\ RingsOK /\ CountOK /\ OrderOK

(* fio_queue_pop on a queue whose count is not zero returns a task: it     *)
(* never follows a NULL `next`, and never returns an empty slot.           *)
PopReturnsTask == mode = "idle" /\ count > 0 => PopRing # Nil /\ Popped \in Task

(* The leak counter fio_queue_task_rings is the number of rings that are   *)
(* allocated, so that what it reports at exit are leaks.                   *)
LeakCounterOK == mode = "idle" => leaks = Cardinality(live)

-----------------------------------------------------------------------------
(* What the queue holds, in the order it will be popped.                   *)

HolderOf(k) == CHOOSE a \in Linked : ahead[a] < k /\ k <= UpTo(a)

Queued ==
    IF mode = "idle"
    THEN [k \in 1 .. count |->
            RingTasks(ring[HolderOf(k)])[k - ahead[HolderOf(k)]]]
    ELSE <<>>

Deque == INSTANCE TaskDeque WITH tasks <- Queued

(* The chain of rings behaves as one double-ended list: fio_queue_push     *)
(* appends, fio_queue_push_urgent prepends, fio_queue_pop takes the first  *)
(* task, whatever rings are allocated, reused, unlinked or freed meanwhile.*)
ImplementsDeque == Deque!Spec
=============================================================================
