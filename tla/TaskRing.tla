------------------------------ MODULE TaskRing ------------------------------
(***************************************************************************)
(* The fixed-size ring of tasks, fio___task_ring_s, from which a           *)
(* fio_queue_s is built.                                                   *)
(*                                                                         *)
(* `r` and `w` are the reader's and the writer's position and `dir` tells  *)
(* which of the two is ahead: when r = w the ring is empty if dir is 0 and *)
(* full if it is not.  `dir` only ever takes the values 0 and ~0, written  *)
(* 0 and 1 here.  The three operations are pure functions of the ring; the *)
(* caller holds the queue's lock.                                          *)
(***************************************************************************)
EXTENDS Integers, Sequences

CONSTANTS
    Task,           \* the tasks that can be queued (fn, udata1, udata2)
    NoTask,         \* a task whose fn is NULL
    TasksPerAlloc   \* FIO_QUEUE_TASKS_PER_ALLOC

ASSUME TaskAssumption == NoTask \notin Task

(* 168 or 338 unless the application chooses another value.                *)
ASSUME TasksPerAllocAssumption == TasksPerAlloc \in Nat /\ TasksPerAlloc > 1

Slot == 0 .. TasksPerAlloc - 1

Ring == [r: Slot, w: Slot, dir: {0, 1}, buf: [Slot -> Task \cup {NoTask}]]

NewRing == [r |-> 0, w |-> 0, dir |-> 0, buf |-> [s \in Slot |-> NoTask]]

(* q->mem.w = q->mem.r = q->mem.dir = 0: the buffer keeps what it held.    *)
ResetRing(ring) == [r |-> 0, w |-> 0, dir |-> 0, buf |-> ring.buf]

(* The positions are equal in a full ring and in an empty one.             *)
RingFull(ring)  == ring.dir = 1 /\ ring.r = ring.w
RingEmpty(ring) == ring.dir = 0 /\ ring.r = ring.w

(* A mistake to guard against: a write position that is not wrapped.       *)
RingPushUnwrapped(ring, task) ==
    [ring EXCEPT !.w = @ + 1, !.buf[ring.w] = task]

(* The ring after a push that found room.                                  *)
RingPush(ring, task) ==
    LET wraps == ring.w + 1 = TasksPerAlloc
    IN  [r   |-> ring.r,
         w   |-> IF wraps THEN 0 ELSE ring.w + 1,
         dir |-> IF wraps THEN 1 - ring.dir ELSE ring.dir,
         buf |-> [ring.buf EXCEPT ![ring.w] = task]]

(* The ring after an unpop (a push at the reader's end) that found room.   *)
RingUnpop(ring, task) ==
    LET wraps == ring.r = 0
        s     == IF wraps THEN TasksPerAlloc - 1 ELSE ring.r - 1
    IN  [r   |-> s,
         w   |-> ring.w,
         dir |-> IF wraps THEN 1 - ring.dir ELSE ring.dir,
         buf |-> [ring.buf EXCEPT ![s] = task]]

(* The task a pop returns, and the ring it leaves behind.                  *)
RingFront(ring) == IF RingEmpty(ring) THEN NoTask ELSE ring.buf[ring.r]

RingPop(ring) ==
    LET wraps == ring.r + 1 = TasksPerAlloc
    IN  IF RingEmpty(ring)
        THEN ring
        ELSE [r   |-> IF wraps THEN 0 ELSE ring.r + 1,
              w   |-> ring.w,
              dir |-> IF wraps THEN 1 - ring.dir ELSE ring.dir,
              buf |-> [ring.buf EXCEPT ![ring.r] = NoTask]]

-----------------------------------------------------------------------------
(* What a ring holds, front first.                                         *)

RingLen(ring) ==
    (ring.w - ring.r) + (IF ring.dir = 1 THEN TasksPerAlloc ELSE 0)

RingSlot(ring, i) ==
    IF ring.r + i - 1 < TasksPerAlloc
    THEN ring.r + i - 1
    ELSE ring.r + i - 1 - TasksPerAlloc

RingTasks(ring) == [i \in 1 .. RingLen(ring) |-> ring.buf[RingSlot(ring, i)]]

(* The states a ring can be in: the writer is never behind the reader by   *)
(* more than one lap, and every occupied slot holds a task.                *)
RingOK(ring) ==
    /\ ring \in Ring
    /\ IF ring.dir = 1 THEN ring.w <= ring.r ELSE ring.r <= ring.w
    /\ \A i \in 1 .. RingLen(ring) : ring.buf[RingSlot(ring, i)] \in Task
=============================================================================
