------------------------------ MODULE SpinLock ------------------------------
(***************************************************************************)
(* fio_lock_i, the spin lock of 000 core.h: one byte whose bits are        *)
(* sub-locks that are taken and released in groups.  Taking a group is one *)
(* atomic OR; when a part of the group was taken already the bits that the *)
(* OR did set are cleared by an atomic AND of their own, and until then    *)
(* other threads see them set.                                             *)
(***************************************************************************)
EXTENDS Integers, FiniteSets

CONSTANTS
    Thread,
    Sublock,    \* the bits of the lock
    Master,     \* sub-lock 0
    Group,      \* the groups the threads ask for; {} is the master lock
    Nested      \* whether a thread may lock while it holds another group

ASSUME LockAssumption ==
    /\ Master \in Sublock
    /\ Group \subseteq SUBSET Sublock
    /\ Nested \in BOOLEAN

VARIABLES
    lock,       \* the byte: the sub-locks whose bit is set
    pc,         \* what a thread does: "idle", "lock" (fio_lock_group),
                \* "undo" or "retry" (between the OR and the AND)
    group,      \* the group a thread asks for
    undo,       \* the bits that it set and has to clear
    held        \* auxiliary: the sub-locks that a thread holds

lockVars == <<lock, pc, group, undo, held>>

LockInit ==
    /\ lock = {}
    /\ pc = [t \in Thread |-> "idle"]
    /\ group = [t \in Thread |-> {}]
    /\ undo = [t \in Thread |-> {}]
    /\ held = [t \in Thread |-> {}]

Actual(g) == IF g = {} THEN {Master} ELSE g

(* The atomic OR of fio_trylock_group, and the test of what it returns.    *)
Acquire(t, g, onFailure) ==
    /\ lock' = lock \cup g
    /\ IF lock \cap g = {}
       THEN /\ held' = [held EXCEPT ![t] = @ \cup g]
            /\ pc' = [pc EXCEPT ![t] = "idle"]
            /\ UNCHANGED undo
       ELSE /\ undo' = [undo EXCEPT ![t] = g \ lock]
            /\ pc' = [pc EXCEPT ![t] = onFailure]
            /\ UNCHANGED held

MayLock(t) == pc[t] = "idle" /\ (held[t] = {} \/ Nested)

TryLock(t) ==
    /\ MayLock(t)
    /\ \E g \in Group :
        /\ group' = [group EXCEPT ![t] = Actual(g)]
        /\ Acquire(t, Actual(g), "undo")

(* fio_lock_group calls fio_trylock_group until it succeeds.               *)
Lock(t) ==
    /\ MayLock(t)
    /\ \E g \in Group : group' = [group EXCEPT ![t] = Actual(g)]
    /\ pc' = [pc EXCEPT ![t] = "lock"]
    /\ UNCHANGED <<lock, undo, held>>

Spin(t) ==
    /\ pc[t] = "lock"
    /\ Acquire(t, group[t], "retry")
    /\ UNCHANGED group

(* (Mistakes to guard against: the whole group is cleared, or nothing.)    *)
UndoGroup(t) ==
    /\ pc[t] \in {"undo", "retry"}
    /\ lock' = lock \ group[t]
    /\ undo' = [undo EXCEPT ![t] = {}]
    /\ pc' = [pc EXCEPT ![t] = IF @ = "retry" THEN "lock" ELSE "idle"]
    /\ UNCHANGED <<group, held>>

UndoNothing(t) ==
    /\ pc[t] \in {"undo", "retry"}
    /\ undo' = [undo EXCEPT ![t] = {}]
    /\ pc' = [pc EXCEPT ![t] = IF @ = "retry" THEN "lock" ELSE "idle"]
    /\ UNCHANGED <<lock, group, held>>

(* The atomic AND of fio_trylock_group.                                    *)
Undo(t) ==
    /\ pc[t] \in {"undo", "retry"}
    /\ lock' = lock \ undo[t]
    /\ undo' = [undo EXCEPT ![t] = {}]
    /\ pc' = [pc EXCEPT ![t] = IF @ = "retry" THEN "lock" ELSE "idle"]
    /\ UNCHANGED <<group, held>>

(* (A mistake to guard against: the bits are not cleared.)            *)
UnlockForgets(t) ==
    /\ pc[t] = "idle"
    /\ \E g \in Group :
        /\ Actual(g) \subseteq held[t]
        /\ held' = [held EXCEPT ![t] = @ \ Actual(g)]
    /\ UNCHANGED <<lock, pc, group, undo>>

(* fio_unlock_group: any part of what the thread holds.                    *)
Unlock(t) ==
    /\ pc[t] = "idle"
    /\ \E g \in Group :
        /\ Actual(g) \subseteq held[t]
        /\ lock' = lock \ Actual(g)
        /\ held' = [held EXCEPT ![t] = @ \ Actual(g)]
    /\ UNCHANGED <<pc, group, undo>>

(* fio_unlock_full, by the thread that has called fio_lock_full.           *)
UnlockFull(t) ==
    /\ pc[t] = "idle"
    /\ held[t] = Sublock
    /\ lock' = {}
    /\ held' = [held EXCEPT ![t] = {}]
    /\ UNCHANGED <<pc, group, undo>>

Release(t) == Unlock(t) \/ UnlockFull(t)

LockNext ==
    \E t \in Thread : TryLock(t) \/ Lock(t) \/ Spin(t) \/ Undo(t) \/ Release(t)

(* A thread that spins goes on, and one that holds a group releases it.    *)
Fairness ==
    \A t \in Thread : WF_lockVars(Spin(t) \/ Undo(t)) /\ WF_lockVars(Release(t))

LockSpec == LockInit /\ [][LockNext]_lockVars /\ Fairness

-----------------------------------------------------------------------------
LockTypeOK ==
    /\ lock \subseteq Sublock
    /\ pc \in [Thread -> {"idle", "lock", "undo", "retry"}]
    /\ group \in [Thread -> SUBSET Sublock]
    /\ undo \in [Thread -> SUBSET Sublock]
    /\ held \in [Thread -> SUBSET Sublock]

(* The bits that a thread will clear some day.                             *)
Owned(t) == held[t] \cup undo[t]

(* No sub-lock is held by two threads, although fio_trylock_group clears   *)
(* bits while other threads take and release theirs.                       *)
MutualExclusion ==
    \A t, u \in Thread : t # u => held[t] \cap held[u] = {}

(* A bit is set exactly when somebody holds it or is about to clear it: no *)
(* failed attempt leaves a sub-lock locked for ever.                       *)
NoBitLeaks == lock = UNION {Owned(t) : t \in Thread}

(* The invariant that explains both: every bit has one owner.              *)
OneOwner ==
    /\ \A t, u \in Thread : t # u => Owned(t) \cap Owned(u) = {}
    /\ \A t \in Thread : held[t] \cap undo[t] = {}
    /\ \A t \in Thread : undo[t] # {} => pc[t] \in {"undo", "retry"}

(* Threads that spin do not hold each other up for ever: some thread gets  *)
(* what it asked for.                                                      *)
Progress ==
    (\E t \in Thread : pc[t] \in {"lock", "retry"}) ~> (\E t \in Thread : held[t] # {})
=============================================================================
