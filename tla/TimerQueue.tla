----------------------------- MODULE TimerQueue -----------------------------
(***************************************************************************)
(* The timer queue fio_timer_queue_s: a list of events ordered by due      *)
(* time.  fio_timer_push2queue moves the events that are due into a task   *)
(* queue; a thread that performs the task calls the event's function and   *)
(* then either puts the event back in the list or finishes and frees it.   *)
(*                                                                         *)
(* An access to the list is made under the timer queue's lock and is one   *)
(* step, except fio_timer_push2queue: it holds the lock while it pushes    *)
(* one event after the other, and the tasks it has pushed may be performed *)
(* before it is done.  Between two accesses the event belongs to the task  *)
(* that carries it: several threads may perform tasks at once, schedule    *)
(* new timers or destroy the timer queue meanwhile.                        *)
(***************************************************************************)
EXTENDS Integers, Sequences, FiniteSets

CONSTANTS
    Timer,          \* the events, one for each call of fio_timer_schedule
    Intervals,      \* the values of `every`, in milliseconds
    Repetitions,    \* the values of `repetitions`; negative is forever
    MaxTime,        \* bound on the clock and on due times
    MemoryCanFail   \* whether fio_queue_push can run out of memory

ASSUME TimerAssumption ==
    /\ Intervals \subseteq Nat \ {0}
    /\ Repetitions \subseteq Int
    /\ MaxTime \in Nat \ {0}
    /\ MemoryCanFail \in BOOLEAN

VARIABLES
    now,        \* the clock
    list,       \* timer_queue.next: the waiting events, first due first
    pushing,    \* start_at of the fio_timer_push2queue that holds the lock, or 0
    tasks,      \* the task queue: the events pushed to it, in order
    place,      \* where each event is
    due,        \* t->due
    every,      \* t->every
    reps,       \* t->repetitions
    start,      \* auxiliary: args.start_at
    wanted,     \* auxiliary: args.repetitions
    runs,       \* auxiliary: how many times t->fn was called
    finished,   \* auxiliary: how many times t->on_finish was called
    ended       \* auxiliary: why the event ended

timer == <<due, every, reps, start, wanted>>
vars == <<now, list, pushing, tasks, place, timer, runs, finished, ended>>

Places == {"unused", "list", "task", "running", "dropped", "freed", "lost"}

Init ==
    /\ now = 1
    /\ list = <<>>
    /\ pushing = 0
    /\ tasks = <<>>
    /\ place = [t \in Timer |-> "unused"]
    /\ due = [t \in Timer |-> 0]
    /\ every = [t \in Timer |-> 0]
    /\ reps = [t \in Timer |-> 0]
    /\ start = [t \in Timer |-> 0]
    /\ wanted = [t \in Timer |-> 0]
    /\ runs = [t \in Timer |-> 0]
    /\ finished = [t \in Timer |-> 0]
    /\ ended = [t \in Timer |-> "no"]

(* A mistake to guard against: a new event goes first.                     *)
InsertFirst(l, t, dues) == <<t>> \o l

(* fio___timer_insert: behind every event that is due no later.            *)
Insert(l, t, dues) ==
    LET k == CHOOSE i \in 0 .. Len(l) :
                /\ \A j \in 1 .. i : dues[t] >= dues[l[j]]
                /\ i < Len(l) => dues[t] < dues[l[i + 1]]
    IN  SubSeq(l, 1, k) \o <<t>> \o SubSeq(l, k + 1, Len(l))

(* fio___timer_pop takes the event off the list: it is due.                *)
(* (A mistake to guard against: one tick too early.)                       *)
DueEarly(t) == due[t] <= pushing + 1

Due(t) == due[t] <= pushing

(* t->on_finish is called and the event is freed.                          *)
Finish(t, why) ==
    /\ finished' = [finished EXCEPT ![t] = @ + 1]
    /\ place' = [place EXCEPT ![t] = "freed"]
    /\ ended' = [ended EXCEPT ![t] = why]

-----------------------------------------------------------------------------
Tick ==
    /\ now < MaxTime
    /\ now' = now + 1
    /\ UNCHANGED <<list, pushing, tasks, place, timer, runs, finished, ended>>

(* fio_timer_schedule.  A repetition count of zero counts as one.          *)
Schedule(t, e, r) ==
    /\ place[t] = "unused"
    /\ pushing = 0
    /\ now + e * (IF r > 0 THEN r ELSE 1) <= MaxTime
    /\ due' = [due EXCEPT ![t] = now + e]
    /\ every' = [every EXCEPT ![t] = e]
    /\ reps' = [reps EXCEPT ![t] = IF r = 0 THEN 1 ELSE r]
    /\ start' = [start EXCEPT ![t] = now]
    /\ wanted' = [wanted EXCEPT ![t] = r]
    /\ list' = Insert(list, t, due')
    /\ place' = [place EXCEPT ![t] = "list"]
    /\ UNCHANGED <<now, pushing, tasks, runs, finished, ended>>

(* fio_timer_schedule with no `every`, or without memory for the event:    *)
(* on_finish is called at once.                                            *)
ScheduleRefused(t) ==
    /\ place[t] = "unused"
    /\ Finish(t, "refused")
    /\ UNCHANGED <<now, list, pushing, tasks, timer, runs>>

(* fio_timer_push2queue takes the lock.  (When it is taken, or nothing is  *)
(* due, the call changes nothing: that is left out.)                       *)
PushBegin ==
    /\ pushing = 0
    /\ list # <<>> /\ due[Head(list)] <= now
    /\ pushing' = now
    /\ UNCHANGED <<now, list, tasks, place, timer, runs, finished, ended>>

(* One turn of its loop.  The result of fio_queue_push is not looked at.   *)
PushNext ==
    /\ pushing # 0
    /\ list # <<>> /\ Due(Head(list))
    /\ list' = Tail(list)
    /\ \E to \in {"task", "lost"} :
        /\ to = "lost" => MemoryCanFail
        /\ tasks' = IF to = "task" THEN Append(tasks, Head(list)) ELSE tasks
        /\ place' = [place EXCEPT ![Head(list)] = to]
    /\ UNCHANGED <<now, pushing, timer, runs, finished, ended>>

PushEnd ==
    /\ pushing # 0
    /\ list # <<>> => ~Due(Head(list))
    /\ pushing' = 0
    /\ UNCHANGED <<now, list, tasks, place, timer, runs, finished, ended>>

(* fio___timer_perform: a thread takes the task and calls t->fn.           *)
Perform ==
    /\ tasks # <<>>
    /\ tasks' = Tail(tasks)
    /\ LET t == Head(tasks)
       IN  /\ runs' = [runs EXCEPT ![t] = @ + 1]
           /\ place' = [place EXCEPT ![t] = "running"]
    /\ UNCHANGED <<now, list, pushing, timer, finished, ended>>

(* fio___timer_perform, after t->fn returned: a non-zero result ends the   *)
(* timer without touching the repetition count.  fio___timer_event_free    *)
(* otherwise counts the run and puts the event back in the list unless it  *)
(* was the last.                                                           *)
(* (A mistake to guard against: testing the count before it is reduced.)   *)
RearmsOnceMore(t, stop) == ~stop /\ (reps[t] < 0 \/ reps[t] # 0)

Rearms(t, stop) == ~stop /\ (reps[t] < 0 \/ reps[t] - 1 # 0)

Performed(t, stop) ==
    /\ place[t] = "running"
    /\ reps[t] < 0 => due[t] + every[t] <= MaxTime \/ stop
    /\ due' = [due EXCEPT ![t] = @ + every[t]]
    /\ reps' = [reps EXCEPT ![t] = IF stop \/ @ < 0 THEN @ ELSE @ - 1]
    /\ IF Rearms(t, stop)
       THEN /\ pushing = 0
            /\ list' = Insert(list, t, due')
            /\ place' = [place EXCEPT ![t] = "list"]
            /\ UNCHANGED <<finished, ended>>
       ELSE /\ Finish(t, IF stop THEN "stopped" ELSE "done")
            /\ UNCHANGED list
    /\ UNCHANGED <<now, pushing, tasks, every, start, wanted, runs>>

(* fio_timer_destroy: empties the list under the lock, then finishes each  *)
(* event it held.                                                          *)
(* (Mistakes to guard against: the list is not emptied; its events are     *)
(* forgotten.)                                                             *)
DestroyKeepsList ==
    /\ pushing = 0 /\ list # <<>>
    /\ place' = [t \in Timer |-> IF place[t] = "list" THEN "dropped" ELSE place[t]]
    /\ UNCHANGED <<now, list, pushing, tasks, timer, runs, finished, ended>>

DestroyForgets ==
    /\ pushing = 0 /\ list # <<>>
    /\ place' = [t \in Timer |-> IF place[t] = "list" THEN "lost" ELSE place[t]]
    /\ list' = <<>>
    /\ UNCHANGED <<now, pushing, tasks, timer, runs, finished, ended>>

Destroy ==
    /\ pushing = 0 /\ list # <<>>
    /\ place' = [t \in Timer |-> IF place[t] = "list" THEN "dropped" ELSE place[t]]
    /\ list' = <<>>
    /\ UNCHANGED <<now, pushing, tasks, timer, runs, finished, ended>>

(* (A mistake to guard against: the event is freed without on_finish.)     *)
DestroyEventSilently(t) ==
    /\ place[t] = "dropped"
    /\ place' = [place EXCEPT ![t] = "freed"]
    /\ ended' = [ended EXCEPT ![t] = "destroyed"]
    /\ UNCHANGED <<now, list, pushing, tasks, timer, runs, finished>>

DestroyEvent(t) ==
    /\ place[t] = "dropped"
    /\ Finish(t, "destroyed")
    /\ UNCHANGED <<now, list, pushing, tasks, timer, runs>>

Next ==
    \/ Tick
    \/ \E t \in Timer, e \in Intervals, r \in Repetitions : Schedule(t, e, r)
    \/ \E t \in Timer : ScheduleRefused(t) \/ DestroyEvent(t)
    \/ PushBegin \/ PushNext \/ PushEnd \/ Perform \/ Destroy
    \/ \E t \in Timer, stop \in BOOLEAN : Performed(t, stop)

(* The reactor calls fio_timer_push2queue and performs tasks on every      *)
(* cycle, and a timer function returns.                                    *)
Fairness ==
    /\ WF_vars(Tick)
    /\ WF_vars(PushBegin)
    /\ WF_vars(PushNext)
    /\ WF_vars(PushEnd)
    /\ WF_vars(Perform)
    /\ \A t \in Timer : WF_vars(\E stop \in BOOLEAN : Performed(t, stop))
    /\ \A t \in Timer : WF_vars(DestroyEvent(t))

Spec == Init /\ [][Next]_vars /\ Fairness

-----------------------------------------------------------------------------
TypeOK ==
    /\ now \in 0 .. MaxTime
    /\ list \in Seq(Timer)
    /\ pushing \in 0 .. MaxTime
    /\ tasks \in Seq(Timer)
    /\ place \in [Timer -> Places]
    /\ due \in [Timer -> Nat]
    /\ every \in [Timer -> Nat]
    /\ reps \in [Timer -> Int]
    /\ start \in [Timer -> Nat]
    /\ wanted \in [Timer -> Int]
    /\ runs \in [Timer -> Nat]
    /\ finished \in [Timer -> Nat]
    /\ ended \in [Timer -> {"no", "refused", "stopped", "done", "destroyed"}]
    /\ \A t \in Timer : place[t] \in {"list", "task", "running"} => reps[t] # 0

(* fio_timer_next_at answers with the first event and fio_timer_push2queue *)
(* stops at the first event that is not due: both rely on the order that   *)
(* fio___timer_insert keeps, through re-insertions from other threads.     *)
Sorted == \A i, j \in 1 .. Len(list) : i < j => due[list[i]] <= due[list[j]]

(* An event is in one place only: never linked twice, never in the list    *)
(* while a task that will use it is pending, never reachable once freed.   *)
OneOwner ==
    /\ \A i, j \in 1 .. Len(list) : list[i] = list[j] => i = j
    /\ \A i, j \in 1 .. Len(tasks) : tasks[i] = tasks[j] => i = j
    /\ \A t \in Timer :
        /\ place[t] = "list" <=> \E i \in 1 .. Len(list) : list[i] = t
        /\ place[t] = "task" <=> \E i \in 1 .. Len(tasks) : tasks[i] = t

(* on_finish is called once, when the event is freed, and not before.      *)
FinishOnce == \A t \in Timer : finished[t] = (IF place[t] = "freed" THEN 1 ELSE 0)

(* Whoever schedules, performs, re-inserts or destroys: the list stays in  *)
(* order, each event has one owner, and on_finish comes once and last.     *)
EventsOK == TypeOK /\ Sorted /\ OneOwner /\ FinishOnce

(* A timer that ends by itself has run as many times as it was asked to,   *)
(* zero meaning once; none runs more often than that.                      *)
RunsAsAsked ==
    \A t \in Timer :
        /\ wanted[t] >= 0 => runs[t] <= wanted[t] + (IF wanted[t] = 0 THEN 1 ELSE 0)
        /\ ended[t] = "done" =>
            runs[t] = (IF wanted[t] = 0 THEN 1 ELSE wanted[t])

(* The n-th run of a timer is never made before start_at + n * every, no   *)
(* matter how late the earlier runs were.                                  *)
NeverEarly ==
    \A t \in Timer : runs[t] > 0 => now >= start[t] + runs[t] * every[t]

(* A scheduled timer is eventually over, and its on_finish was called,     *)
(* unless it repeats for ever: whoever destroys or stops it.               *)
EventuallyFinished ==
    \A t \in Timer :
        (place[t] # "unused" /\ wanted[t] >= 0) ~> (finished[t] = 1)
=============================================================================
