------------------------ MODULE WorkerCluster_proofs ------------------------
(***************************************************************************)
(* The root keeps exactly one reactor task, and orders neither more nor    *)
(* fewer workers than it was asked for: for any number of workers,         *)
(* crashes, restarts and additions, and whatever the program and the       *)
(* other threads do between two steps.                                     *)
(***************************************************************************)
EXTENDS WorkerCluster, FiniteSetTheorems, SequenceTheorems, TLAPS

Item == {<<"work">>, <<"spawn">>, <<"task">>} \cup {<<"restart", n>> : n \in 0 .. N}

(* Whether the reactor's own task is in a queue, and at most once.         *)
HasWork(q) == \E i \in 1 .. Len(q) : q[i] = <<"work">>
WorkOnce(q) ==
    \A i, j \in 1 .. Len(q) : q[i] = <<"work">> /\ q[j] = <<"work">> => i = j

Preparing == at \in {"review", "fork", "count"}

(* The reactor's task exists only while the reactor cycles; it is gone     *)
(* once fio___io_spawn_workers_task has found the queue empty, and it is   *)
(* there between two tasks unless a stop has dropped it.                   *)
OneWork ==
    /\ queue \in Seq(Item)
    /\ WorkOnce(queue)
    /\ HasWork(queue) => pc = "loop" /\ ~Preparing
    /\ pc = "loop" /\ at = "out" /\ stop = {} => HasWork(queue)
    /\ at = "drain" => "fork" \in stop
    /\ Preparing => "fork" \notin stop
    /\ at # "out" => to_spawn > 0
    /\ pc \in {"start", "join", "exited"} => at = "out"

(* A sentinel is there for every process that was forked; it decides after *)
(* the process has ended, and only listed sentinels are retired.           *)
People ==
    /\ \A w \in Worker :
        /\ sentinel[w] = "none" <=> life[w] = "none"
        /\ w \in Alive => sentinel[w] \in {"created", "registered", "waiting"}
        /\ w \in retired => sentinel[w] # "none"
        /\ w \in lost => sentinel[w] = "ended"
        /\ pc = "start" => sentinel[w] = "none"
    /\ lost \subseteq Worker

(* The workers whose sentinel has not yet decided on a replacement.        *)
Undecided ==
    {w \in Worker : sentinel[w] \in {"created", "registered", "waiting", "reaped", "unlisted"}}

(* The fork is made before to_spawn is reduced.                            *)
Forked == IF at = "count" THEN 1 ELSE 0

(* What was ordered is undecided, retired or still to be spawned ...       *)
AtMost == Cardinality(Undecided \cup retired) + to_spawn <= ordered + Forked

(* ... and as long as nothing stops the root, so is every worker it was    *)
(* configured to have, but for the lost ones.                              *)
AtLeast ==
    "stop" \notin stop =>
        Cardinality(Undecided \ retired) + Cardinality(lost) + to_spawn >= workers + Forked

IInv ==
    /\ TypeOK /\ OneWork /\ People
    /\ ordered \in Nat /\ AtMost /\ AtLeast

-----------------------------------------------------------------------------
(* The queue.                                                              *)

LEMMA ItemHeads ==
    ASSUME NEW x \in Item
    PROVE  /\ x = <<"work">> <=> x[1] = "work"
           /\ x[1] = "restart" => x[2] \in 0 .. N
BY DEF Item

(* Two queues, one after the other.                                        *)
LEMMA ConcatWork ==
    ASSUME NEW s \in Seq(Item), NEW u \in Seq(Item)
    PROVE  /\ s \o u \in Seq(Item)
           /\ HasWork(s \o u) <=> HasWork(s) \/ HasWork(u)
           /\ /\ WorkOnce(s) /\ WorkOnce(u)
              /\ ~(HasWork(s) /\ HasWork(u))
              => WorkOnce(s \o u)
<1>1. /\ s \o u \in Seq(Item) /\ Len(s) \in Nat /\ Len(u) \in Nat
      /\ Len(s \o u) = Len(s) + Len(u)
      /\ \A i \in 1 .. Len(s \o u) :
            (s \o u)[i] = IF i <= Len(s) THEN s[i] ELSE u[i - Len(s)]
  BY ConcatProperties, LenProperties
<1>2. \A i \in 1 .. Len(s \o u) : i <= Len(s) => i \in 1 .. Len(s)
  BY <1>1
<1>3. \A i \in 1 .. Len(s \o u) : ~(i <= Len(s)) => i - Len(s) \in 1 .. Len(u)
  BY <1>1
<1>4. ASSUME HasWork(s \o u)
      PROVE  HasWork(s) \/ HasWork(u)
  BY <1>1, <1>2, <1>3, <1>4 DEF HasWork
<1>5. ASSUME HasWork(s)
      PROVE  HasWork(s \o u)
  <2>1. PICK i \in 1 .. Len(s) : s[i] = <<"work">>
    BY <1>5 DEF HasWork
  <2>2. i \in 1 .. Len(s \o u) /\ i <= Len(s)
    BY <1>1
  <2> QED
    BY <1>1, <2>1, <2>2 DEF HasWork
<1>6. ASSUME HasWork(u)
      PROVE  HasWork(s \o u)
  <2>1. PICK i \in 1 .. Len(u) : u[i] = <<"work">>
    BY <1>6 DEF HasWork
  <2>2. /\ i + Len(s) \in 1 .. Len(s \o u) /\ ~(i + Len(s) <= Len(s))
        /\ (i + Len(s)) - Len(s) = i
    BY <1>1
  <2> QED
    BY <1>1, <2>1, <2>2 DEF HasWork
<1>7. ASSUME WorkOnce(s), WorkOnce(u), ~(HasWork(s) /\ HasWork(u))
      PROVE  WorkOnce(s \o u)
  <2> SUFFICES ASSUME NEW i \in 1 .. Len(s \o u), NEW j \in 1 .. Len(s \o u),
                      (s \o u)[i] = <<"work">>, (s \o u)[j] = <<"work">>
               PROVE  i = j
    BY DEF WorkOnce
  <2>1. CASE HasWork(s)
    <3>1. i <= Len(s) /\ j <= Len(s)
      BY <1>1, <1>3, <1>7, <2>1 DEF HasWork
    <3> QED
      BY <1>1, <1>2, <1>7, <3>1 DEF WorkOnce
  <2>2. CASE ~HasWork(s)
    <3>1. ~(i <= Len(s)) /\ ~(j <= Len(s))
      BY <1>1, <1>2, <2>2 DEF HasWork
    <3>2. i - Len(s) = j - Len(s)
      BY <1>1, <1>3, <1>7, <3>1 DEF WorkOnce
    <3> QED
      BY <1>1, <3>2
  <2> QED
    BY <2>1, <2>2
<1> QED
  BY <1>1, <1>4, <1>5, <1>6, <1>7

LEMMA SingleWork ==
    /\ \A x \in Item :
        /\ <<x>> \in Seq(Item) /\ WorkOnce(<<x>>)
        /\ HasWork(<<x>>) <=> x = <<"work">>
    /\ <<>> \in Seq(Item) /\ WorkOnce(<<>>) /\ ~HasWork(<<>>)
BY DEF HasWork, WorkOnce

(* A task is put at either end of the queue.                               *)
LEMMA PushWork ==
    ASSUME NEW q \in Seq(Item), WorkOnce(q), NEW x \in Item,
           x = <<"work">> => ~HasWork(q)
    PROVE  /\ Append(q, x) \in Seq(Item) /\ WorkOnce(Append(q, x))
           /\ HasWork(Append(q, x)) <=> HasWork(q) \/ x = <<"work">>
           /\ <<x>> \o q \in Seq(Item) /\ WorkOnce(<<x>> \o q)
           /\ HasWork(<<x>> \o q) <=> HasWork(q) \/ x = <<"work">>
<1>1. <<x>> \in Seq(Item) /\ WorkOnce(<<x>>) /\ (HasWork(<<x>>) <=> x = <<"work">>)
  BY SingleWork
<1>2. Append(q, x) = q \o <<x>>
  BY AppendIsConcat
<1> QED
  BY <1>1, <1>2, ConcatWork

(* The first task is taken.                                                *)
LEMMA PopWork ==
    ASSUME NEW q \in Seq(Item), WorkOnce(q), q # <<>>
    PROVE  /\ Head(q) \in Item /\ Tail(q) \in Seq(Item) /\ WorkOnce(Tail(q))
           /\ HasWork(Tail(q)) <=> HasWork(q) /\ Head(q) # <<"work">>
           /\ Head(q) = <<"work">> => HasWork(q)
<1>1. /\ Len(q) \in Nat \ {0} /\ Head(q) = q[1] /\ Head(q) \in Item
      /\ Tail(q) \in Seq(Item) /\ Len(Tail(q)) = Len(q) - 1
      /\ \A i \in 1 .. Len(Tail(q)) : Tail(q)[i] = q[i + 1]
  BY HeadTailProperties, EmptySeq
<1>2. \A i \in 1 .. Len(Tail(q)) : i + 1 \in 1 .. Len(q) /\ i + 1 # 1
  BY <1>1
<1>3. WorkOnce(Tail(q))
  BY <1>1, <1>2 DEF WorkOnce
<1>4. HasWork(Tail(q)) => HasWork(q) /\ Head(q) # <<"work">>
  BY <1>1, <1>2 DEF HasWork, WorkOnce
<1>5. ASSUME HasWork(q), Head(q) # <<"work">>
      PROVE  HasWork(Tail(q))
  <2>1. PICK i \in 1 .. Len(q) : q[i] = <<"work">>
    BY <1>5 DEF HasWork
  <2>2. i - 1 \in 1 .. Len(Tail(q)) /\ (i - 1) + 1 = i
    BY <1>1, <1>5, <2>1
  <2>3. Tail(q)[i - 1] = <<"work">>
    BY <1>1, <2>1, <2>2
  <2> QED
    BY <2>2, <2>3 DEF HasWork
<1>6. Head(q) = <<"work">> => HasWork(q)
  BY <1>1 DEF HasWork
<1> QED
  BY <1>1, <1>3, <1>4, <1>5, <1>6

LEMMA CountWork ==
    ASSUME queue \in Seq(Item), WorkOnce(queue)
    PROVE  /\ Count(<<"work">>) <= 1
           /\ HasWork(queue) => Count(<<"work">>) = 1
<1>1. CASE HasWork(queue)
  <2>1. PICK i \in 1 .. Len(queue) : queue[i] = <<"work">>
    BY <1>1 DEF HasWork
  <2>2. {j \in 1 .. Len(queue) : queue[j] = <<"work">>} = {i}
    BY <2>1 DEF WorkOnce
  <2>3. Count(<<"work">>) = 1
    BY <2>2, FS_Singleton DEF Count
  <2> QED
    BY <2>3
<1>2. CASE ~HasWork(queue)
  <2>1. {j \in 1 .. Len(queue) : queue[j] = <<"work">>} = {}
    BY <1>2 DEF HasWork
  <2>2. Count(<<"work">>) = 0
    BY <2>1, FS_EmptySet DEF Count
  <2> QED
    BY <1>2, <2>2
<1> QED
  BY <1>1, <1>2

LEMMA QueueType ==
    ASSUME NEW q \in Seq(Item)
    PROVE  \A i \in 1 .. Len(q) :
             \/ q[i] \in {<<"work">>, <<"spawn">>, <<"task">>}
             \/ \E n \in 0 .. N : q[i] = <<"restart", n>>
BY ElementOfSeq DEF Item

-----------------------------------------------------------------------------
(* What a step leaves alone.                                               *)

LEMMA Sizes ==
    ASSUME IInv
    PROVE  /\ IsFiniteSet(Undecided) /\ IsFiniteSet(retired) /\ IsFiniteSet(lost)
           /\ Cardinality(Undecided \cup retired) \in Nat
           /\ Cardinality(Undecided \ retired) \in Nat
           /\ Cardinality(lost) \in Nat
           /\ IsFiniteSet(Undecided \cup retired) /\ IsFiniteSet(Undecided \ retired)
<1>1. /\ Undecided \subseteq Worker /\ retired \subseteq Worker /\ lost \subseteq Worker
      /\ Undecided \cup retired \subseteq Worker /\ Undecided \ retired \subseteq Worker
  BY DEF IInv, TypeOK, People, Undecided
<1> QED
  BY <1>1, ClusterAssumption, FS_Subset, FS_CardinalityType

LEMMA SameStaff ==
    ASSUME IInv, UNCHANGED <<life, sentinel, retired>>, lost' = lost,
           pc' = "start" => pc = "start"
    PROVE  /\ People' /\ Undecided' = Undecided /\ Alive' = Alive
           /\ Registered' = Registered /\ Listed' = Listed
BY DEF IInv, People, Undecided, Alive, Registered, Listed

LEMMA SameTally ==
    ASSUME IInv, Undecided' = Undecided, retired' = retired, lost' = lost,
           ordered' = ordered, to_spawn' = to_spawn, workers' \in {workers, 0},
           Forked' = Forked, "stop" \in stop => "stop" \in stop'
    PROVE  ordered' \in Nat /\ AtMost' /\ AtLeast'
<1>1. /\ ordered \in Nat /\ to_spawn \in Nat /\ workers \in Nat /\ Forked \in Nat
      /\ Cardinality(Undecided \ retired) \in Nat /\ Cardinality(lost) \in Nat
  BY Sizes, ClusterAssumption DEF IInv, TypeOK, Forked
<1>2. AtMost'
  BY DEF IInv, AtMost
<1>3. AtLeast'
  BY <1>1 DEF IInv, AtLeast
<1> QED
  BY <1>1, <1>2, <1>3

LEMMA SameLoop ==
    ASSUME IInv, queue' = queue, stop' = stop, at' = at, to_spawn' = to_spawn, pc' = pc
    PROVE  OneWork'
BY DEF IInv, OneWork, Preparing

(* The type of everything follows from what the step changes.              *)
LEMMA SameType ==
    ASSUME IInv, queue' \in Seq(Item), stop' \subseteq {"stop", "fork"},
           to_spawn' \in Nat, workers' \in 0 .. N,
           pushing' \subseteq Worker \cup {Other}, Cardinality(pushing') <= 1,
           pc' \in {"start", "boot", "loop", "shutdown", "kill", "join", "returning",
                    "exited"},
           at' \in {"out", "drain", "review", "fork", "count"},
           life' \in [Worker -> {"none", "forked", "stuck", "working", "ended"}],
           sentinel' \in [Worker -> {"none", "created", "registered", "waiting",
                                     "reaped", "unlisted", "ordering", "ended"}],
           joining' \subseteq Registered', told' \subseteq Worker,
           retired' \subseteq Worker
    PROVE  TypeOK'
<1>1. \A i \in 1 .. Len(queue') :
        \/ queue'[i] \in {<<"work">>, <<"spawn">>, <<"task">>}
        \/ \E n \in 0 .. N : queue'[i] = <<"restart", n>>
  BY QueueType
<1> QED
  BY <1>1 DEF TypeOK

-----------------------------------------------------------------------------
(* One step at a time.                                                     *)

LEMMA InitInv == Init => IInv
<1> SUFFICES ASSUME Init
             PROVE  IInv
  OBVIOUS
<1> USE DEF Init
<1>1. Undecided = {} /\ retired = {} /\ Registered = {} /\ Alive = {}
  BY DEF Undecided, Registered, Alive
<1>2. Cardinality({}) = 0
  BY FS_EmptySet
<1>3. TypeOK
  BY <1>1, <1>2, ClusterAssumption DEF TypeOK
<1>4. OneWork
  BY SingleWork DEF OneWork, Preparing
<1>5. People
  BY <1>1 DEF People
<1>6. Undecided \cup retired = {} /\ Undecided \ retired = {}
  BY <1>1
<1>7. Forked = 0 /\ Cardinality(Undecided \cup retired) = 0
      /\ Cardinality(Undecided \ retired) = 0 /\ Cardinality(lost) = 0
  BY <1>2, <1>6 DEF Forked
<1>8. AtMost /\ AtLeast
  BY <1>7 DEF AtMost, AtLeast
<1> QED
  BY <1>3, <1>4, <1>5, <1>8 DEF IInv

LEMMA StartInv == IInv /\ Start => IInv'
<1> SUFFICES ASSUME IInv, Start
             PROVE  IInv'
  OBVIOUS
<1>1. /\ pc = "start" /\ pc' = "boot" /\ workers' = N /\ to_spawn' = N /\ ordered' = N
      /\ stop' = {"fork"} /\ at' = "drain" /\ queue' = queue /\ pushing' = pushing
      /\ joining' = joining /\ UNCHANGED procs /\ lost' = lost
  BY DEF Start, aux
<1>2. N \in Nat \ {0}
  BY ClusterAssumption
<1>3. People' /\ Undecided' = Undecided /\ Registered' = Registered
  BY <1>1, SameStaff DEF procs
<1>4. TypeOK'
  BY <1>1, <1>2, <1>3, SameType DEF IInv, TypeOK, OneWork, procs
<1>5. OneWork'
  BY <1>1, <1>2 DEF IInv, OneWork, Preparing
<1>6. Undecided' = {} /\ retired' = {} /\ lost' = {}
  BY <1>1, <1>3 DEF IInv, People, Undecided, procs, TypeOK
<1>7. (Undecided \cup retired)' = {} /\ (Undecided \ retired)' = {}
  BY <1>6
<1>8. AtMost' /\ AtLeast'
  BY <1>1, <1>2, <1>6, <1>7, FS_EmptySet DEF AtMost, AtLeast, Forked
<1> QED
  BY <1>1, <1>2, <1>3, <1>4, <1>5, <1>8 DEF IInv

(* The steps that change only the queue and its lock, the flag, where the  *)
(* reactor is, and who was told to stop.                                   *)
LEMMA RootInv ==
    ASSUME IInv, OneWork', UNCHANGED <<to_spawn, workers, life, sentinel, retired,
                                       ordered, aux>>,
           pc' = "start" => pc = "start",
           pc' \in {"start", "boot", "loop", "shutdown", "kill", "join", "returning",
                    "exited"},
           at' \in {"out", "drain", "review", "fork", "count"},
           stop' \subseteq {"stop", "fork"},
           joining' \in {joining, Registered}, told' \subseteq Worker,
           pushing' \in {pushing, {}, {Other}} \cup {{w} : w \in Worker},
           "stop" \in stop => "stop" \in stop',
           Forked' = Forked
    PROVE  IInv'
<1>1. /\ People' /\ Undecided' = Undecided /\ Registered' = Registered /\ lost' = lost
      /\ retired' = retired
  BY SameStaff DEF aux
<1>2. pushing' \subseteq Worker \cup {Other} /\ Cardinality(pushing') <= 1
  <2>1. CASE pushing' = pushing
    BY <2>1 DEF IInv, TypeOK
  <2>2. CASE pushing' = {}
    BY <2>2, FS_EmptySet
  <2>3. ASSUME NEW t \in Worker \cup {Other}, pushing' = {t}
        PROVE  pushing' \subseteq Worker \cup {Other} /\ Cardinality(pushing') <= 1
    BY <2>3, FS_Singleton
  <2> QED
    BY <2>1, <2>2, <2>3
<1>3. TypeOK'
  BY <1>1, <1>2, SameType DEF IInv, TypeOK, OneWork
<1>4. ordered' \in Nat /\ AtMost' /\ AtLeast'
  BY <1>1, SameTally
<1> QED
  BY <1>1, <1>3, <1>4 DEF IInv

LEMMA DrainedInv == IInv /\ Drained => IInv'
<1> SUFFICES ASSUME IInv, Drained
             PROVE  IInv'
  OBVIOUS
<1>1. ~HasWork(<<>>)
  BY SingleWork
<1>2. OneWork'
  BY <1>1 DEF IInv, OneWork, Preparing, Drained
<1> QED
  BY <1>2, RootInv DEF IInv, TypeOK, Drained, Forked, procs, aux

(* A worker is forked unless the root stops.                               *)
LEMMA ReviewInv == IInv /\ Review => IInv'
<1> SUFFICES ASSUME IInv, Review
             PROVE  IInv'
  OBVIOUS
<1>1. <<"restart", workers>> \in Item /\ <<"restart", workers>> # <<"work">>
  BY DEF IInv, TypeOK, Item
<1>2. /\ queue' \in Seq(Item) /\ WorkOnce(queue') /\ (HasWork(queue') <=> HasWork(queue))
  BY <1>1, PushWork DEF IInv, OneWork, Review
<1>3. OneWork'
  BY <1>2 DEF IInv, OneWork, Preparing, Review
<1>4. CASE stop = {}
  BY <1>3, <1>4, RootInv DEF IInv, TypeOK, Review, Forked, procs, aux
<1>5. CASE stop # {}
  <2>1. "stop" \in stop'
    BY <1>5 DEF IInv, TypeOK, OneWork, Preparing, Review
  <2>2. /\ People' /\ Undecided' = Undecided /\ Registered' = Registered
        /\ retired' = retired /\ to_spawn' = to_spawn /\ ordered' = ordered
    BY SameStaff DEF Review, procs, aux
  <2>3. TypeOK'
    BY <1>2, <1>5, <2>2, SameType DEF IInv, TypeOK, Review, procs
  <2>4. AtLeast'
    BY <2>1 DEF AtLeast
  <2>5. Forked = 0 /\ Forked' = 1
    BY <1>5 DEF Review, Forked
  <2>6. AtMost'
    BY <2>2, <2>5, Sizes DEF IInv, TypeOK, AtMost
  <2> QED
    BY <1>3, <2>2, <2>3, <2>4, <2>6 DEF IInv
<1> QED
  BY <1>4, <1>5

(* The forked worker is one more that is undecided.                        *)
LEMMA ForkInv == IInv /\ Fork => IInv'
<1> SUFFICES ASSUME IInv, Fork
             PROVE  IInv'
  OBVIOUS
<1>1. PICK w \in Worker : /\ life[w] = "none"
                          /\ w = CHOOSE v \in Worker : life[v] = "none"
  BY DEF Fork
<1>2. /\ life' = [life EXCEPT ![w] = IF Free THEN "forked" ELSE "stuck"]
      /\ sentinel' = [sentinel EXCEPT ![w] = "created"]
      /\ told' \in {told, told \cup {w}} /\ retired' = retired /\ lost' = lost
      /\ queue' = queue /\ stop' = stop /\ to_spawn' = to_spawn /\ workers' = workers
      /\ pushing' = pushing /\ pc' = pc /\ at = "fork" /\ at' = "count"
      /\ joining' = joining /\ ordered' = ordered
  BY <1>1 DEF Fork, bounds
<1>3. /\ life' \in [Worker -> {"none", "forked", "stuck", "working", "ended"}]
      /\ sentinel' \in [Worker -> {"none", "created", "registered", "waiting",
                                   "reaped", "unlisted", "ordering", "ended"}]
      /\ life'[w] \in {"forked", "stuck"} /\ sentinel'[w] = "created"
      /\ \A v \in Worker : v # w => life'[v] = life[v] /\ sentinel'[v] = sentinel[v]
  BY <1>2 DEF IInv, TypeOK
<1>4. sentinel[w] = "none" /\ pc # "start"
  BY <1>1, <1>2 DEF IInv, People, OneWork
<1>5. Registered' = Registered /\ Undecided' = Undecided \cup {w}
  BY <1>3, <1>4 DEF Registered, Undecided
<1>6. w \notin Undecided /\ w \notin retired /\ w \notin lost
  BY <1>4 DEF IInv, People, Undecided
<1>7. TypeOK'
  BY <1>2, <1>3, <1>5, SameType DEF IInv, TypeOK, OneWork
<1>8. OneWork'
  BY <1>2 DEF IInv, OneWork, Preparing
<1>9. People'
  BY <1>2, <1>3, <1>4, <1>6 DEF IInv, People, Alive
<1>10. /\ (Undecided \cup retired)' = (Undecided \cup retired) \cup {w}
       /\ (Undecided \ retired)' = (Undecided \ retired) \cup {w}
       /\ w \notin Undecided \cup retired /\ w \notin Undecided \ retired
  BY <1>2, <1>5, <1>6
<1>11. /\ Cardinality((Undecided \cup retired)') = Cardinality(Undecided \cup retired) + 1
       /\ Cardinality((Undecided \ retired)') = Cardinality(Undecided \ retired) + 1
  BY <1>10, Sizes, FS_AddElement
<1>12. Forked = 0 /\ Forked' = 1
  BY <1>2 DEF Forked
<1>13. AtMost'
  BY <1>2, <1>11, <1>12, Sizes DEF IInv, TypeOK, AtMost
<1>14. AtLeast'
  BY <1>2, <1>11, <1>12, Sizes, ClusterAssumption DEF IInv, TypeOK, AtLeast
<1> QED
  BY <1>2, <1>7, <1>8, <1>9, <1>13, <1>14 DEF IInv

(* It is no longer to be spawned.  The reactor's task is pushed again when *)
(* none is left to be spawned.                                             *)
LEMMA CountedInv == IInv /\ Counted => IInv'
<1> SUFFICES ASSUME IInv, Counted
             PROVE  IInv'
  OBVIOUS
<1>1. /\ at = "count" /\ at' = (IF to_spawn = 1 THEN "out" ELSE "review")
      /\ to_spawn' = to_spawn - 1 /\ to_spawn \in Nat \ {0}
      /\ queue' = (IF to_spawn = 1 /\ pc = "loop" THEN Append(queue, <<"work">>) ELSE queue)
      /\ stop' = stop /\ workers' = workers /\ pushing' = pushing /\ pc' = pc
      /\ joining' = joining /\ ordered' = ordered /\ UNCHANGED procs /\ lost' = lost
      /\ retired' = retired /\ told' = told
  BY DEF Counted, IInv, TypeOK, OneWork, procs, aux
<1>2. ~HasWork(queue)
  BY <1>1 DEF IInv, OneWork, Preparing
<1>3. /\ queue' \in Seq(Item) /\ WorkOnce(queue')
      /\ HasWork(queue') <=> to_spawn = 1 /\ pc = "loop"
  <2>1. <<"work">> \in Item
    BY DEF Item
  <2> QED
    BY <1>1, <1>2, <2>1, PushWork DEF IInv, OneWork
<1>4. People' /\ Undecided' = Undecided /\ Registered' = Registered
  BY <1>1, SameStaff DEF procs
<1>5. TypeOK'
  BY <1>1, <1>3, <1>4, SameType DEF IInv, TypeOK, procs
<1>6. OneWork'
  BY <1>1, <1>3 DEF IInv, OneWork, Preparing
<1>7. Forked = 1 /\ Forked' = 0
  BY <1>1 DEF Forked
<1>8. AtMost'
  BY <1>1, <1>4, <1>7, Sizes DEF IInv, AtMost
<1>9. AtLeast'
  BY <1>1, <1>4, <1>7, Sizes, ClusterAssumption DEF IInv, TypeOK, AtLeast
<1> QED
  BY <1>1, <1>4, <1>5, <1>6, <1>8, <1>9 DEF IInv

(* A task is performed.                                                    *)
LEMMA NextItem ==
    ASSUME IInv, NEW t, Next1(t)
    PROVE  /\ queue # <<>> /\ Head(queue) \in Item /\ Head(queue)[1] = t
           /\ Head(queue) = <<"work">> <=> t = "work"
           /\ Tail(queue) \in Seq(Item) /\ WorkOnce(Tail(queue))
           /\ HasWork(Tail(queue)) <=> HasWork(queue) /\ t # "work"
           /\ t = "work" => HasWork(queue) /\ pc = "loop"
           /\ Running /\ at \in {"out", "drain"}
           /\ pc \in {"boot", "loop", "shutdown", "kill", "returning"}
<1>1. queue \in Seq(Item) /\ WorkOnce(queue) /\ queue # <<>>
  BY DEF Next1, IInv, OneWork
<1>2. /\ Head(queue) \in Item /\ Tail(queue) \in Seq(Item) /\ WorkOnce(Tail(queue))
      /\ HasWork(Tail(queue)) <=> HasWork(queue) /\ Head(queue) # <<"work">>
      /\ Head(queue) = <<"work">> => HasWork(queue)
  BY <1>1, PopWork
<1>3. Head(queue)[1] = t /\ Running /\ at \in {"out", "drain"}
  BY DEF Next1
<1>4. Head(queue) = <<"work">> <=> t = "work"
  BY <1>2, <1>3, ItemHeads
<1> QED
  BY <1>1, <1>2, <1>3, <1>4 DEF IInv, OneWork, Running

LEMMA RunWorkInv == IInv /\ RunWork => IInv'
<1> SUFFICES ASSUME IInv, RunWork
             PROVE  IInv'
  OBVIOUS
<1>1. /\ Tail(queue) \in Seq(Item) /\ WorkOnce(Tail(queue)) /\ ~HasWork(Tail(queue))
      /\ pc = "loop" /\ at \in {"out", "drain"}
  BY NextItem DEF RunWork
<1>2. OneWork'
  <2>1. CASE stop # {}
    BY <1>1, <2>1 DEF IInv, OneWork, Preparing, RunWork
  <2>2. CASE stop = {}
    <3>1. at = "out"
      BY <1>1, <2>2 DEF IInv, OneWork
    <3>2. <<"work">> \in Item /\ <<"restart", workers>> \in Item
          /\ <<"restart", workers>> # <<"work">>
      BY DEF IInv, TypeOK, Item
    <3>3. PICK q : q = Tail(queue)
                         \o (IF signalled THEN << <<"restart", workers>> >> ELSE <<>>)
      OBVIOUS
    <3>4. q \in Seq(Item) /\ WorkOnce(q) /\ ~HasWork(q)
      BY <1>1, <3>2, <3>3, SingleWork, ConcatWork
    <3>5. queue' = q \o << <<"work">> >>
      BY <2>2, <3>3 DEF RunWork
    <3>6. queue' \in Seq(Item) /\ WorkOnce(queue') /\ HasWork(queue')
      BY <3>2, <3>4, <3>5, SingleWork, ConcatWork
    <3> QED
      BY <1>1, <3>1, <3>6 DEF IInv, OneWork, Preparing, RunWork
  <2> QED
    BY <2>1, <2>2
<1> QED
  BY <1>2, RootInv DEF IInv, TypeOK, RunWork, Forked, procs, aux

LEMMA RunSpawnInv == IInv /\ RunSpawn => IInv'
<1> SUFFICES ASSUME IInv, RunSpawn
             PROVE  IInv'
  OBVIOUS
<1>1. /\ Tail(queue) \in Seq(Item) /\ WorkOnce(Tail(queue))
      /\ HasWork(Tail(queue)) <=> HasWork(queue)
      /\ at \in {"out", "drain"} /\ queue' = Tail(queue)
      /\ pc \in {"boot", "loop", "shutdown", "kill", "returning"}
  BY NextItem DEF RunSpawn
<1>2. stop \subseteq {"stop", "fork"} /\ to_spawn \in Nat
  BY DEF IInv, TypeOK
<1>3. \/ stop' = stop /\ at' = at
      \/ /\ to_spawn > 0 /\ at = "out" /\ stop' = stop \cup {"fork"}
         /\ at' \in {"drain", "out"}
  BY <1>2 DEF RunSpawn, EnterSpawn
<1>4. pc' = pc /\ to_spawn' = to_spawn
  BY DEF RunSpawn
<1>5. OneWork'
  BY <1>1, <1>3, <1>4 DEF IInv, OneWork, Preparing
<1>6. Forked' = Forked
  BY <1>1, <1>3 DEF Forked
<1> QED
  BY <1>1, <1>2, <1>3, <1>5, <1>6, RootInv DEF IInv, TypeOK, RunSpawn, procs, aux

(* The listed workers are retired, as many as the task says are ordered.   *)
LEMMA RunRestartInv == IInv /\ RunRestart => IInv'
<1> SUFFICES ASSUME IInv, RunRestart
             PROVE  IInv'
  OBVIOUS
<1>1. /\ Tail(queue) \in Seq(Item) /\ WorkOnce(Tail(queue))
      /\ HasWork(Tail(queue)) <=> HasWork(queue)
      /\ at \in {"out", "drain"} /\ Head(queue)[2] \in 0 .. N
      /\ pc \in {"boot", "loop", "shutdown", "kill", "returning"}
  BY NextItem, ItemHeads DEF RunRestart
<1>2. CASE workers = 0
  <2>1. OneWork'
    BY <1>1, <1>2 DEF IInv, OneWork, Preparing, RunRestart
  <2> QED
    BY <1>2, <2>1, RootInv DEF IInv, TypeOK, RunRestart, Forked, aux
<1>3. CASE workers # 0
  <2>1. PICK n \in 0 .. N : n = Head(queue)[2]
    BY <1>1
  <2>2. /\ workers' = n /\ to_spawn' = to_spawn + n /\ ordered' = ordered + n
        /\ queue' = (IF n = 0 THEN Tail(queue) ELSE << <<"spawn">> >> \o Tail(queue))
        /\ retired' = retired \cup Listed /\ told' = told \cup (Listed \cap Alive)
        /\ stop' = stop /\ pushing' = pushing /\ pc' = pc /\ at' = at
        /\ joining' = joining /\ life' = life /\ sentinel' = sentinel /\ lost' = lost
    BY <1>3, <2>1 DEF RunRestart, aux
  <2>3. /\ ordered \in Nat /\ to_spawn \in Nat /\ n \in Nat /\ N \in Nat
    BY ClusterAssumption DEF IInv, TypeOK
  <2>4. /\ queue' \in Seq(Item) /\ WorkOnce(queue') /\ (HasWork(queue') <=> HasWork(queue))
    <3>1. <<"spawn">> \in Item /\ <<"spawn">> # <<"work">>
      BY DEF Item
    <3> QED
      BY <1>1, <2>2, <3>1, PushWork
  <2>5. /\ Undecided' = Undecided /\ Registered' = Registered /\ Alive' = Alive
        /\ Listed \subseteq Undecided /\ Listed \subseteq Worker
    BY <2>2 DEF Undecided, Registered, Alive, Listed
  <2>6. TypeOK'
    <3>1. /\ stop \subseteq {"stop", "fork"} /\ told \subseteq Worker
          /\ pushing \subseteq Worker \cup {Other} /\ Cardinality(pushing) <= 1
          /\ pc \in {"start", "boot", "loop", "shutdown", "kill", "join", "returning",
                     "exited"}
          /\ at \in {"out", "drain", "review", "fork", "count"}
          /\ life \in [Worker -> {"none", "forked", "stuck", "working", "ended"}]
          /\ sentinel \in [Worker -> {"none", "created", "registered", "waiting",
                                       "reaped", "unlisted", "ordering", "ended"}]
          /\ joining \subseteq Registered /\ retired \subseteq Worker
      BY DEF IInv, TypeOK
    <3>2. workers' \in 0 .. N /\ to_spawn' \in Nat /\ told' \subseteq Worker
          /\ retired' \subseteq Worker
      BY <2>2, <2>3, <2>5, <3>1
    <3> QED
      BY <2>2, <2>4, <2>5, <3>1, <3>2, SameType
  <2>7. OneWork'
    BY <1>1, <2>2, <2>3, <2>4 DEF IInv, OneWork, Preparing
  <2>8. People'
    BY <2>2, <2>5 DEF IInv, People, Listed
  <2>9. Forked = 0 /\ Forked' = 0
    BY <1>1, <2>2 DEF Forked
  <2>10. Cardinality((Undecided \cup retired)') = Cardinality(Undecided \cup retired)
    <3>1. (Undecided \cup retired)' = Undecided \cup retired
      BY <2>2, <2>5
    <3> QED
      BY <3>1
  <2>11. AtMost'
    BY <2>2, <2>3, <2>9, <2>10, Sizes DEF IInv, AtMost
  <2>12. Cardinality((Undecided \ retired)') \in Nat /\ Cardinality(lost) \in Nat
    <3>1. (Undecided \ retired)' \subseteq Undecided
      BY <2>5
    <3> QED
      BY <3>1, Sizes, FS_Subset, FS_CardinalityType
  <2>13. AtLeast'
    BY <2>2, <2>3, <2>9, <2>12 DEF AtLeast
  <2> QED
    BY <2>2, <2>3, <2>6, <2>7, <2>8, <2>11, <2>13 DEF IInv
<1> QED
  BY <1>2, <1>3

LEMMA RunTaskInv == IInv /\ RunTask => IInv'
<1> SUFFICES ASSUME IInv, RunTask
             PROVE  IInv'
  OBVIOUS
<1>1. /\ Tail(queue) \in Seq(Item) /\ WorkOnce(Tail(queue))
      /\ HasWork(Tail(queue)) <=> HasWork(queue)
  BY NextItem DEF RunTask
<1>2. OneWork'
  BY <1>1 DEF IInv, OneWork, Preparing, RunTask
<1> QED
  BY <1>2, RootInv DEF IInv, TypeOK, RunTask, Forked, procs, aux

(* The reactor's way from its first task to its last.                      *)
LEMMA PhaseInv ==
    ASSUME IInv, Boot \/ EndLoop \/ Kill \/ OnStop \/ Joined
    PROVE  IInv'
<1>1. CASE Boot
  <2>1. << <<"work">> >> \in Seq(Item) /\ WorkOnce(<< <<"work">> >>)
        /\ HasWork(<< <<"work">> >>)
    BY SingleWork DEF Item
  <2>2. OneWork'
    BY <1>1, <2>1 DEF IInv, OneWork, Preparing, Boot, Empty
  <2> QED
    BY <1>1, <2>2, RootInv DEF IInv, TypeOK, Boot, Forked, procs, aux
<1>2. ~HasWork(<<>>)
  BY SingleWork
<1>3. CASE EndLoop
  <2>1. OneWork'
    BY <1>2, <1>3 DEF IInv, OneWork, Preparing, EndLoop, Empty
  <2> QED
    BY <1>3, <2>1, RootInv DEF IInv, TypeOK, EndLoop, Forked, procs, aux
<1>4. CASE Kill
  <2>1. OneWork'
    BY <1>4 DEF IInv, OneWork, Preparing, Kill, Empty
  <2> QED
    BY <1>4, <2>1, RootInv DEF IInv, TypeOK, Kill, Forked, Alive, aux
<1>5. CASE OnStop
  <2>1. OneWork'
    BY <1>5 DEF IInv, OneWork, Preparing, OnStop, Empty
  <2> QED
    BY <1>5, <2>1, RootInv DEF IInv, TypeOK, OnStop, Forked, procs, aux
<1>6. CASE Joined
  <2>1. OneWork'
    BY <1>6 DEF IInv, OneWork, Preparing, Joined
  <2> QED
    BY <1>6, <2>1, RootInv DEF IInv, TypeOK, Joined, Forked, procs, aux
<1> QED
  BY <1>1, <1>3, <1>4, <1>5, <1>6

LEMMA ExitInv == IInv /\ Exit => IInv'
<1> SUFFICES ASSUME IInv, Exit
             PROVE  IInv'
  OBVIOUS
<1>1. /\ pc' = "exited" /\ at' = at /\ at = "out" /\ workers' = 0
      /\ life' = [w \in Worker |->
                    IF w \in Listed /\ life[w] # "none" THEN "ended" ELSE life[w]]
      /\ stop' = stop /\ to_spawn' = to_spawn /\ queue' = queue /\ pushing' = pushing
      /\ joining' = joining /\ told' = told /\ sentinel' = sentinel /\ queue = <<>>
      /\ retired' = retired /\ ordered' = ordered /\ lost' = lost
  BY DEF Exit, Empty, aux
<1>2. /\ life' \in [Worker -> {"none", "forked", "stuck", "working", "ended"}]
      /\ \A w \in Worker : life'[w] \in {life[w], "ended"}
                           /\ (life'[w] = "none" <=> life[w] = "none")
  BY <1>1 DEF IInv, TypeOK
<1>3. Undecided' = Undecided /\ Registered' = Registered /\ Alive' \subseteq Alive
  BY <1>1, <1>2 DEF Undecided, Registered, Alive
<1>4. TypeOK'
  BY <1>1, <1>2, <1>3, ClusterAssumption, SameType DEF IInv, TypeOK, OneWork
<1>5. OneWork'
  BY <1>1, SingleWork DEF IInv, OneWork, Preparing
<1>6. People'
  BY <1>1, <1>2, <1>3 DEF IInv, People
<1>7. ordered' \in Nat /\ AtMost' /\ AtLeast'
  BY <1>1, <1>3, SameTally DEF Forked
<1> QED
  BY <1>4, <1>5, <1>6, <1>7 DEF IInv

(* The sentinels.                                                          *)
SentinelPlaces == {"none", "created", "registered", "waiting", "reaped", "unlisted",
                   "ordering", "ended"}

LEMMA Moved ==
    ASSUME IInv, NEW w \in Worker, NEW from \in SentinelPlaces,
           NEW to \in SentinelPlaces, Step(w, from, to)
    PROVE  /\ sentinel[w] = from /\ sentinel' \in [Worker -> SentinelPlaces]
           /\ sentinel'[w] = to /\ pc # "exited"
           /\ \A v \in Worker : v # w => sentinel'[v] = sentinel[v]
BY DEF IInv, TypeOK, Step, SentinelPlaces

(* A sentinel that goes on changes the tally only when it decides.         *)
LEMMA SentinelMoves ==
    ASSUME IInv, NEW w \in Worker, NEW from \in SentinelPlaces \ {"none"},
           NEW to \in SentinelPlaces \ {"none", "created"}, Step(w, from, to),
           life' = life, w \in Alive => to \in {"registered", "waiting"},
           w \in lost => to = "ended", told' = told, retired' = retired, pc' = pc
    PROVE  /\ \A v \in Worker :
               /\ sentinel'[v] = "none" <=> life'[v] = "none"
               /\ v \in Alive' => sentinel'[v] \in {"created", "registered", "waiting"}
               /\ v \in retired' => sentinel'[v] # "none"
               /\ v \in lost => sentinel'[v] = "ended"
               /\ pc' = "start" => sentinel'[v] = "none"
           /\ Registered \subseteq Registered' /\ Alive' = Alive
           /\ Undecided' = IF to \in {"ordering", "ended"} THEN Undecided \ {w}
                           ELSE IF from \in {"ordering", "ended"} THEN Undecided \cup {w}
                           ELSE Undecided
<1>1. /\ sentinel[w] = from /\ sentinel' \in [Worker -> SentinelPlaces]
      /\ sentinel'[w] = to
      /\ \A v \in Worker : v # w => sentinel'[v] = sentinel[v]
  BY Moved
<1>2. Alive' = Alive
  BY DEF Alive
<1>3. Registered \subseteq Registered'
  BY <1>1 DEF Registered
<1>4. Undecided' = IF to \in {"ordering", "ended"} THEN Undecided \ {w}
                   ELSE IF from \in {"ordering", "ended"} THEN Undecided \cup {w}
                   ELSE Undecided
  BY <1>1 DEF Undecided, SentinelPlaces
<1> QED
  BY <1>1, <1>2, <1>3, <1>4 DEF IInv, People

LEMMA SentinelInv ==
    ASSUME IInv, NEW w \in Worker, RegisterAndList(w) \/ Reap(w)
    PROVE  IInv'
<1>1. PICK from \in SentinelPlaces \ {"none"}, to \in SentinelPlaces \ {"none", "created"} :
        /\ Step(w, from, to) /\ from \notin {"ordering", "ended"}
        /\ to \notin {"ordering", "ended"}
        /\ \/ to \in {"registered", "waiting"}
           \/ from = "reaped"
           \/ life[w] = "ended"
  BY DEF RegisterAndList, Reap, SentinelPlaces
<1>2. UNCHANGED <<root, life, told, retired, ordered, aux>>
  BY DEF RegisterAndList, Reap
<1>3. w \in Alive => to \in {"registered", "waiting"}
  BY <1>1 DEF Alive, IInv, People, Step
<1>4. w \notin lost
  BY <1>1 DEF IInv, People, Step
<1>5. /\ People' /\ Undecided' = Undecided /\ Registered \subseteq Registered'
      /\ sentinel' \in [Worker -> SentinelPlaces]
  BY <1>1, <1>2, <1>3, <1>4, SentinelMoves, Moved DEF root, aux, IInv, People
<1>6. OneWork'
  BY <1>2, SameLoop DEF root
<1>7. TypeOK'
  BY <1>2, <1>5, SameType DEF IInv, TypeOK, OneWork, root, SentinelPlaces
<1>8. ordered' \in Nat /\ AtMost' /\ AtLeast'
  BY <1>2, <1>5, SameTally DEF root, aux, Forked
<1> QED
  BY <1>5, <1>6, <1>7, <1>8 DEF IInv

(* A worker is no longer undecided: its replacement is ordered, it was     *)
(* retired, or it is lost.                                                 *)
LEMMA DecideInv ==
    ASSUME IInv, NEW w \in Worker, Decide(w)
    PROVE  IInv'
<1>1. PICK to \in {"ordering", "ended"} : Step(w, "unlisted", to)
  BY DEF Decide
<1>2. /\ UNCHANGED <<stop, workers, queue, pushing, pc, at, joining, life, told,
                     retired, ordered>>
      /\ lost' = IF stop = {"fork"} /\ w \notin retired THEN lost \cup {w} ELSE lost
      /\ \/ /\ stop = {} /\ w \notin retired /\ to_spawn' = to_spawn + 1
         \/ /\ ~(stop = {} /\ w \notin retired) /\ to_spawn' = to_spawn /\ to = "ended"
  BY <1>1 DEF Decide, Step, IInv, TypeOK
<1>3. /\ sentinel[w] = "unlisted" /\ sentinel' \in [Worker -> SentinelPlaces]
      /\ sentinel'[w] = to /\ pc # "exited"
  BY <1>1, Moved DEF SentinelPlaces
<1>4. w \notin Alive /\ w \notin lost /\ w \in Undecided
  BY <1>3 DEF IInv, People, Undecided
<1>5. /\ \A v \in Worker :
           /\ sentinel'[v] = "none" <=> life'[v] = "none"
           /\ v \in Alive' => sentinel'[v] \in {"created", "registered", "waiting"}
           /\ v \in retired' => sentinel'[v] # "none"
           /\ v \in lost => sentinel'[v] = "ended"
           /\ pc' = "start" => sentinel'[v] = "none"
      /\ Registered \subseteq Registered' /\ Undecided' = Undecided \ {w}
  <2>1. "unlisted" \in SentinelPlaces \ {"none"} /\ to \in SentinelPlaces \ {"none", "created"}
    BY DEF SentinelPlaces
  <2> QED
    BY <1>1, <1>2, <1>4, <2>1, SentinelMoves
<1>6. People'
  <2>1. lost' \subseteq lost \cup {w} /\ (w \in lost' => to = "ended")
    BY <1>2, <1>4
  <2> QED
    BY <1>3, <1>5, <2>1 DEF IInv, People
<1>7. to_spawn \in Nat /\ to_spawn' \in Nat /\ to_spawn' >= to_spawn
      /\ workers \in Nat /\ ordered \in Nat
  BY <1>2, ClusterAssumption DEF IInv, TypeOK
<1>8. OneWork'
  BY <1>2, <1>7 DEF IInv, OneWork, Preparing
<1>9. TypeOK'
  BY <1>2, <1>3, <1>5, <1>7, SameType DEF IInv, TypeOK, OneWork, SentinelPlaces
<1>10. Forked' = Forked /\ Forked \in Nat
  BY <1>2 DEF Forked
<1>11. AtMost'
  <2>1. CASE w \notin retired
    <3>1. (Undecided \cup retired)' = (Undecided \cup retired) \ {w}
      BY <1>2, <1>5, <2>1
    <3>2. Cardinality((Undecided \cup retired)') = Cardinality(Undecided \cup retired) - 1
      BY <1>4, <3>1, Sizes, FS_RemoveElement
    <3> QED
      BY <1>2, <1>7, <1>10, <3>2, Sizes DEF IInv, AtMost
  <2>2. CASE w \in retired
    <3>1. (Undecided \cup retired)' = Undecided \cup retired
      BY <1>2, <1>5, <2>2
    <3>2. Cardinality((Undecided \cup retired)') = Cardinality(Undecided \cup retired)
      BY <3>1
    <3>3. to_spawn' = to_spawn
      BY <1>2, <2>2
    <3> QED
      BY <1>2, <1>7, <1>10, <3>2, <3>3, Sizes DEF IInv, AtMost
  <2> QED
    BY <2>1, <2>2
<1>12. AtLeast'
  <2> SUFFICES ASSUME "stop" \notin stop
               PROVE  AtLeast'
    BY <1>2 DEF AtLeast
  <2>1. stop = {} \/ stop = {"fork"}
    BY DEF IInv, TypeOK
  <2>2. CASE w \in retired
    <3>1. (Undecided \ retired)' = Undecided \ retired
      BY <1>2, <1>5, <2>2
    <3>2. /\ Cardinality((Undecided \ retired)') = Cardinality(Undecided \ retired)
          /\ lost' = lost /\ to_spawn' = to_spawn
      BY <1>2, <2>2, <3>1
    <3> QED
      BY <1>2, <1>10, <3>2 DEF IInv, AtLeast
  <2>3. CASE w \notin retired
    <3>1. (Undecided \ retired)' = (Undecided \ retired) \ {w} /\ w \in Undecided \ retired
      BY <1>2, <1>4, <1>5, <2>3
    <3>2. Cardinality((Undecided \ retired)') = Cardinality(Undecided \ retired) - 1
      BY <3>1, Sizes, FS_RemoveElement
    <3>3. \/ lost' = lost /\ to_spawn' = to_spawn + 1
          \/ lost' = lost \cup {w} /\ to_spawn' = to_spawn
      BY <1>2, <2>1, <2>3
    <3>4. \/ Cardinality(lost') = Cardinality(lost) /\ to_spawn' = to_spawn + 1
          \/ Cardinality(lost') = Cardinality(lost) + 1 /\ to_spawn' = to_spawn
      BY <1>4, <3>3, Sizes, FS_AddElement
    <3> QED
      BY <1>2, <1>7, <1>10, <3>2, <3>4, Sizes DEF IInv, AtLeast
  <2> QED
    BY <2>2, <2>3
<1> QED
  BY <1>2, <1>6, <1>7, <1>8, <1>9, <1>11, <1>12 DEF IInv

(* A push that leaves the reactor's own task alone.                        *)
LEMMA PushedWork ==
    ASSUME IInv, NEW x \in Item \ {<<"work">>},
           queue' = Append(queue, x) \/ queue' = <<x>> \o queue,
           stop' = stop, at' = at, pc' = pc, to_spawn' \in Nat, to_spawn' >= to_spawn
    PROVE  OneWork'
<1>1. /\ queue' \in Seq(Item) /\ WorkOnce(queue')
      /\ HasWork(queue') <=> HasWork(queue)
  BY PushWork DEF IInv, OneWork
<1>2. to_spawn \in Nat
  BY DEF IInv, TypeOK
<1> QED
  BY <1>1, <1>2 DEF IInv, OneWork, Preparing

LEMMA OtherItems ==
    /\ <<"spawn">> \in Item \ {<<"work">>} /\ <<"task">> \in Item \ {<<"work">>}
    /\ \A n \in 0 .. N : <<"restart", n>> \in Item \ {<<"work">>}
BY DEF Item

LEMMA OrderSpawnInv ==
    ASSUME IInv, NEW w \in Worker, OrderSpawn(w)
    PROVE  IInv'
<1>1. CASE UNCHANGED <<stop, to_spawn, workers, queue, pc, at, signalled, joining, procs,
                       bounds, ordered, aux>> /\ pushing' = {w}
  <2>1. OneWork'
    BY <1>1, SameLoop
  <2> QED
    BY <1>1, <2>1, RootInv DEF IInv, TypeOK, Forked, procs
<1>2. CASE /\ w \in pushing /\ Step(w, "ordering", "ended")
           /\ pushing' = {} /\ queue' = << <<"spawn">> >> \o queue
           /\ UNCHANGED <<stop, to_spawn, workers, pc, at, signalled, joining, life, told,
                          retired, bounds, ordered, aux>>
  <2>1. /\ sentinel[w] = "ordering" /\ sentinel' \in [Worker -> SentinelPlaces]
        /\ sentinel'[w] = "ended"
        /\ \A v \in Worker : v # w => sentinel'[v] = sentinel[v]
    BY <1>2, Moved DEF SentinelPlaces
  <2>2. Undecided' = Undecided /\ Alive' = Alive /\ Registered' = Registered
    BY <1>2, <2>1 DEF Undecided, Alive, Registered
  <2>3. People'
    BY <1>2, <2>1, <2>2 DEF IInv, People, aux
  <2>4. OneWork'
    <3>1. UNCHANGED <<stop, at, pc, to_spawn>> /\ to_spawn \in Nat
      BY <1>2 DEF IInv, TypeOK
    <3> QED
      BY <1>2, <3>1, PushedWork, OtherItems
  <2>5. Cardinality(pushing') <= 1 /\ pushing' \subseteq Worker \cup {Other}
    BY <1>2, FS_EmptySet
  <2>6. TypeOK'
    BY <1>2, <2>1, <2>2, <2>4, <2>5, SameType DEF IInv, TypeOK, OneWork, SentinelPlaces
  <2>7. ordered' \in Nat /\ AtMost' /\ AtLeast'
    BY <1>2, <2>2, SameTally DEF aux, Forked
  <2> QED
    BY <2>3, <2>4, <2>6, <2>7 DEF IInv
<1> QED
  BY <1>1, <1>2 DEF OrderSpawn

(* The workers start, stop and crash.                                      *)
LEMMA WorkerInv ==
    ASSUME IInv, NEW w \in Worker, ChildStart(w) \/ ChildStops(w) \/ Crash(w)
    PROVE  IInv'
<1>1. /\ UNCHANGED <<root, told, sentinel, retired, ordered, aux>>
      /\ life[w] \in {"forked", "stuck", "working"}
      /\ \E to \in {"working", "ended"} : life' = [life EXCEPT ![w] = to]
  BY DEF ChildStart, ChildStops, Crash, Alive
<1>2. /\ life' \in [Worker -> {"none", "forked", "stuck", "working", "ended"}]
      /\ life'[w] # "none" /\ \A v \in Worker : v # w => life'[v] = life[v]
  BY <1>1 DEF IInv, TypeOK
<1>3. Undecided' = Undecided /\ Registered' = Registered /\ Alive' \subseteq Alive
  BY <1>1, <1>2 DEF Undecided, Registered, Alive
<1>4. People'
  BY <1>1, <1>2, <1>3 DEF IInv, People, root, aux
<1>5. OneWork'
  BY <1>1, SameLoop DEF root
<1>6. TypeOK'
  BY <1>1, <1>2, <1>3, <1>5, SameType DEF IInv, TypeOK, OneWork, root
<1>7. ordered' \in Nat /\ AtMost' /\ AtLeast'
  BY <1>1, <1>3, SameTally DEF root, aux, Forked
<1> QED
  BY <1>4, <1>5, <1>6, <1>7 DEF IInv

(* What the program and the system do.                                     *)
LEMMA StopInv == IInv /\ Stop => IInv'
<1> SUFFICES ASSUME IInv, Stop
             PROVE  IInv'
  OBVIOUS
<1>1. OneWork'
  BY DEF IInv, OneWork, Preparing, Stop
<1> QED
  BY <1>1, RootInv DEF IInv, TypeOK, Stop, Forked, procs, aux

LEMMA RestartInv ==
    ASSUME IInv, SignalRestart \/ \E n \in {0, N} : CallRestart(n)
    PROVE  IInv'
<1>1. CASE SignalRestart
  <2>1. OneWork'
    BY <1>1, SameLoop DEF SignalRestart
  <2> QED
    BY <1>1, <2>1, RootInv DEF IInv, TypeOK, SignalRestart, Forked, procs, aux
<1>2. ASSUME NEW n \in {0, N}, CallRestart(n)
      PROVE  IInv'
  <2>1. OneWork'
    <3>1. <<"restart", n>> \in Item \ {<<"work">>}
      <4>1. N \in Nat
        BY ClusterAssumption
      <4>2. n \in 0 .. N
        BY <4>1
      <4> QED
        BY <4>2, OtherItems
    <3>2. /\ UNCHANGED <<stop, at, pc, to_spawn>> /\ to_spawn \in Nat
          /\ queue' = Append(queue, <<"restart", n>>)
      BY <1>2 DEF CallRestart, IInv, TypeOK
    <3> QED
      <4>1. PICK x \in Item \ {<<"work">>} : x = <<"restart", n>>
        BY <3>1
      <4>2. queue' = Append(queue, x)
        BY <3>2, <4>1
      <4>3. to_spawn' \in Nat /\ to_spawn' >= to_spawn
        BY <3>2
      <4> QED
        BY <3>2, <4>2, <4>3, PushedWork, Zenon
  <2> QED
    BY <1>2, <2>1, RootInv DEF IInv, TypeOK, CallRestart, Forked, procs, aux
<1> QED
  BY <1>1, <1>2

LEMMA AddWorkerInv == IInv /\ AddWorker => IInv'
<1> SUFFICES ASSUME IInv, AddWorker
             PROVE  IInv'
  OBVIOUS
<1>1. /\ UNCHANGED <<stop, workers, pushing, pc, at, joining, procs, aux>>
      /\ to_spawn' = to_spawn + 1 /\ ordered' = ordered + 1
      /\ queue' = << <<"spawn">> >> \o queue
  BY DEF AddWorker
<1>2. to_spawn \in Nat /\ workers \in Nat /\ ordered \in Nat
  BY ClusterAssumption DEF IInv, TypeOK
<1>3. OneWork'
  BY <1>1, <1>2, PushedWork, OtherItems
<1>4. /\ People' /\ Undecided' = Undecided /\ Registered' = Registered /\ lost' = lost
      /\ retired' = retired /\ Forked' = Forked /\ Forked \in Nat
  BY <1>1, SameStaff DEF procs, aux, Forked
<1>5. TypeOK'
  <2>1. queue' \in Seq(Item) /\ to_spawn' \in Nat
    BY <1>1, <1>2, <1>3 DEF OneWork
  <2> QED
    BY <1>1, <1>4, <2>1, SameType DEF IInv, TypeOK, procs
<1>6. AtMost' /\ AtLeast'
  BY <1>1, <1>2, <1>4, Sizes DEF IInv, AtMost, AtLeast
<1> QED
  BY <1>1, <1>2, <1>3, <1>4, <1>5, <1>6 DEF IInv

LEMMA PushTaskInv == IInv /\ PushTask => IInv'
<1> SUFFICES ASSUME IInv, PushTask
             PROVE  IInv'
  OBVIOUS
<1>1. OneWork'
  <2>1. CASE queue' = queue
    BY <2>1, SameLoop DEF PushTask
  <2>2. CASE queue' = Append(queue, <<"task">>)
    <3>1. UNCHANGED <<stop, at, pc, to_spawn>> /\ to_spawn \in Nat
      BY DEF PushTask, IInv, TypeOK
    <3> QED
      <4>1. PICK x \in Item \ {<<"work">>} : x = <<"task">>
        BY OtherItems
      <4>2. queue' = Append(queue, x)
        BY <2>2, <4>1
      <4>3. to_spawn' \in Nat /\ to_spawn' >= to_spawn
        BY <3>1
      <4> QED
        BY <3>1, <4>2, <4>3, PushedWork, Zenon
  <2> QED
    BY <2>1, <2>2 DEF PushTask
<1> QED
  BY <1>1, RootInv DEF IInv, TypeOK, PushTask, Forked, procs

LEMMA NextInv == IInv /\ [Next]_vars => IInv'
<1> SUFFICES ASSUME IInv, [Next]_vars
             PROVE  IInv'
  OBVIOUS
<1>1. CASE Reactor
  BY <1>1, StartInv, DrainedInv, ReviewInv, ForkInv, CountedInv, RunWorkInv, RunSpawnInv,
     RunRestartInv, RunTaskInv, PhaseInv, ExitInv DEF Reactor
<1>2. ASSUME NEW w \in Worker, Sentinel(w) \/ ChildStart(w) \/ ChildStops(w) \/ Crash(w)
      PROVE  IInv'
  BY <1>2, SentinelInv, DecideInv, OrderSpawnInv, WorkerInv DEF Sentinel
<1>3. CASE Stop \/ SignalRestart \/ (\E n \in {0, N} : CallRestart(n)) \/ AddWorker
           \/ PushTask
  BY <1>3, StopInv, RestartInv, AddWorkerInv, PushTaskInv
<1>4. CASE UNCHANGED vars
  <2>1. UNCHANGED <<root, procs, ordered, aux>>
    BY <1>4 DEF vars
  <2>2. OneWork'
    BY <2>1, SameLoop DEF root
  <2> QED
    BY <2>1, <2>2, RootInv DEF IInv, TypeOK, Forked, root, procs
<1> QED
  BY <1>1, <1>2, <1>3, <1>4 DEF Next

(* The inductive invariant holds in every state the cluster can be in.     *)
THEOREM Invariance == Spec => []IInv
BY InitInv, NextInv, PTL DEF Spec

-----------------------------------------------------------------------------
(* What it says of the properties.                                         *)

(* There is exactly one reactor task between two tasks of a root that      *)
(* cycles and was not told to stop, whatever spawning tasks were nested,   *)
(* dropped or cut short.                                                   *)
THEOREM Loop == Spec => []OneLoop
<1>1. IInv => OneLoop
  BY CountWork DEF IInv, OneWork, OneLoop
<1> QED
  BY <1>1, Invariance, PTL

(* No worker is ordered twice and no retired worker is replaced: the ones  *)
(* that work or are to be spawned are never more than were asked for, less *)
(* those that were retired.                                                *)
THEOREM NotTooMany == Spec => []NeverTooMany
<1>1. ASSUME IInv
      PROVE  NeverTooMany
  <2>1. (Alive \ retired) \cap retired = {}
    OBVIOUS
  <2>2. Alive \ retired \subseteq Worker
    BY DEF Alive
  <2>3. IsFiniteSet(Alive \ retired)
    BY <2>2, ClusterAssumption, FS_Subset
  <2>4. Cardinality((Alive \ retired) \cup retired)
          = Cardinality(Alive \ retired) + Cardinality(retired)
    <3>1. Cardinality((Alive \ retired) \cup retired)
            = Cardinality(Alive \ retired) + Cardinality(retired) - Cardinality({})
      BY <1>1, <2>1, <2>3, Sizes, FS_Union
    <3>2. Cardinality({}) = 0
      BY FS_EmptySet
    <3>3. Cardinality(Alive \ retired) \in Nat /\ Cardinality(retired) \in Nat
      BY <1>1, <2>3, Sizes, FS_CardinalityType
    <3> QED
      BY <3>1, <3>2, <3>3
  <2>5. (Alive \ retired) \cup retired \subseteq Undecided \cup retired
    BY <1>1 DEF IInv, People, Alive, Undecided
  <2>6. Cardinality((Alive \ retired) \cup retired) <= Cardinality(Undecided \cup retired)
    BY <1>1, <2>5, Sizes, FS_Subset
  <2>7. /\ Cardinality(Alive \ retired) \in Nat /\ Cardinality(retired) \in Nat
        /\ Cardinality(Undecided \cup retired) \in Nat
        /\ to_spawn \in Nat /\ ordered \in Nat /\ Forked \in Nat
    BY <1>1, <2>3, Sizes, FS_CardinalityType DEF IInv, TypeOK, Forked
  <2>8. Cardinality(Undecided \cup retired) + to_spawn <= ordered + Forked
    BY <1>1 DEF IInv, AtMost
  <2>9. Cardinality(Alive \ retired) + to_spawn <= ordered - Cardinality(retired) + Forked
    BY <2>4, <2>6, <2>7, <2>8
  <2> QED
    BY <2>9 DEF NeverTooMany, Forked
<1> QED
  BY <1>1, Invariance, PTL

(* When all is quiet, only those workers are missing that their sentinel   *)
(* found dead while the root pretended to stop.                            *)
THEOREM Replaced == Spec => []OthersReplaced
<1>1. ASSUME IInv, Quiet
      PROVE  Cardinality(Alive) + Cardinality(lost) >= workers
  <2>1. Undecided \ retired \subseteq Alive
    BY <1>1 DEF Quiet, Undecided
  <2>2. Alive \subseteq Worker
    BY DEF Alive
  <2>3. IsFiniteSet(Alive)
    BY <2>2, ClusterAssumption, FS_Subset
  <2>4. Cardinality(Undecided \ retired) <= Cardinality(Alive)
    BY <2>1, <2>3, FS_Subset
  <2>5. Cardinality(Undecided \ retired) + Cardinality(lost) + to_spawn >= workers + Forked
    BY <1>1 DEF IInv, AtLeast, Quiet
  <2>6. to_spawn = 0 /\ Forked = 0
    BY <1>1 DEF Quiet, Forked
  <2>7. /\ Cardinality(Undecided \ retired) \in Nat /\ Cardinality(lost) \in Nat
        /\ Cardinality(Alive) \in Nat /\ workers \in Nat
    BY <1>1, <2>3, Sizes, FS_CardinalityType, ClusterAssumption DEF IInv, TypeOK
  <2> QED
    BY <2>4, <2>5, <2>6, <2>7
<1>2. IInv => OthersReplaced
  BY <1>1 DEF OthersReplaced
<1> QED
  BY <1>2, Invariance, PTL
=============================================================================
