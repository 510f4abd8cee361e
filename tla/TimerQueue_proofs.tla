-------------------------- MODULE TimerQueue_proofs -------------------------
(***************************************************************************)
(* The timer queue keeps its order and its owners, runs a timer as often   *)
(* as it was asked to and never early: for every set of timers, every      *)
(* interval, every repetition count and whether or not memory can fail.    *)
(***************************************************************************)
EXTENDS TimerQueue, FiniteSetTheorems, SequenceTheorems, TLAPS

(* A repetition count of zero counts as one.                               *)
Asked(t) == IF wanted[t] = 0 THEN 1 ELSE wanted[t]

(* What is left to run, and when, follows from what was run: until the     *)
(* event is put back or finished, fio___timer_perform owes it the addition *)
(* to `due` and the subtraction from `repetitions`.                        *)
CountedFor(t) ==
    /\ place[t] = "unused" => runs[t] = 0
    /\ place[t] # "freed" => ended[t] = "no"
    /\ place[t] \in {"list", "task"} =>
        /\ due[t] = start[t] + (runs[t] + 1) * every[t]
        /\ wanted[t] < 0 => reps[t] < 0
        /\ wanted[t] >= 0 => reps[t] > 0 /\ runs[t] + reps[t] = Asked(t)
    /\ place[t] = "running" =>
        /\ due[t] = start[t] + runs[t] * every[t]
        /\ wanted[t] < 0 => reps[t] < 0
        /\ wanted[t] >= 0 => reps[t] > 0 /\ runs[t] + reps[t] = Asked(t) + 1

Counted == \A t \in Timer : CountedFor(t)

(* Only a due event is in a task.                                          *)
Timely ==
    /\ pushing <= now
    /\ \A t \in Timer : place[t] = "task" => due[t] <= now

IInv == EventsOK /\ Counted /\ Timely /\ RunsAsAsked /\ NeverEarly

-----------------------------------------------------------------------------
Has(s, t) == \E i \in 1 .. Len(s) : s[i] = t
Distinct(s) == \A i, j \in 1 .. Len(s) : s[i] = s[j] => i = j
Ordered(s, dues) == \A i, j \in 1 .. Len(s) : i < j => dues[s[i]] <= dues[s[j]]

(* A set of positions that has, with a position, all those before it, is   *)
(* an interval that starts at the first.                                   *)
LEMMA IntervalSize ==
    ASSUME NEW n \in Nat
    PROVE  IsFiniteSet(1 .. n) /\ Cardinality(1 .. n) = n
BY FS_Interval

LEMMA PrefixSize ==
    ASSUME NEW n \in Nat, NEW P \in SUBSET (1 .. n),
           \A i \in P : 1 .. i \subseteq P
    PROVE  \E k \in 0 .. n : P = 1 .. k
<1> DEFINE k == Cardinality(P)
<1>1. IsFiniteSet(P) /\ k \in Nat /\ k <= n
  <2>1. IsFiniteSet(1 .. n) /\ Cardinality(1 .. n) = n
    BY IntervalSize
  <2>2. IsFiniteSet(P) /\ k <= n
    BY <2>1, FS_Subset
  <2>3. QED
    BY <2>2, FS_CardinalityType
<1>2. ASSUME NEW i \in P
      PROVE  i <= k
  <2>1. i \in Nat /\ 1 .. i \in SUBSET P
    OBVIOUS
  <2>2. Cardinality(1 .. i) = i
    BY <2>1, IntervalSize
  <2>3. QED
    BY <1>1, <2>1, <2>2, FS_Subset
<1> HIDE DEF k
<1>3. P \in SUBSET (1 .. k)
  BY <1>1, <1>2
<1>4. IsFiniteSet(1 .. k) /\ Cardinality(1 .. k) = k
  BY <1>1, IntervalSize
<1>5. P = 1 .. k
  BY <1>3, <1>4, FS_Subset DEF k
<1> QED
  BY <1>1, <1>5

(* The list with the event behind its first k events.                      *)
Spliced(l, t, k) == SubSeq(l, 1, k) \o <<t>> \o SubSeq(l, k + 1, Len(l))

(* fio___timer_insert always finds its place: the loop stops behind the    *)
(* longest run of events that are due no later, or at the end.             *)
LEMMA InsertPlace ==
    ASSUME NEW l \in Seq(Timer), NEW t \in Timer, NEW dues \in [Timer -> Nat]
    PROVE  \E k \in 0 .. Len(l) :
              /\ \A j \in 1 .. k : dues[t] >= dues[l[j]]
              /\ k < Len(l) => dues[t] < dues[l[k + 1]]
              /\ Insert(l, t, dues) = Spliced(l, t, k)
<1> DEFINE Q(i) == /\ \A j \in 1 .. i : dues[t] >= dues[l[j]]
                   /\ i < Len(l) => dues[t] < dues[l[i + 1]]
           P == {i \in 1 .. Len(l) : \A j \in 1 .. i : dues[t] >= dues[l[j]]}
<1>1. Len(l) \in Nat
  BY LenProperties
<1>2. PICK k \in 0 .. Len(l) : P = 1 .. k
  <2>1. \A i \in P : 1 .. i \subseteq P
    BY <1>1
  <2> HIDE DEF P
  <2>2. P \in SUBSET (1 .. Len(l))
    BY DEF P
  <2>3. QED
    BY <1>1, <2>1, <2>2, PrefixSize
<1>3. Q(k)
  <2>1. \A j \in 1 .. k : dues[t] >= dues[l[j]]
    BY <1>2
  <2>2. ASSUME k < Len(l)
        PROVE  dues[t] < dues[l[k + 1]]
    <3>1. k + 1 \in 1 .. Len(l) /\ k + 1 \notin P
      <4> HIDE DEF P
      <4> QED
        BY <1>1, <1>2, <2>2
    <3>2. l[k + 1] \in Timer
      BY <3>1, ElementOfSeq
    <3>3. ~(dues[t] >= dues[l[k + 1]])
      BY <1>1, <2>1, <3>1
    <3>4. QED
      BY <3>2, <3>3
  <2>3. QED
    BY <2>1, <2>2
<1>4. \E i \in 0 .. Len(l) : Q(i)
  BY <1>1, <1>3
<1> DEFINE c == CHOOSE i \in 0 .. Len(l) : Q(i)
<1>5. c \in 0 .. Len(l) /\ Q(c)
  BY <1>4
<1>6. Insert(l, t, dues) = Spliced(l, t, c)
  BY DEF Insert, Spliced
<1> QED
  BY <1>5, <1>6

(* The list with the event in its place, element by element.               *)
LEMMA InsertShape ==
    ASSUME NEW l \in Seq(Timer), NEW t \in Timer, NEW k \in 0 .. Len(l)
    PROVE  /\ Spliced(l, t, k) \in Seq(Timer)
           /\ Len(Spliced(l, t, k)) = Len(l) + 1
           /\ \A i \in 1 .. k : Spliced(l, t, k)[i] = l[i]
           /\ Spliced(l, t, k)[k + 1] = t
           /\ \A i \in k + 2 .. Len(l) + 1 : Spliced(l, t, k)[i] = l[i - 1]
<1> DEFINE a == SubSeq(l, 1, k)
           b == SubSeq(l, k + 1, Len(l))
<1>1. Len(l) \in Nat /\ k \in Nat /\ k <= Len(l)
  BY LenProperties
<1>2. /\ a \in Seq(Timer) /\ Len(a) = k
      /\ \A i \in 1 .. k : a[i] = l[i]
  <2>1. \A i \in 1 .. k : l[i] \in Timer
    BY <1>1, ElementOfSeq
  <2>2. QED
    BY <1>1, <2>1, SubSeqProperties
<1>3. /\ b \in Seq(Timer) /\ Len(b) = Len(l) - k
      /\ \A i \in 1 .. Len(l) - k : b[i] = l[k + i]
  <2>1. \A i \in k + 1 .. Len(l) : l[i] \in Timer
    BY <1>1, ElementOfSeq
  <2>2. /\ b \in Seq(Timer)
        /\ Len(b) = IF k + 1 <= Len(l) THEN Len(l) - (k + 1) + 1 ELSE 0
        /\ \A i \in 1 .. Len(l) - (k + 1) + 1 : b[i] = l[(k + 1) + i - 1]
    BY <1>1, <2>1, SubSeqProperties
  <2>3. QED
    BY <1>1, <2>2
<1>4. <<t>> \in Seq(Timer) /\ Len(<<t>>) = 1 /\ <<t>>[1] = t
  OBVIOUS
<1> DEFINE at == a \o <<t>>
<1>5. /\ at \in Seq(Timer) /\ Len(at) = k + 1
      /\ \A i \in 1 .. k + 1 : at[i] = IF i <= k THEN a[i] ELSE <<t>>[i - k]
  BY <1>1, <1>2, <1>4, ConcatProperties
<1> HIDE DEF at
<1> DEFINE n == at \o b
<1>6. /\ n \in Seq(Timer) /\ Len(n) = Len(at) + Len(b)
      /\ \A i \in 1 .. Len(at) + Len(b) :
            n[i] = IF i <= Len(at) THEN at[i] ELSE b[i - Len(at)]
  BY <1>3, <1>5, ConcatProperties
<1>7. /\ at[k + 1] = t
      /\ \A i \in 1 .. k : at[i] = l[i]
  BY <1>1, <1>2, <1>4, <1>5
<1> HIDE DEF a, b, n
<1>8. ASSUME NEW i \in 1 .. Len(l) + 1
      PROVE  n[i] = IF i <= k + 1 THEN at[i] ELSE b[i - (k + 1)]
  <2>1. i \in 1 .. Len(at) + Len(b)
    BY <1>1, <1>3, <1>5
  <2>2. n[i] = IF i <= Len(at) THEN at[i] ELSE b[i - Len(at)]
    BY <1>6, <2>1
  <2>3. QED
    BY <1>5, <2>2
<1>9. /\ Len(n) = Len(l) + 1
      /\ \A i \in 1 .. k : n[i] = l[i]
      /\ n[k + 1] = t
  <2>1. Len(n) = Len(l) + 1
    BY <1>1, <1>3, <1>5, <1>6
  <2>2. \A i \in 1 .. k + 1 : n[i] = at[i]
    BY <1>1, <1>8
  <2>3. QED
    BY <1>1, <1>7, <2>1, <2>2
<1>10. ASSUME NEW i \in k + 2 .. Len(l) + 1
      PROVE  n[i] = l[i - 1]
  <2>1. n[i] = b[i - (k + 1)]
    BY <1>1, <1>8
  <2>2. i - (k + 1) \in 1 .. Len(l) - k
    BY <1>1
  <2>3. b[i - (k + 1)] = l[k + (i - (k + 1))]
    BY <1>3, <2>2
  <2>4. QED
    BY <1>1, <2>1, <2>3
<1> QED
  BY <1>6, <1>9, <1>10 DEF Spliced, n, at, a, b

(* fio___timer_insert keeps the order, and adds the event once.            *)
LEMMA InsertKeeps ==
    ASSUME NEW l \in Seq(Timer), NEW t \in Timer, NEW dues \in [Timer -> Nat],
           ~Has(l, t), Distinct(l), Ordered(l, dues),
           NEW n, n = Insert(l, t, dues)
    PROVE  /\ n \in Seq(Timer) /\ Distinct(n) /\ Ordered(n, dues)
           /\ \A u \in Timer : Has(n, u) <=> u = t \/ Has(l, u)
<1> USE DEF Has, Distinct, Ordered
<1>1. PICK k \in 0 .. Len(l) :
            /\ \A j \in 1 .. k : dues[t] >= dues[l[j]]
            /\ k < Len(l) => dues[t] < dues[l[k + 1]]
            /\ n = Spliced(l, t, k)
  BY InsertPlace
<1>2. Len(l) \in Nat /\ k \in Nat /\ k <= Len(l)
  BY LenProperties
<1>3. /\ n \in Seq(Timer) /\ Len(n) = Len(l) + 1
      /\ \A i \in 1 .. k : n[i] = l[i]
      /\ n[k + 1] = t
      /\ \A i \in k + 2 .. Len(l) + 1 : n[i] = l[i - 1]
  <2>1. n = Spliced(l, t, k)
    BY <1>1
  <2>2. /\ Spliced(l, t, k) \in Seq(Timer)
        /\ Len(Spliced(l, t, k)) = Len(l) + 1
        /\ \A i \in 1 .. k : Spliced(l, t, k)[i] = l[i]
        /\ Spliced(l, t, k)[k + 1] = t
        /\ \A i \in k + 2 .. Len(l) + 1 : Spliced(l, t, k)[i] = l[i - 1]
    BY InsertShape
  <2>3. QED
    BY <2>1, <2>2
<1>n. Len(n) \in Nat /\ Len(n) = Len(l) + 1
  BY <1>2, <1>3
<1> DEFINE from(i) == IF i <= k THEN i ELSE i - 1
<1>4. ASSUME NEW i \in 1 .. Len(n), i # k + 1
      PROVE  from(i) \in 1 .. Len(l) /\ n[i] = l[from(i)]
  <2>1. CASE i <= k
    BY <1>2, <1>3, <2>1
  <2>2. CASE i > k + 1
    BY <1>2, <1>3, <2>2
  <2>3. QED
    BY <1>2, <1>3, <1>4, <2>1, <2>2
<1>5. \A i \in 1 .. Len(l) : l[i] \in Timer /\ dues[l[i]] \in Nat
  BY ElementOfSeq
<1>6. \A j \in k + 1 .. Len(l) : dues[t] < dues[l[j]]
  <2> SUFFICES ASSUME NEW j \in k + 1 .. Len(l)
               PROVE  dues[t] < dues[l[j]]
    OBVIOUS
  <2>1. k + 1 \in 1 .. Len(l) /\ j \in 1 .. Len(l) /\ dues[t] < dues[l[k + 1]]
    BY <1>1, <1>2
  <2>2. dues[l[k + 1]] <= dues[l[j]]
    BY <1>2, <1>5, <2>1
  <2>3. QED
    BY <1>5, <2>1, <2>2
<1>7. ASSUME NEW i \in 1 .. Len(n), NEW j \in 1 .. Len(n), n[i] = n[j]
      PROVE  i = j
  <2>1. CASE i = k + 1 \/ j = k + 1
    <3> HIDE DEF from
    <3>1. ASSUME NEW m \in 1 .. Len(n), n[m] = t
          PROVE  m = k + 1
      BY <1>4, <3>1
    <3>2. n[i] = t /\ n[j] = t
      BY <1>3, <1>7, <2>1
    <3>3. QED
      BY <3>1, <3>2
  <2>2. CASE i # k + 1 /\ j # k + 1
    <3>1. from(i) = from(j)
      <4> HIDE DEF from
      <4>1. /\ from(i) \in 1 .. Len(l) /\ n[i] = l[from(i)]
            /\ from(j) \in 1 .. Len(l) /\ n[j] = l[from(j)]
        BY <1>4, <2>2
      <4>2. l[from(i)] = l[from(j)]
        BY <1>7, <4>1
      <4>3. QED
        BY <4>1, <4>2
    <3>2. QED
      BY <1>2, <1>n, <2>2, <3>1
  <2>3. QED
    BY <2>1, <2>2
<1>8. ASSUME NEW i \in 1 .. Len(n), NEW j \in 1 .. Len(n), i < j
      PROVE  dues[n[i]] <= dues[n[j]]
  <2>1. CASE i = k + 1
    <3>1. n[j] = l[j - 1] /\ j - 1 \in k + 1 .. Len(l)
      BY <1>2, <1>3, <1>8, <2>1
    <3>2. dues[l[j - 1]] \in Nat /\ dues[t] < dues[l[j - 1]]
      BY <1>2, <1>5, <1>6, <3>1
    <3>3. dues[n[i]] = dues[t] /\ dues[t] \in Nat
      BY <1>3, <2>1
    <3>4. QED
      BY <3>1, <3>2, <3>3
  <2>2. CASE j = k + 1
    <3>1. i \in 1 .. k
      BY <1>2, <1>3, <1>8, <2>2
    <3>2. n[i] = l[i] /\ dues[l[i]] \in Nat /\ dues[t] >= dues[l[i]]
      BY <1>1, <1>2, <1>3, <1>5, <3>1
    <3>3. QED
      BY <1>3, <2>2, <3>2
  <2>3. CASE i # k + 1 /\ j # k + 1
    <3>1. from(i) < from(j)
      BY <1>2, <1>n, <1>8, <2>3
    <3>2. QED
      <4> HIDE DEF from
      <4> QED
        BY <1>4, <2>3, <3>1
  <2>4. QED
    BY <2>1, <2>2, <2>3
<1>9. ASSUME NEW u \in Timer
      PROVE  (\E i \in 1 .. Len(n) : n[i] = u)
                <=> (u = t \/ \E i \in 1 .. Len(l) : l[i] = u)
  <2>1. ASSUME NEW i \in 1 .. Len(n), n[i] = u
        PROVE  u = t \/ \E j \in 1 .. Len(l) : l[j] = u
    <3> HIDE DEF from
    <3> QED
      BY <1>3, <1>4, <2>1
  <2>2. ASSUME u = t
        PROVE  \E i \in 1 .. Len(n) : n[i] = u
    <3>1. k + 1 \in 1 .. Len(n) /\ n[k + 1] = u
      BY <1>2, <1>3, <1>n, <2>2
    <3>2. QED
      BY <3>1
  <2>3. ASSUME NEW i \in 1 .. Len(l), l[i] = u
        PROVE  \E j \in 1 .. Len(n) : n[j] = u
    <3>1. CASE i <= k
      BY <1>2, <1>3, <2>3, <3>1
    <3>2. CASE i > k
      <4>1. i + 1 \in k + 2 .. Len(l) + 1 /\ i + 1 \in 1 .. Len(n) /\ (i + 1) - 1 = i
        BY <1>2, <1>3, <3>2
      <4>2. n[i + 1] = u
        BY <1>3, <2>3, <4>1
      <4>3. QED
        BY <4>1, <4>2
    <3>3. QED
      BY <1>2, <3>1, <3>2
  <2>4. QED
    BY <2>1, <2>2, <2>3
<1> QED
  BY <1>3, <1>7, <1>8, <1>9

-----------------------------------------------------------------------------
LEMMA InitInv == Init => IInv
BY TimerAssumption
   DEF Init, IInv, EventsOK, TypeOK, Places, Sorted, OneOwner, FinishOnce,
       Counted, CountedFor, Timely, RunsAsAsked, NeverEarly

(* An event that nobody else holds is put in the list: by                  *)
(* fio_timer_schedule, or by the thread that has performed it.             *)
LEMMA LinkKeeps ==
    ASSUME IInv, NEW t \in Timer, place[t] \notin {"list", "task"},
           due' \in [Timer -> Nat],
           \A u \in Timer : u # t => due'[u] = due[u],
           list' = Insert(list, t, due'), tasks' = tasks,
           place' = [place EXCEPT ![t] = "list"]
    PROVE  list' \in Seq(Timer) /\ Sorted' /\ OneOwner'
<1>1. list \in Seq(Timer) /\ Len(list) \in Nat
  BY LenProperties DEF IInv, EventsOK, TypeOK
<1>2. ~Has(list, t) /\ Distinct(list)
  BY DEF IInv, EventsOK, OneOwner, Has, Distinct
<1>3. Ordered(list, due')
  <2>1. \A i \in 1 .. Len(list) : list[i] \in Timer /\ list[i] # t
    BY <1>1, <1>2, ElementOfSeq DEF Has
  <2>2. QED
    BY <2>1 DEF IInv, EventsOK, Sorted, Ordered
<1>4. /\ list' \in Seq(Timer) /\ Distinct(list') /\ Ordered(list', due')
      /\ \A u \in Timer : Has(list', u) <=> u = t \/ Has(list, u)
  BY <1>1, <1>2, <1>3, InsertKeeps
<1>5. Sorted'
  BY <1>4 DEF Sorted, Ordered
<1>6. OneOwner'
  <2>1. place \in [Timer -> Places]
    BY DEF IInv, EventsOK, TypeOK
  <2>2. \A u \in Timer : place'[u] = "list" <=> Has(list', u)
    BY <1>4, <2>1 DEF IInv, EventsOK, OneOwner, Has
  <2>3. \A u \in Timer : place'[u] = "task" <=> Has(tasks', u)
    BY <2>1 DEF IInv, EventsOK, OneOwner, Has
  <2>4. QED
    BY <1>4, <2>2, <2>3 DEF IInv, EventsOK, OneOwner, Distinct, Has
<1> QED
  BY <1>4, <1>5, <1>6

LEMMA TickInv == IInv /\ Tick => IInv'
<1> SUFFICES ASSUME IInv, Tick
             PROVE  IInv'
  OBVIOUS
<1> USE DEF IInv, EventsOK, Tick, timer
<1>1. TypeOK'
  BY TimerAssumption DEF TypeOK
<1>2. Sorted' /\ OneOwner' /\ FinishOnce' /\ RunsAsAsked'
  BY DEF Sorted, OneOwner, FinishOnce, RunsAsAsked
<1>3. Counted' 
  BY DEF Counted, CountedFor, Asked
<1>4. Timely'
  BY DEF Timely, TypeOK
<1>5. NeverEarly'
  <2> SUFFICES ASSUME NEW t \in Timer, runs[t] > 0
               PROVE  now + 1 >= start[t] + runs[t] * every[t]
    BY DEF NeverEarly
  <2>1. now \in Int /\ start[t] + runs[t] * every[t] \in Int
    BY DEF TypeOK
  <2>2. now >= start[t] + runs[t] * every[t]
    BY DEF NeverEarly
  <2>3. QED
    BY <2>1, <2>2
<1> QED
  BY <1>1, <1>2, <1>3, <1>4, <1>5

LEMMA ScheduleInv ==
    ASSUME IInv, NEW t \in Timer, NEW e \in Intervals, NEW r \in Repetitions,
           Schedule(t, e, r)
    PROVE  IInv'
<1> USE DEF IInv, EventsOK
<1>1. e \in Nat /\ r \in Int /\ now \in Nat /\ now + e \in Nat /\ place[t] = "unused"
  BY TimerAssumption DEF TypeOK, Schedule
<1>2. due' \in [Timer -> Nat] /\ \A u \in Timer : u # t => due'[u] = due[u]
  BY <1>1 DEF Schedule, TypeOK
<1>3. list' \in Seq(Timer) /\ Sorted' /\ OneOwner'
  BY <1>1, <1>2, LinkKeeps DEF Schedule
<1>4. TypeOK'
  BY <1>1, <1>2, <1>3 DEF TypeOK, Schedule, Places
<1>5. FinishOnce'
  BY <1>1 DEF FinishOnce, Schedule, TypeOK
<1>6. runs[t] = 0 /\ ended[t] = "no"
  BY <1>1 DEF Counted, CountedFor
<1>7. \A u \in Timer : u # t =>
        /\ place'[u] = place[u] /\ due'[u] = due[u] /\ start'[u] = start[u]
        /\ every'[u] = every[u] /\ reps'[u] = reps[u] /\ wanted'[u] = wanted[u]
  BY DEF Schedule, TypeOK
<1>8. /\ place'[t] = "list" /\ due'[t] = now + e /\ start'[t] = now
      /\ every'[t] = e /\ reps'[t] = (IF r = 0 THEN 1 ELSE r) /\ wanted'[t] = r
      /\ runs' = runs /\ ended' = ended /\ now' = now /\ pushing' = pushing
  BY DEF Schedule, TypeOK
<1>9. Counted'
  <2> SUFFICES ASSUME NEW u \in Timer
               PROVE  CountedFor(u)'
    BY DEF Counted
  <2>1. CASE u = t
    BY <1>1, <1>6, <1>8, <2>1 DEF CountedFor, Asked
  <2>2. CASE u # t
    BY <1>7, <1>8, <2>2 DEF Counted, CountedFor, Asked
  <2>3. QED
    BY <2>1, <2>2
<1>10. Timely'
  BY <1>7, <1>8 DEF Timely
<1>11. RunsAsAsked'
  BY <1>1, <1>6, <1>7, <1>8 DEF RunsAsAsked
<1>12. NeverEarly'
  BY <1>6, <1>7, <1>8 DEF NeverEarly
<1> QED
  BY <1>3, <1>4, <1>5, <1>9, <1>10, <1>11, <1>12

(* t->on_finish is called for an event that no list or task holds.         *)
LEMMA FinishKeeps ==
    ASSUME IInv, NEW t \in Timer, place[t] \notin {"list", "task", "freed"},
           NEW why \in {"refused", "stopped", "done", "destroyed"}, Finish(t, why)
    PROVE  /\ place' \in [Timer -> Places] /\ place'[t] = "freed"
           /\ finished' \in [Timer -> Nat]
           /\ ended' \in [Timer -> {"no", "refused", "stopped", "done", "destroyed"}]
           /\ ended'[t] = why
           /\ \A u \in Timer : u # t => place'[u] = place[u] /\ ended'[u] = ended[u]
           /\ FinishOnce'
           /\ list' = list /\ tasks' = tasks => OneOwner'
<1> USE DEF IInv, EventsOK, Finish
<1>1. /\ place \in [Timer -> Places] /\ finished \in [Timer -> Nat]
      /\ ended \in [Timer -> {"no", "refused", "stopped", "done", "destroyed"}]
  BY DEF TypeOK
<1>2. /\ place' \in [Timer -> Places] /\ place'[t] = "freed"
      /\ \A u \in Timer : u # t => place'[u] = place[u]
  BY <1>1 DEF Places
<1>3. /\ finished' \in [Timer -> Nat]
      /\ finished'[t] = finished[t] + 1
      /\ \A u \in Timer : u # t => finished'[u] = finished[u]
  BY <1>1
<1>4. /\ ended' \in [Timer -> {"no", "refused", "stopped", "done", "destroyed"}]
      /\ ended'[t] = why
      /\ \A u \in Timer : u # t => ended'[u] = ended[u]
  BY <1>1
<1>5. FinishOnce'
  BY <1>2, <1>3 DEF FinishOnce
<1>6. ASSUME list' = list, tasks' = tasks
      PROVE  OneOwner'
  BY <1>2, <1>6 DEF OneOwner
<1> QED
  BY <1>2, <1>3, <1>4, <1>5, <1>6

LEMMA ScheduleRefusedInv ==
    ASSUME IInv, NEW t \in Timer, ScheduleRefused(t)
    PROVE  IInv'
<1> USE DEF IInv, EventsOK
<1>1. place[t] = "unused" /\ runs[t] = 0 /\ Finish(t, "refused")
  BY DEF Counted, CountedFor, ScheduleRefused
<1>2. /\ now' = now /\ list' = list /\ pushing' = pushing /\ tasks' = tasks
      /\ timer' = timer /\ runs' = runs
  BY DEF ScheduleRefused
<1>3. /\ place' \in [Timer -> Places] /\ place'[t] = "freed"
      /\ finished' \in [Timer -> Nat]
      /\ ended' \in [Timer -> {"no", "refused", "stopped", "done", "destroyed"}]
      /\ ended'[t] = "refused"
      /\ \A u \in Timer : u # t => place'[u] = place[u] /\ ended'[u] = ended[u]
      /\ FinishOnce' /\ OneOwner'
  BY <1>1, <1>2, FinishKeeps
<1>4. TypeOK'
  BY <1>2, <1>3 DEF TypeOK, timer
<1>5. Sorted' /\ NeverEarly'
  BY <1>2 DEF Sorted, NeverEarly, timer
<1>6. Counted' /\ Timely'
  BY <1>2, <1>3 DEF Counted, CountedFor, Asked, Timely, timer
<1>7. RunsAsAsked'
  BY <1>2, <1>3 DEF RunsAsAsked, timer
<1> QED
  BY <1>3, <1>4, <1>5, <1>6, <1>7

LEMMA PushBeginInv == IInv /\ PushBegin => IInv'
<1> SUFFICES ASSUME IInv, PushBegin
             PROVE  IInv'
  OBVIOUS
<1> USE DEF IInv, EventsOK, PushBegin, timer
<1>1. TypeOK'
  BY DEF TypeOK
<1>2. Sorted' /\ NeverEarly' /\ OneOwner' /\ FinishOnce' /\ RunsAsAsked'
  BY DEF Sorted, NeverEarly, OneOwner, FinishOnce, RunsAsAsked
<1>3. Counted'
  BY DEF Counted, CountedFor, Asked
<1>4. Timely'
  BY DEF Timely, TypeOK
<1> QED
  BY <1>1, <1>2, <1>3, <1>4

LEMMA PushEndInv == IInv /\ PushEnd => IInv'
<1> SUFFICES ASSUME IInv, PushEnd
             PROVE  IInv'
  OBVIOUS
<1> USE DEF IInv, EventsOK, PushEnd, timer
<1>1. TypeOK'
  <2>1. MaxTime \in Nat
    BY TimerAssumption
  <2>2. pushing' \in 0 .. MaxTime
    BY <2>1
  <2>3. /\ UNCHANGED <<now, list, tasks, place, due, every, reps>>
        /\ UNCHANGED <<start, wanted, runs, finished, ended>>
    OBVIOUS
  <2> QED
    BY <2>2, <2>3 DEF TypeOK
<1>2. Sorted' /\ NeverEarly' /\ OneOwner' /\ FinishOnce' /\ RunsAsAsked'
  BY DEF Sorted, NeverEarly, OneOwner, FinishOnce, RunsAsAsked
<1>3. Counted'
  BY DEF Counted, CountedFor, Asked
<1>4. Timely'
  BY DEF Timely, TypeOK
<1> QED
  BY <1>1, <1>2, <1>3, <1>4

(* What is left of a list of different events without the first.           *)
LEMMA TailKeeps ==
    ASSUME NEW s \in Seq(Timer), s # <<>>, Distinct(s)
    PROVE  /\ Head(s) \in Timer /\ Tail(s) \in Seq(Timer)
           /\ Distinct(Tail(s)) /\ Has(s, Head(s))
           /\ \A u \in Timer : Has(Tail(s), u) <=> Has(s, u) /\ u # Head(s)
           /\ \A dues \in [Timer -> Nat] :
                Ordered(s, dues) => Ordered(Tail(s), dues)
<1>1. /\ Len(s) \in Nat \ {0} /\ Head(s) = s[1]
      /\ Head(s) \in Timer /\ Tail(s) \in Seq(Timer)
      /\ Len(Tail(s)) = Len(s) - 1
      /\ \A i \in 1 .. Len(Tail(s)) : Tail(s)[i] = s[i + 1]
  BY HeadTailProperties, EmptySeq
<1> DEFINE r == Tail(s)
<1> HIDE DEF r
<1>2. /\ Len(r) = Len(s) - 1
      /\ \A i \in 1 .. Len(r) : r[i] = s[i + 1] /\ i + 1 \in 1 .. Len(s)
  BY <1>1 DEF r
<1>3. Distinct(r)
  BY <1>1, <1>2 DEF Distinct
<1>4. Has(s, Head(s))
  BY <1>1 DEF Has
<1>5. ASSUME NEW u \in Timer
      PROVE  Has(r, u) <=> Has(s, u) /\ u # Head(s)
  <2>1. ASSUME Has(r, u)
        PROVE  Has(s, u) /\ u # Head(s)
    BY <1>1, <1>2, <2>1 DEF Has, Distinct
  <2>2. ASSUME NEW i \in 1 .. Len(s), s[i] = u, u # Head(s)
        PROVE  Has(r, u)
    <3>1. i - 1 \in 1 .. Len(r) /\ (i - 1) + 1 = i
      BY <1>1, <1>2, <2>2
    <3>2. r[i - 1] = u
      BY <1>2, <2>2, <3>1
    <3>3. QED
      BY <3>1, <3>2 DEF Has
  <2>3. QED
    BY <2>1, <2>2 DEF Has
<1>6. ASSUME NEW dues \in [Timer -> Nat], Ordered(s, dues)
      PROVE  Ordered(r, dues)
  <2> SUFFICES ASSUME NEW i \in 1 .. Len(r), NEW j \in 1 .. Len(r), i < j
               PROVE  dues[r[i]] <= dues[r[j]]
    BY DEF Ordered
  <2>1. r[i] = s[i + 1] /\ r[j] = s[j + 1] /\ i + 1 < j + 1
    BY <1>1, <1>2
  <2>2. QED
    BY <1>2, <1>6, <2>1 DEF Ordered
<1> QED
  BY <1>1, <1>3, <1>4, <1>5, <1>6 DEF r

LEMMA AppendKeeps ==
    ASSUME NEW s \in Seq(Timer), NEW t \in Timer, ~Has(s, t), Distinct(s)
    PROVE  /\ Append(s, t) \in Seq(Timer) /\ Distinct(Append(s, t))
           /\ \A u \in Timer : Has(Append(s, t), u) <=> Has(s, u) \/ u = t
<1> DEFINE r == Append(s, t)
<1>1. /\ r \in Seq(Timer) /\ Len(s) \in Nat /\ Len(r) = Len(s) + 1
      /\ \A i \in 1 .. Len(s) : r[i] = s[i]
      /\ r[Len(s) + 1] = t
  BY AppendProperties, LenProperties
<1> HIDE DEF r
<1>2. Distinct(r)
  BY <1>1 DEF Distinct, Has
<1>3. \A u \in Timer : Has(r, u) <=> Has(s, u) \/ u = t
  BY <1>1 DEF Has
<1> QED
  BY <1>1, <1>2, <1>3 DEF r

LEMMA PushNextInv == IInv /\ PushNext => IInv'
<1> SUFFICES ASSUME IInv, PushNext
             PROVE  IInv'
  OBVIOUS
<1> USE DEF IInv, EventsOK
<1> DEFINE t == Head(list)
<1>1. /\ list \in Seq(Timer) /\ list # <<>> /\ tasks \in Seq(Timer)
      /\ place \in [Timer -> Places] /\ due \in [Timer -> Nat]
  BY DEF TypeOK, PushNext
<1>2. /\ t \in Timer /\ list' \in Seq(Timer) /\ Distinct(list')
      /\ Has(list, t) /\ list' = Tail(list)
      /\ \A u \in Timer : Has(list', u) <=> Has(list, u) /\ u # t
      /\ Ordered(list, due) => Ordered(list', due)
  <2>1. Distinct(list) /\ list' = Tail(list)
    BY DEF OneOwner, Distinct, PushNext
  <2>2. QED
    BY <1>1, <2>1, TailKeeps
<1>3. place[t] = "list" /\ due[t] <= now /\ ~Has(tasks, t)
  <2>1. place[t] = "list"
    BY <1>2 DEF OneOwner, Has
  <2>2. due[t] <= pushing
    BY DEF PushNext, Due
  <2>3. due[t] <= now
    <3>1. due[t] \in Nat /\ pushing \in Nat /\ now \in Nat
      BY <1>2, TimerAssumption DEF TypeOK
    <3>2. QED
      BY <2>2, <3>1 DEF Timely
  <2>4. ~Has(tasks, t)
    BY <1>2, <2>1 DEF OneOwner, Has
  <2>5. QED
    BY <2>1, <2>3, <2>4
<1>4. PICK to \in {"task", "lost"} :
        /\ tasks' = IF to = "task" THEN Append(tasks, t) ELSE tasks
        /\ place' = [place EXCEPT ![t] = to]
  BY DEF PushNext
<1>5. /\ now' = now /\ pushing' = pushing /\ timer' = timer /\ due' = due
      /\ runs' = runs /\ finished' = finished /\ ended' = ended
  BY DEF PushNext, timer
<1> HIDE DEF t
<1>6. /\ place' \in [Timer -> Places] /\ place'[t] = to
      /\ \A u \in Timer : u # t => place'[u] = place[u]
  BY <1>1, <1>2, <1>4 DEF Places
<1>7. /\ tasks' \in Seq(Timer) /\ Distinct(tasks')
      /\ \A u \in Timer : Has(tasks', u) <=> Has(tasks, u) \/ (u = t /\ to = "task")
  <2>1. Distinct(tasks)
    BY DEF OneOwner, Distinct
  <2>2. CASE to = "task"
    BY <1>1, <1>2, <1>3, <1>4, <2>1, <2>2, AppendKeeps
  <2>3. CASE to # "task"
    BY <1>1, <1>4, <2>1, <2>3
  <2>4. QED
    BY <2>2, <2>3
<1>8. TypeOK'
  BY <1>2, <1>3, <1>5, <1>6, <1>7 DEF TypeOK, timer
<1>9. Sorted'
  BY <1>2, <1>5 DEF Sorted, Ordered
<1>10. OneOwner'
  <2>1. \A u \in Timer : place'[u] = "list" <=> Has(list', u)
    BY <1>2, <1>4, <1>6 DEF OneOwner, Has
  <2>2. \A u \in Timer : place'[u] = "task" <=> Has(tasks', u)
    BY <1>3, <1>4, <1>6, <1>7 DEF OneOwner, Has
  <2>3. QED
    BY <1>2, <1>7, <2>1, <2>2 DEF OneOwner, Distinct, Has
<1>11. FinishOnce'
  BY <1>2, <1>3, <1>4, <1>5, <1>6 DEF FinishOnce
<1>12. Counted'
  BY <1>2, <1>3, <1>4, <1>5, <1>6 DEF Counted, CountedFor, Asked, timer
<1>13. Timely'
  BY <1>2, <1>3, <1>5, <1>6 DEF Timely
<1>14. RunsAsAsked' /\ NeverEarly'
  BY <1>5 DEF RunsAsAsked, NeverEarly, timer
<1> QED
  BY <1>8, <1>9, <1>10, <1>11, <1>12, <1>13, <1>14

LEMMA PerformInv == IInv /\ Perform => IInv'
<1> SUFFICES ASSUME IInv, Perform
             PROVE  IInv'
  OBVIOUS
<1> USE DEF IInv, EventsOK
<1>1. /\ tasks \in Seq(Timer) /\ tasks # <<>>
      /\ place \in [Timer -> Places] /\ runs \in [Timer -> Nat]
  BY DEF TypeOK, Perform
<1>2. PICK t \in Timer : t = Head(tasks)
  BY <1>1, HeadTailProperties
<1>3. /\ tasks' \in Seq(Timer) /\ Distinct(tasks')
      /\ Has(tasks, t)
      /\ \A u \in Timer : Has(tasks', u) <=> Has(tasks, u) /\ u # t
  <2>1. Distinct(tasks) /\ tasks' = Tail(tasks)
    BY DEF OneOwner, Distinct, Perform
  <2>2. QED
    BY <1>1, <1>2, <2>1, TailKeeps
<1>4. place[t] = "task"
  BY <1>3 DEF OneOwner, Has
<1>5. /\ now' = now /\ list' = list /\ pushing' = pushing /\ timer' = timer
      /\ finished' = finished /\ ended' = ended
      /\ runs' = [runs EXCEPT ![t] = @ + 1] /\ place' = [place EXCEPT ![t] = "running"]
  BY <1>2 DEF Perform
<1>6. /\ place' \in [Timer -> Places] /\ place'[t] = "running"
      /\ runs' \in [Timer -> Nat] /\ runs'[t] = runs[t] + 1
      /\ \A u \in Timer : u # t => place'[u] = place[u] /\ runs'[u] = runs[u]
  BY <1>1, <1>3, <1>5 DEF Places
<1>7. TypeOK'
  BY <1>3, <1>4, <1>5, <1>6 DEF TypeOK, timer
<1>8. Sorted'
  BY <1>5 DEF Sorted, timer
<1>9. OneOwner'
  <2>1. \A u \in Timer : place'[u] = "list" <=> Has(list', u)
    BY <1>4, <1>5, <1>6 DEF OneOwner, Has
  <2>2. \A u \in Timer : place'[u] = "task" <=> Has(tasks', u)
    BY <1>3, <1>6 DEF OneOwner, Has
  <2>3. QED
    BY <1>3, <1>5, <2>1, <2>2 DEF OneOwner, Distinct, Has
<1>10. FinishOnce'
  BY <1>3, <1>4, <1>5, <1>6 DEF FinishOnce
<1>11. CountedFor(t) /\ ended[t] = "no"
  BY <1>3, <1>4 DEF Counted, CountedFor
<1>12. /\ reps[t] \in Int /\ runs[t] \in Nat /\ wanted[t] \in Int /\ now \in Nat
       /\ start[t] \in Nat /\ every[t] \in Nat /\ runs[t] * every[t] \in Nat
  BY <1>3 DEF TypeOK
<1>13. Counted'
  <2> SUFFICES ASSUME NEW u \in Timer
               PROVE  CountedFor(u)'
    BY DEF Counted
  <2>1. CASE u = t
    <3>1. /\ due[t] = start[t] + (runs[t] + 1) * every[t]
          /\ wanted[t] < 0 => reps[t] < 0
          /\ wanted[t] >= 0 => reps[t] > 0 /\ runs[t] + reps[t] = Asked(t)
      BY <1>4, <1>11 DEF CountedFor
    <3>2. Asked(t) \in Int /\ (runs[t] + 1) + reps[t] = runs[t] + reps[t] + 1
      BY <1>12 DEF Asked
    <3>3. /\ due'[t] = start'[t] + runs'[t] * every'[t]
          /\ wanted'[t] < 0 => reps'[t] < 0
          /\ wanted'[t] >= 0 => reps'[t] > 0 /\ runs'[t] + reps'[t] = Asked(t) + 1
      BY <1>5, <1>6, <3>1, <3>2 DEF timer
    <3>4. Asked(t)' = Asked(t)
      BY <1>5 DEF Asked, timer
    <3>5. QED
      BY <1>5, <1>6, <1>11, <2>1, <3>3, <3>4 DEF CountedFor
  <2>2. CASE u # t
    BY <1>5, <1>6, <2>2 DEF Counted, CountedFor, Asked, timer
  <2>3. QED
    BY <2>1, <2>2
<1>14. Timely'
  BY <1>5, <1>6 DEF Timely, timer
<1>15. RunsAsAsked'
  <2>1. wanted[t] >= 0 => runs[t] + 1 <= wanted[t] + (IF wanted[t] = 0 THEN 1 ELSE 0)
    BY <1>4, <1>11, <1>12 DEF CountedFor, Asked
  <2>2. QED
    BY <1>5, <1>6, <1>11, <2>1 DEF RunsAsAsked, timer
<1>16. NeverEarly'
  <2>1. now >= start[t] + (runs[t] + 1) * every[t]
    BY <1>3, <1>4, <1>11 DEF CountedFor, Timely
  <2>2. QED
    BY <1>5, <1>6, <2>1 DEF NeverEarly, timer
<1> QED
  BY <1>7, <1>8, <1>9, <1>10, <1>13, <1>14, <1>15, <1>16

LEMMA PerformedInv ==
    ASSUME IInv, NEW t \in Timer, NEW stop \in BOOLEAN, Performed(t, stop)
    PROVE  IInv'
<1> USE DEF IInv, EventsOK
<1>1. /\ place \in [Timer -> Places] /\ place[t] = "running"
      /\ due \in [Timer -> Nat] /\ reps \in [Timer -> Int]
      /\ every[t] \in Nat /\ start[t] \in Nat /\ wanted[t] \in Int
      /\ runs[t] \in Nat /\ reps[t] \in Int /\ due[t] \in Nat /\ reps[t] # 0
      /\ runs[t] * every[t] \in Nat
  BY DEF TypeOK, Performed
<1>2. /\ now' = now /\ pushing' = pushing /\ tasks' = tasks /\ every' = every
      /\ start' = start /\ wanted' = wanted /\ runs' = runs
  BY DEF Performed
<1>3. /\ due' \in [Timer -> Nat] /\ due'[t] = due[t] + every[t]
      /\ \A u \in Timer : u # t => due'[u] = due[u]
  BY <1>1 DEF Performed
<1>4. /\ reps' \in [Timer -> Int]
      /\ reps'[t] = (IF stop \/ reps[t] < 0 THEN reps[t] ELSE reps[t] - 1)
      /\ \A u \in Timer : u # t => reps'[u] = reps[u]
  BY <1>1 DEF Performed
<1>5. /\ ended[t] = "no" /\ due[t] = start[t] + runs[t] * every[t]
      /\ wanted[t] < 0 => reps[t] < 0
      /\ wanted[t] >= 0 => reps[t] > 0 /\ runs[t] + reps[t] = Asked(t) + 1
  BY <1>1 DEF Counted, CountedFor
<1>6. NeverEarly'
  BY <1>2 DEF NeverEarly
<1>7. CASE Rearms(t, stop)
  <2>1. /\ list' = Insert(list, t, due')
        /\ place' = [place EXCEPT ![t] = "list"]
        /\ finished' = finished /\ ended' = ended
    BY <1>7 DEF Performed
  <2>2. list' \in Seq(Timer) /\ Sorted' /\ OneOwner'
    BY <1>1, <1>2, <1>3, <2>1, LinkKeeps
  <2>3. /\ place' \in [Timer -> Places] /\ place'[t] = "list"
        /\ \A u \in Timer : u # t => place'[u] = place[u]
    BY <1>1, <2>1 DEF Places
  <2>4. reps'[t] # 0
    BY <1>1, <1>4, <1>7 DEF Rearms
  <2>5. TypeOK'
    BY <1>2, <1>3, <1>4, <2>1, <2>2, <2>3, <2>4 DEF TypeOK
  <2>6. FinishOnce'
    BY <1>1, <2>1, <2>3 DEF FinishOnce
  <2>7. Counted'
    <3> SUFFICES ASSUME NEW u \in Timer
                 PROVE  CountedFor(u)'
      BY DEF Counted
    <3>1. CASE u = t
      <4>1. Asked(t)' = Asked(t) /\ Asked(t) \in Int
        BY <1>1, <1>2 DEF Asked
      <4>2. due'[t] = start[t] + (runs[t] + 1) * every[t]
        <5>1. (runs[t] + 1) * every[t] = runs[t] * every[t] + every[t]
          BY <1>1
        <5>2. QED
          BY <1>1, <1>3, <1>5, <5>1
      <4>3. wanted[t] < 0 => reps'[t] < 0
        BY <1>1, <1>4, <1>5
      <4>4. wanted[t] >= 0 => reps'[t] > 0 /\ runs[t] + reps'[t] = Asked(t)
        BY <1>1, <1>4, <1>5, <1>7, <4>1 DEF Rearms
      <4>5. QED
        BY <1>2, <1>5, <2>1, <2>3, <3>1, <4>1, <4>2, <4>3, <4>4 DEF CountedFor
    <3>2. CASE u # t
      BY <1>2, <1>3, <1>4, <2>1, <2>3, <3>2 DEF Counted, CountedFor, Asked
    <3>3. QED
      BY <3>1, <3>2
  <2>8. Timely'
    BY <1>2, <1>3, <2>3 DEF Timely
  <2>9. RunsAsAsked'
    BY <1>2, <2>1 DEF RunsAsAsked
  <2> QED
    BY <1>6, <2>2, <2>5, <2>6, <2>7, <2>8, <2>9
<1>8. CASE ~Rearms(t, stop)
  <2> DEFINE why == IF stop THEN "stopped" ELSE "done"
  <2>1. Finish(t, why) /\ list' = list
    BY <1>8 DEF Performed
  <2>2. why \in {"refused", "stopped", "done", "destroyed"}
    OBVIOUS
  <2>3. why = "done" => ~stop
    OBVIOUS
  <2> HIDE DEF why
  <2>4. /\ place' \in [Timer -> Places] /\ place'[t] = "freed"
        /\ finished' \in [Timer -> Nat]
        /\ ended' \in [Timer -> {"no", "refused", "stopped", "done", "destroyed"}]
        /\ ended'[t] = why
        /\ \A u \in Timer : u # t => place'[u] = place[u] /\ ended'[u] = ended[u]
        /\ FinishOnce' /\ OneOwner'
    BY <1>1, <1>2, <2>1, <2>2, FinishKeeps
  <2>5. TypeOK'
    BY <1>2, <1>3, <1>4, <2>1, <2>4 DEF TypeOK
  <2>6. Sorted'
    <3>1. \A i \in 1 .. Len(list) : list[i] \in Timer /\ list[i] # t
      BY <1>1, ElementOfSeq DEF OneOwner, TypeOK
    <3>2. QED
      BY <1>3, <2>1, <3>1 DEF Sorted
  <2>7. Counted'
    BY <1>2, <1>3, <1>4, <2>4 DEF Counted, CountedFor, Asked
  <2>8. Timely'
    BY <1>2, <1>3, <2>4 DEF Timely
  <2>9. RunsAsAsked'
    <3>1. why = "done" => runs[t] = (IF wanted[t] = 0 THEN 1 ELSE wanted[t])
      BY <1>1, <1>5, <1>8, <2>3 DEF Rearms, Asked
    <3>2. QED
      BY <1>2, <2>4, <3>1 DEF RunsAsAsked
  <2> QED
    BY <1>6, <2>4, <2>5, <2>6, <2>7, <2>8, <2>9
<1> QED
  BY <1>7, <1>8

LEMMA DestroyInv == IInv /\ Destroy => IInv'
<1> SUFFICES ASSUME IInv, Destroy
             PROVE  IInv'
  OBVIOUS
<1> USE DEF IInv, EventsOK, Destroy, timer
<1>1. /\ list' = <<>> /\ <<>> \in Seq(Timer) /\ Len(<<>>) = 0
      /\ place \in [Timer -> Places]
  BY EmptySeq DEF TypeOK
<1>2. /\ place' \in [Timer -> Places]
      /\ \A u \in Timer :
            place'[u] = IF place[u] = "list" THEN "dropped" ELSE place[u]
  BY <1>1 DEF Places
<1>3. TypeOK'
  BY <1>1, <1>2 DEF TypeOK
<1>4. Sorted'
  BY <1>1 DEF Sorted
<1>5. OneOwner'
  BY <1>1, <1>2 DEF OneOwner
<1>6. FinishOnce'
  BY <1>2 DEF FinishOnce
<1>7. Counted'
  BY <1>2 DEF Counted, CountedFor, Asked
<1>8. Timely' /\ RunsAsAsked' /\ NeverEarly'
  BY <1>2 DEF Timely, RunsAsAsked, NeverEarly
<1> QED
  BY <1>3, <1>4, <1>5, <1>6, <1>7, <1>8

LEMMA DestroyEventInv ==
    ASSUME IInv, NEW t \in Timer, DestroyEvent(t)
    PROVE  IInv'
<1> USE DEF IInv, EventsOK
<1>1. place[t] = "dropped" /\ Finish(t, "destroyed")
  BY DEF DestroyEvent
<1>2. /\ now' = now /\ list' = list /\ pushing' = pushing /\ tasks' = tasks
      /\ timer' = timer /\ runs' = runs
  BY DEF DestroyEvent
<1>3. /\ place' \in [Timer -> Places] /\ place'[t] = "freed"
      /\ finished' \in [Timer -> Nat]
      /\ ended' \in [Timer -> {"no", "refused", "stopped", "done", "destroyed"}]
      /\ ended'[t] = "destroyed"
      /\ \A u \in Timer : u # t => place'[u] = place[u] /\ ended'[u] = ended[u]
      /\ FinishOnce' /\ OneOwner'
  BY <1>1, <1>2, FinishKeeps
<1>4. TypeOK'
  BY <1>2, <1>3 DEF TypeOK, timer
<1>5. Sorted' /\ NeverEarly'
  BY <1>2 DEF Sorted, NeverEarly, timer
<1>6. Counted' /\ Timely'
  BY <1>2, <1>3 DEF Counted, CountedFor, Asked, Timely, timer
<1>7. RunsAsAsked'
  BY <1>2, <1>3 DEF RunsAsAsked, timer
<1> QED
  BY <1>3, <1>4, <1>5, <1>6, <1>7

LEMMA NextInv == IInv /\ [Next]_vars => IInv'
<1> SUFFICES ASSUME IInv, [Next]_vars
             PROVE  IInv'
  OBVIOUS
<1>1. CASE UNCHANGED vars
  <2> USE <1>1 DEF vars, timer, IInv
  <2>1. EventsOK'
    BY DEF EventsOK, TypeOK, Sorted, OneOwner, FinishOnce
  <2>2. Counted' /\ Timely'
    BY DEF Counted, CountedFor, Asked, Timely
  <2>3. RunsAsAsked' /\ NeverEarly'
    BY DEF RunsAsAsked, NeverEarly
  <2> QED
    BY <2>1, <2>2, <2>3
<1>2. CASE Next
  BY <1>2, TickInv, ScheduleInv, ScheduleRefusedInv, PushBeginInv, PushNextInv,
     PushEndInv, PerformInv, PerformedInv, DestroyInv, DestroyEventInv DEF Next
<1> QED
  BY <1>1, <1>2

-----------------------------------------------------------------------------
(* The inductive invariant of the timer queue holds in every reachable     *)
(* state, whichever threads schedule, push, perform and destroy.           *)
THEOREM Invariance == Spec => []IInv
<1>1. QED
  BY InitInv, NextInv, PTL DEF Spec

(* fio___timer_insert keeps the list in the order of due times through     *)
(* re-insertions by the threads that perform events; an event is linked,   *)
(* queued or freed, never two of these; on_finish is called once, at the   *)
(* end (src/fio-stl/102 queue.h, fio___timer_event_free).                  *)
THEOREM EventsCorrect == Spec => []EventsOK
<1>1. IInv => EventsOK
  BY DEF IInv
<1> QED
  BY <1>1, Invariance, PTL

(* fio___timer_event_free counts a run when it is over: a timer that ends  *)
(* by itself has run as often as it was asked to, and none runs more often.*)
THEOREM RunCount == Spec => []RunsAsAsked
<1>1. IInv => RunsAsAsked
  BY DEF IInv
<1> QED
  BY <1>1, Invariance, PTL

(* The n-th call of a timer's function comes no earlier than n intervals   *)
(* after its start, however late fio_timer_push2queue or the threads were. *)
THEOREM Punctual == Spec => []NeverEarly
<1>1. IInv => NeverEarly
  BY DEF IInv
<1> QED
  BY <1>1, Invariance, PTL
=============================================================================
