------------------------- MODULE TaskSchedulerProofs -------------------------
(***************************************************************************)
(* Proofs about the task scheduler, for any tasks, dependencies, limits    *)
(* and numbers of overlapping ticks.                                       *)
(***************************************************************************)
EXTENDS TaskScheduler, FiniteSetTheorems, SequenceTheorems, TLAPS

-----------------------------------------------------------------------------
(* The queue                                                                *)

\* Where the sort leaves the entries: those before k stay, the rest move by one.
LEMMA InsertedProperties ==
    ASSUME queue \in Seq(Tasks), NEW t \in Tasks
    PROVE  /\ Inserted(t) \in Seq(Tasks)
           /\ DOMAIN Inserted(t) = 1 .. Len(queue) + 1
           /\ \E k \in 0 .. Len(queue) :
                /\ k = Cardinality({i \in DOMAIN queue : Behind(queue[i], t)})
                /\ \A p \in 1 .. Len(queue) + 1 :
                      Inserted(t)[p] = IF p <= k THEN queue[p]
                                       ELSE IF p = k + 1 THEN t ELSE queue[p - 1]
  <1> DEFINE k == Cardinality({i \in DOMAIN queue : Behind(queue[i], t)})
             L == Len(queue)
             a == SubSeq(queue, 1, k)
             c == SubSeq(queue, k + 1, L)
  <1>1. L \in Nat /\ DOMAIN queue = 1 .. L /\ \A i \in 1 .. L : queue[i] \in Tasks
    BY LenProperties
  <1>2. k \in 0 .. L
    <2>1. IsFiniteSet(1 .. L) /\ Cardinality(1 .. L) = L
      <3> HIDE DEF L
      <3>1. 1 \in Int /\ L \in Int
        BY <1>1
      <3> QED BY <1>1, <3>1, FS_Interval
    <2>2. {i \in DOMAIN queue : Behind(queue[i], t)} \in SUBSET (1 .. L)
      BY <1>1
    <2> QED BY <1>1, <2>1, <2>2, FS_Subset, FS_CardinalityType
  <1> HIDE DEF k
  <1>3. a \in Seq(Tasks) /\ Len(a) = k /\ \A i \in 1 .. k : a[i] = queue[i]
    BY <1>1, <1>2, SubSeqProperties
  <1>4. c \in Seq(Tasks) /\ Len(c) = L - k /\ \A i \in 1 .. L - k : c[i] = queue[k + i]
    <2>1. /\ k + 1 \in Int /\ L \in Int
          /\ \A i \in (k + 1) .. L : queue[i] \in Tasks
      BY <1>1, <1>2
    <2>2. /\ c \in Seq(Tasks)
          /\ Len(c) = IF k + 1 <= L THEN L - (k + 1) + 1 ELSE 0
          /\ \A i \in 1 .. L - (k + 1) + 1 : c[i] = queue[(k + 1) + i - 1]
      BY <2>1, SubSeqProperties
    <2>3. L \in Nat /\ k \in Nat /\ k <= L
      BY <1>1, <1>2
    <2> HIDE DEF L, c
    <2>4. (IF k + 1 <= L THEN L - (k + 1) + 1 ELSE 0) = L - k
      BY <2>3
    <2>5. ASSUME NEW i \in 1 .. L - k PROVE c[i] = queue[k + i]
      <3>1. i \in 1 .. L - (k + 1) + 1 /\ (k + 1) + i - 1 = k + i
        BY <2>3, <2>5
      <3> QED BY <2>2, <3>1
    <2> QED BY <2>2, <2>4, <2>5
  <1>5. /\ <<t>> \in Seq(Tasks) /\ Len(<<t>>) = 1 /\ <<t>>[1] = t
    OBVIOUS
  <1> HIDE DEF a, c
  <1>6. /\ a \o <<t>> \in Seq(Tasks) /\ Len(a \o <<t>>) = k + 1
        /\ \A p \in 1 .. k + 1 : (a \o <<t>>)[p] = IF p <= k THEN queue[p] ELSE t
    BY <1>2, <1>3, <1>5, ConcatProperties
  <1>7. /\ (a \o <<t>>) \o c \in Seq(Tasks)
        /\ Len((a \o <<t>>) \o c) = L + 1
        /\ \A p \in 1 .. L + 1 : ((a \o <<t>>) \o c)[p] =
             IF p <= k + 1 THEN (a \o <<t>>)[p] ELSE c[p - (k + 1)]
    BY <1>1, <1>2, <1>4, <1>6, ConcatProperties
  <1> DEFINE q == (a \o <<t>>) \o c
  <1>70. L \in Nat /\ k \in Nat /\ k <= L /\ L + 1 \in Nat
    BY <1>1, <1>2
  <1>71. \A p \in 1 .. L + 1 : q[p] =
             IF p <= k + 1 THEN (a \o <<t>>)[p] ELSE c[p - (k + 1)]
    BY <1>7
  <1> HIDE DEF q, L
  <1>8. \A p \in 1 .. L + 1 : q[p] =
             IF p <= k THEN queue[p] ELSE IF p = k + 1 THEN t ELSE queue[p - 1]
    <2> SUFFICES ASSUME NEW p \in 1 .. L + 1
                 PROVE  q[p] =
                          IF p <= k THEN queue[p] ELSE IF p = k + 1 THEN t ELSE queue[p - 1]
      OBVIOUS
    <2>1. CASE p <= k + 1
      <3>1. p \in 1 .. k + 1
        BY <1>70, <2>1
      <3>2. q[p] = (a \o <<t>>)[p]
        BY <1>71, <2>1
      <3>3. q[p] = IF p <= k THEN queue[p] ELSE t
        BY <1>6, <3>1, <3>2
      <3> QED BY <1>70, <3>1, <3>3
    <2>2. CASE p > k + 1
      <3>1. p - (k + 1) \in 1 .. L - k /\ k + (p - (k + 1)) = p - 1
        BY <1>70, <2>2
      <3>2. c[p - (k + 1)] = queue[p - 1]
        BY <1>4, <3>1
      <3>3. q[p] = c[p - (k + 1)]
        BY <1>70, <1>71, <2>2
      <3> QED BY <1>70, <2>2, <3>2, <3>3
    <2>3. p \in Int /\ k \in Int
      BY <1>70
    <2> QED BY <2>1, <2>2, <2>3
  <1>9. Inserted(t) = q
    BY DEF Inserted, k, a, c, q, L
  <1>10. q \in Seq(Tasks) /\ DOMAIN q = 1 .. L + 1
    BY <1>7, LenProperties DEF q
  <1> QED BY <1>2, <1>8, <1>9, <1>10 DEF L, k

\* In the queue a more urgent task stands before a less urgent one.
Sorted == \A i, j \in DOMAIN queue : i < j => Behind(queue[i], queue[j])

\* In a sorted queue the entries that are at least as urgent as t are the first
\* k, where k is how many there are.
LEMMA UrgentOnesComeFirst ==
    ASSUME queue \in Seq(Tasks), Sorted, NEW t \in Tasks, NEW p \in DOMAIN queue
    PROVE  p <= Cardinality({i \in DOMAIN queue : Behind(queue[i], t)})
              <=> Behind(queue[p], t)
  <1> DEFINE S == {i \in DOMAIN queue : Behind(queue[i], t)}
             L == Len(queue)
  <1>1. L \in Nat /\ DOMAIN queue = 1 .. L /\ \A i \in 1 .. L : queue[i] \in Tasks
    BY LenProperties
  <1>2. Priority[t] \in Int /\ \A i \in 1 .. L : Priority[queue[i]] \in Int
    BY <1>1, TasksAssumption
  <1> HIDE DEF L
  <1>3. p \in 1 .. L /\ p \in Int /\ p - 1 \in Int
    BY <1>1
  <1>4. S \subseteq 1 .. L /\ IsFiniteSet(S)
    <2>1. S \subseteq 1 .. L
      BY <1>1
    <2>2. IsFiniteSet(1 .. L)
      BY <1>1, FS_Interval
    <2> HIDE DEF S
    <2> QED BY <2>1, <2>2, FS_Subset
  <1>5. \A i, j \in 1 .. L : i < j /\ j \in S => i \in S
    BY <1>1, <1>2 DEF Sorted, Behind
  <1>6. CASE p \in S
    <2>1. ASSUME NEW i \in 1 .. p PROVE i \in S
      <3>1. i \in 1 .. L /\ (i < p \/ i = p)
        BY <1>1, <1>3
      <3> HIDE DEF S
      <3> QED BY <1>3, <1>5, <1>6, <3>1
    <2>2. Cardinality(1 .. p) = p
      BY <1>3, FS_Interval
    <2>3. Cardinality(1 .. p) <= Cardinality(S)
      BY <1>4, <2>1, FS_Subset
    <2> QED BY <1>6, <2>2, <2>3
  <1>7. CASE p \notin S
    <2>1. S \subseteq 1 .. p - 1
      BY <1>3, <1>4, <1>5, <1>7
    <2>2. IsFiniteSet(1 .. p - 1) /\ Cardinality(1 .. p - 1) = p - 1
      BY <1>3, FS_Interval
    <2>3. Cardinality(S) <= p - 1 /\ Cardinality(S) \in Nat
      BY <1>4, <2>1, <2>2, FS_Subset, FS_CardinalityType
    <2>4. ~(p <= Cardinality(S))
      BY <1>3, <2>3
    <2> QED BY <1>1, <1>3, <1>7, <2>4
  <1> QED BY <1>6, <1>7

\* An entry is in the queue once at most.
Once(u) == \A i, j \in DOMAIN queue : queue[i] = u /\ queue[j] = u => i = j

\* enqueue() puts the task into the queue, takes nobody out, doubles nobody, and
\* writes no state but that of the task.
LEMMA EnqueueEffect ==
    ASSUME TypeOK, NEW t \in Tasks, Enqueue(t)
    PROVE  /\ queue' \in Seq(Tasks)
           /\ st' \in [Tasks -> TaskStates]
           /\ cleared' = cleared \ {t}
           /\ Queued(t)'
           /\ \A u \in Tasks : Queued(u) => Queued(u)'
           /\ \A u \in Tasks \ {t} : Queued(u)' => Queued(u)
           /\ \A u \in Tasks : Once(u) => Once(u)'
           /\ \A u \in Tasks \ {t} : st'[u] = st[u]
           /\ st'[t] \in {st[t], "QUEUED"}
           /\ ~Queued(t) => st'[t] = "QUEUED" \/ Overflows(t)
  <1>1. queue \in Seq(Tasks) /\ Len(queue) \in Nat /\ DOMAIN queue = 1 .. Len(queue)
    BY LenProperties DEF TypeOK
  <1>2. /\ st' \in [Tasks -> TaskStates]
        /\ cleared' = cleared \ {t}
        /\ \A u \in Tasks \ {t} : st'[u] = st[u]
        /\ st'[t] \in {st[t], "QUEUED"}
        /\ ~Queued(t) => st'[t] = "QUEUED" \/ Overflows(t)
    BY DEF TypeOK, Enqueue, TaskStates
  <1>3. CASE Queued(t)
    <2>1. queue' = queue
      BY <1>3 DEF Enqueue
    <2> QED BY <1>1, <1>2, <1>3, <2>1 DEF Queued, Once
  <1>4. CASE ~Queued(t)
    <2>1. queue' = Inserted(t)
      BY <1>4 DEF Enqueue
    <2>2. PICK k \in 0 .. Len(queue) : \A p \in 1 .. Len(queue) + 1 :
                queue'[p] = IF p <= k THEN queue[p]
                            ELSE IF p = k + 1 THEN t ELSE queue[p - 1]
      BY <1>1, <2>1, InsertedProperties
    <2>3. queue' \in Seq(Tasks) /\ DOMAIN queue' = 1 .. Len(queue) + 1
      BY <1>1, <2>1, InsertedProperties
    <2>4. Queued(t)'
      <3>1. k + 1 \in 1 .. Len(queue) + 1 /\ ~(k + 1 <= k)
        BY <1>1
      <3>2. queue'[k + 1] = t
        BY <2>2, <3>1
      <3> QED BY <2>3, <3>1, <3>2 DEF Queued
    <2>5. ASSUME NEW u \in Tasks, Queued(u) PROVE Queued(u)'
      <3>1. PICK i \in 1 .. Len(queue) : queue[i] = u
        BY <1>1, <2>5 DEF Queued
      <3>2. CASE i <= k
        BY <1>1, <2>2, <2>3, <3>1, <3>2 DEF Queued
      <3>3. CASE i > k
        <4>1. queue'[i + 1] = u /\ i + 1 \in DOMAIN queue'
          BY <1>1, <2>2, <2>3, <3>1, <3>3
        <4> QED BY <4>1 DEF Queued
      <3> QED BY <3>2, <3>3
    <2>6. ASSUME NEW u \in Tasks \ {t}, Queued(u)' PROVE Queued(u)
      BY <1>1, <2>2, <2>3, <2>6 DEF Queued
    <2>7. ASSUME NEW u \in Tasks, Once(u) PROVE Once(u)'
      <3> SUFFICES ASSUME NEW i \in 1 .. Len(queue) + 1, NEW j \in 1 .. Len(queue) + 1,
                          queue'[i] = u, queue'[j] = u
                   PROVE  i = j
        BY <2>3 DEF Once
      <3>1. CASE u = t
        <4>1. \A p \in 1 .. Len(queue) : queue[p] # t
          BY <1>1, <1>4 DEF Queued
        <4>2. \A p \in 1 .. Len(queue) + 1 : queue'[p] = t => p = k + 1
          BY <1>1, <2>2, <4>1
        <4> QED BY <3>1, <4>2
      <3>2. CASE u # t
        <4>1. \A p, q \in 1 .. Len(queue) : queue[p] = u /\ queue[q] = u => p = q
          BY <1>1, <2>7 DEF Once
        <4> QED BY <1>1, <2>2, <3>2, <4>1
      <3> QED BY <3>1, <3>2
    <2> QED BY <1>2, <1>4, <2>3, <2>4, <2>5, <2>6, <2>7
  <1> QED BY <1>3, <1>4

-----------------------------------------------------------------------------
(* Types                                                                    *)

\* A tick that is under way has a task.
TicksHoldTasks == \A i \in Ticks : pc[i] # "idle" => taken[i] \in Tasks

Typed == TypeOK /\ TicksHoldTasks

LEMMA BoundsAreNaturals == MaxRetries \in Nat /\ MaxCalls \in Nat
  BY LimitsAssumption

LEMMA TypedInit == Init => Typed
  <1>1. 0 \in 0..MaxRetries /\ 0 \in 0..MaxCalls
    BY BoundsAreNaturals
  <1>2. "NEW" \in TaskStates
    BY DEF TaskStates
  <1>3. ASSUME Init PROVE queue \in Seq(Tasks)
    BY <1>3, EmptySeq DEF Init
  <1>4. ASSUME Init PROVE st \in [Tasks -> TaskStates] /\ retries \in [Tasks -> 0..MaxRetries]
    BY <1>1, <1>2, <1>4 DEF Init
  <1>5. ASSUME Init PROVE pc \in [Ticks -> {"idle"}] /\ taken \in [Ticks -> {None}]
    BY <1>5 DEF Init
  <1>6. ASSUME Init PROVE /\ arming \in Nat /\ overlap \in Nat
                         /\ timer \in BOOLEAN /\ orphaned \in BOOLEAN
    BY <1>6 DEF Init
  <1> QED BY <1>1, <1>3, <1>4, <1>5, <1>6 DEF Init, Typed, TypeOK, TicksHoldTasks

\* Only start() and stop() touch the timer.
LEMMA TimersTyped ==
    ASSUME TypeOK, [Next]_vars
    PROVE  arming' \in Nat /\ timer' \in BOOLEAN /\ orphaned' \in BOOLEAN
  <1>1. arming \in Nat /\ timer \in BOOLEAN /\ orphaned \in BOOLEAN
    BY DEF TypeOK
  <1>2. CASE UNCHANGED timerVars
    BY <1>1, <1>2 DEF timerVars
  <1>3. CASE Start
    BY <1>1, <1>3 DEF Start
  <1>4. CASE Stop
    BY <1>1, <1>4 DEF Stop
  <1>5. CASE TimerSet
    <2>1. arming > 0 /\ arming' = arming - 1 /\ timer' = TRUE /\ orphaned' = (orphaned \/ timer)
      BY <1>5 DEF TimerSet
    <2>2. arming' \in Nat
      BY <1>1, <2>1
    <2>3. orphaned' \in BOOLEAN
      BY <2>1
    <2> QED BY <2>1, <2>2, <2>3
  <1>6. ASSUME NEW t \in Tasks,
               \/ Recover(t) \/ CreateTask(t) \/ DeleteTask(t) \/ SetState(t)
               \/ EnqueueTask(t) \/ ExecuteTask(t) \/ TriggerFires(t)
        PROVE  UNCHANGED timerVars
    BY <1>6 DEF Recover, CreateTask, DeleteTask, SetState, EnqueueTask, ExecuteTask,
         TriggerFires
  <1>7. ASSUME NEW i \in Ticks, TickTakes(i) \/ Tick(i)
        PROVE  UNCHANGED timerVars
    BY <1>7 DEF TickTakes, Tick, TickDrops, TickMisses, TickPutsBack, TickSkips,
         TickExecutes, TickRegisters, TickCompletes, TickDeregisters, TickFails
  <1>8. CASE \/ Initialize \/ RecoveryFails \/ Initialized \/ Stopped \/ Withdraw
             \/ UNCHANGED vars
    BY <1>2, <1>8 DEF Initialize, RecoveryFails, Initialized, Stopped, Withdraw, vars
  <1> QED BY <1>2, <1>3, <1>4, <1>5, <1>6, <1>7, <1>8 DEF Next, Lifecycle

LEMMA Finiteness ==
    ASSUME TypeOK
    PROVE  /\ IsFiniteSet(active) /\ Cardinality(active) \in Nat
           /\ IsFiniteSet(At(InHand)) /\ Cardinality(At(InHand)) \in Nat
  <1>1. IsFiniteSet(active) /\ Cardinality(active) \in Nat
    BY TasksAssumption, FS_Subset, FS_CardinalityType DEF TypeOK
  <1>2. IsFiniteSet(Ticks)
    BY LimitsAssumption, FS_Interval DEF Ticks
  <1>3. At(InHand) \in SUBSET Ticks
    BY DEF At
  <1> QED BY <1>1, <1>2, <1>3, FS_Subset, FS_CardinalityType

LEMMA TypedStep == ASSUME Typed, [Next]_vars PROVE Typed'
  <1> USE DEF Typed
  <1>t. arming' \in Nat /\ timer' \in BOOLEAN /\ orphaned' \in BOOLEAN
    BY TimersTyped
  <1>0. TypeOK /\ calls < MaxCalls => calls + 1 \in 0..MaxCalls
    BY BoundsAreNaturals DEF TypeOK
  <1>1. CASE \/ Initialize \/ RecoveryFails \/ Start \/ TimerSet \/ Stop \/ Initialized
             \/ Stopped
    <2>1. unfinished' \in (SUBSET Tasks) \cup {None} /\ recovering' \subseteq Tasks
      BY <1>1 DEF Initialize, RecoveryFails, Start, TimerSet, Stop, Initialized, Stopped,
           TypeOK, storeVars, Unfinished
    <2>2. /\ state' \in {"INITIALIZING", "RUNNING", "STOPPING", "STOPPED", "FAILED", state}
          /\ calls' \in 0..MaxCalls
      BY <1>0, <1>1 DEF Initialize, RecoveryFails, Start, TimerSet, Stop, Initialized,
           Stopped, TypeOK, userVars
    <2>3. UNCHANGED <<taskVars, queue, tickVars, disturbed, cleared, stray, completed,
                      overlap>>
      BY <1>1 DEF Initialize, RecoveryFails, Start, TimerSet, Stop, Initialized, Stopped,
           userVars
    <2> QED BY <1>t, <2>1, <2>2, <2>3 DEF TypeOK, TicksHoldTasks, taskVars, tickVars
  <1>2. CASE \E t \in Tasks : Recover(t)
    <2>1. PICK t \in Tasks : Recover(t)
      BY <1>2
    <2>2. CASE Enqueue(t)
      BY <1>t, <2>1, <2>2, EnqueueEffect DEF Recover, TypeOK, TicksHoldTasks, tickVars
    <2>3. CASE UNCHANGED <<queue, st, state, disturbed, cleared>>
      BY <1>t, <2>1, <2>3 DEF Recover, TypeOK, TicksHoldTasks, tickVars
    <2> QED BY <1>t, <2>1, <2>2, <2>3 DEF Recover
  <1>3. ASSUME NEW t \in Tasks, CreateTask(t) \/ DeleteTask(t) \/ SetState(t) PROVE Typed'
    <2>1. {"PENDING", "WAITING", "CANCELLED", "SKIPPED"} \subseteq TaskStates
      BY DEF TaskStates
    <2>2. st' \in [Tasks -> TaskStates]
      <3>1. st' = st \/ \E s \in TaskStates : st' = [st EXCEPT ![t] = s]
        BY <1>3, <2>1 DEF CreateTask, DeleteTask, SetState
      <3> QED BY <3>1 DEF TypeOK
    <2>3. calls' \in 0..MaxCalls
      <3>1. calls' = calls \/ (calls < MaxCalls /\ calls' = calls + 1)
        BY <1>3 DEF CreateTask, DeleteTask, SetState, userVars
      <3> QED BY <1>0, <3>1 DEF TypeOK
    <2>4. known' \subseteq Tasks /\ disturbed' \subseteq Tasks
      BY <1>3 DEF CreateTask, DeleteTask, SetState, TypeOK, userVars
    <2>5. UNCHANGED <<state, retries, queue, pc, taken, direct, active, unfinished,
                      recovering, completed, cleared, stray, overlap>>
      BY <1>3 DEF CreateTask, DeleteTask, SetState, tickVars, storeVars, userVars
    <2> QED BY <1>t, <2>2, <2>3, <2>4, <2>5 DEF TypeOK, TicksHoldTasks
  <1>4. ASSUME NEW t \in Tasks, EnqueueTask(t) \/ TriggerFires(t) PROVE Typed'
    <2>1. TypeOK /\ Enqueue(t)
      BY <1>4 DEF EnqueueTask, TriggerFires
    <2>2. queue' \in Seq(Tasks) /\ st' \in [Tasks -> TaskStates] /\ cleared' = cleared \ {t}
      BY <2>1, EnqueueEffect
    <2>3. calls' \in 0..MaxCalls /\ disturbed' \subseteq Tasks
      BY <1>0, <1>4 DEF EnqueueTask, TriggerFires, TypeOK
    <2>4. UNCHANGED <<state, known, retries, tickVars, storeVars, stray, completed, overlap>>
      BY <1>4 DEF EnqueueTask, TriggerFires
    <2> QED BY <1>t, <2>2, <2>3, <2>4 DEF TypeOK, TicksHoldTasks, tickVars, storeVars
  <1>5. CASE Withdraw
    <2>1. queue \in Seq(Tasks) /\ queue # <<>>
      BY <1>5 DEF Withdraw, TypeOK
    <2>2. Head(queue) \in Tasks /\ Tail(queue) \in Seq(Tasks)
      BY <2>1, HeadTailProperties
    <2>3. queue' \in Seq(Tasks) /\ cleared' \subseteq Tasks /\ calls' \in 0..MaxCalls
      BY <1>0, <1>5, <2>2, EmptySeq DEF Withdraw, TypeOK
    <2>4. UNCHANGED <<state, taskVars, tickVars, storeVars, completed, disturbed, stray,
                      overlap>>
      BY <1>5 DEF Withdraw
    <2> QED BY <1>t, <2>3, <2>4 DEF TypeOK, TicksHoldTasks, taskVars, tickVars, storeVars
  <1>6. ASSUME NEW i \in Ticks, TickTakes(i) PROVE Typed'
    <2>1. queue \in Seq(Tasks) /\ queue # <<>>
      BY <1>6 DEF TickTakes, TypeOK
    <2>2. Head(queue) \in Tasks /\ Tail(queue) \in Seq(Tasks)
      BY <2>1, HeadTailProperties
    <2>3. /\ pc' = [pc EXCEPT ![i] = "holding"] /\ taken' = [taken EXCEPT ![i] = Head(queue)]
          /\ queue' = Tail(queue)
          /\ UNCHANGED <<state, taskVars, direct, active, storeVars, userVars, completed>>
      BY <1>6 DEF TickTakes
    <2>4. overlap' \in Nat
      <3>1. overlap \in Nat /\ Cardinality(At(InHand)) \in Nat
        BY Finiteness DEF TypeOK
      <3>2. overlap' \in {Cardinality(At(InHand)) + 1, overlap}
        BY <1>6 DEF TickTakes
      <3> QED BY <3>1, <3>2
    <2> QED BY <1>t, <2>2, <2>3, <2>4 DEF TypeOK, TicksHoldTasks, taskVars, storeVars, userVars
  <1>7. ASSUME NEW i \in Ticks, TickDrops(i) \/ TickSkips(i) PROVE Typed'
    <2>1. st' \in [Tasks -> TaskStates]
      <3>1. st' = st \/ st' = [st EXCEPT ![taken[i]] = "SKIPPED"]
        BY <1>7 DEF TickDrops, TickSkips, taskVars
      <3> QED BY <3>1 DEF TypeOK, TaskStates
    <2>2. UNCHANGED <<state, known, retries, queue, active, storeVars, userVars, completed,
                      overlap>>
      BY <1>7 DEF TickDrops, TickSkips, taskVars
    <2>3. TickEnds(i)
      BY <1>7 DEF TickDrops, TickSkips
    <2> QED BY <1>t, <2>1, <2>2, <2>3 DEF TickEnds, TypeOK, TicksHoldTasks, storeVars, userVars
  <1>8. ASSUME NEW i \in Ticks, TickPutsBack(i) PROVE Typed'
    <2>1. taken[i] \in Tasks /\ Enqueue(taken[i])
      BY <1>8 DEF TickPutsBack, PutBack, TypeOK
    <2> QED BY <1>t, <1>8, <2>1, EnqueueEffect DEF TickPutsBack, TickEnds, TypeOK, TicksHoldTasks,
              storeVars
  <1>9. ASSUME NEW i \in Ticks, TickExecutes(i) \/ TickCompletes(i) PROVE Typed'
    <2>1. {"RUNNING", "COMPLETED"} \subseteq TaskStates /\ taken[i] \in Tasks
      BY <1>9 DEF TickExecutes, TickCompletes, TaskStates, TypeOK
    <2>2. st' \in [Tasks -> TaskStates]
      BY <1>9, <2>1 DEF TickExecutes, TickCompletes, TypeOK
    <2> QED BY <1>t, <1>9, <2>1, <2>2 DEF TickExecutes, TickCompletes, TypeOK, TicksHoldTasks,
              storeVars, userVars
  <1>10. ASSUME NEW i \in Ticks, TickRegisters(i) \/ TickDeregisters(i) PROVE Typed'
    <2>1. active' \subseteq Tasks
      BY <1>10 DEF TickRegisters, TickDeregisters, TypeOK, TicksHoldTasks
    <2>2. UNCHANGED <<state, taskVars, queue, storeVars, userVars, completed, overlap>>
      BY <1>10 DEF TickRegisters, TickDeregisters
    <2>3. \/ TickEnds(i)
          \/ /\ taken' = taken /\ direct' = direct
             /\ pc[i] = "starting" /\ pc' = [pc EXCEPT ![i] = "executing"]
      BY <1>10 DEF TickRegisters, TickDeregisters
    <2> QED BY <1>t, <2>1, <2>2, <2>3 DEF TickEnds, TypeOK, TicksHoldTasks, taskVars, storeVars,
              userVars
  <1>11. ASSUME NEW i \in Ticks, TickFails(i) \/ TickMisses(i) PROVE Typed'
    <2>1. taken[i] \in Tasks /\ {"PENDING", "FAILED", "COMPLETED"} \subseteq TaskStates
      BY <1>11 DEF TickFails, TickMisses, TicksHoldTasks, TaskStates
    <2>2. retries[taken[i]] \in 0..MaxRetries
      BY <2>1 DEF TypeOK
    <2>3. MayRetry(taken[i]) => retries[taken[i]] + 1 \in 0..MaxRetries
      BY <2>2, LimitsAssumption DEF MayRetry
    <2>4. st' \in [Tasks -> TaskStates] /\ retries' \in [Tasks -> 0..MaxRetries]
      <3>1. st \in [Tasks -> TaskStates] /\ retries \in [Tasks -> 0..MaxRetries]
        BY DEF TypeOK
      <3>2. CASE RetryOrFail(taken[i])
        <4> DEFINE t == taken[i]
        <4>1. CASE MayRetry(t)
          <5>1. /\ retries' = [retries EXCEPT ![t] = retries[t] + 1]
                /\ st' = [st EXCEPT ![t] = "PENDING"]
            BY <3>2, <4>1 DEF RetryOrFail
          <5> HIDE DEF t
          <5> QED BY <2>1, <2>3, <3>1, <4>1, <5>1 DEF t
        <4>2. CASE ~MayRetry(t)
          BY <2>1, <3>1, <3>2, <4>2 DEF RetryOrFail
        <4> QED BY <4>1, <4>2
      <3>3. CASE st' = [st EXCEPT ![taken[i]] = "COMPLETED"] /\ retries' = retries
        BY <2>1, <3>1, <3>3
      <3> QED BY <1>11, <3>2, <3>3 DEF TickFails, TickMisses
    <2>5. completed' \subseteq Tasks /\ active' \subseteq Tasks
      BY <1>11, <2>1 DEF TickFails, TickMisses, TypeOK
    <2>6. TickEnds(i) /\ UNCHANGED <<state, known, queue, storeVars, userVars, overlap>>
      BY <1>11 DEF TickFails, TickMisses
    <2> QED BY <1>t, <2>4, <2>5, <2>6 DEF TickEnds, TypeOK, TicksHoldTasks, storeVars, userVars
  <1>12. ASSUME NEW t \in Tasks, ExecuteTask(t) PROVE Typed'
    <2>1. /\ st' \in [Tasks -> TaskStates] /\ disturbed' \subseteq Tasks
          /\ calls' \in 0..MaxCalls /\ stray' \subseteq Tasks
      BY <1>0, <1>12 DEF ExecuteTask, TypeOK, TaskStates
    <2>2. UNCHANGED <<state, known, retries, queue, storeVars, cleared, completed, overlap>>
      BY <1>12 DEF ExecuteTask
    <2>3. CASE UNCHANGED tickVars
      BY <1>t, <2>1, <2>2, <2>3 DEF TypeOK, TicksHoldTasks, tickVars, storeVars
    <2>4. ASSUME NEW i \in Ticks, pc' = [pc EXCEPT ![i] = "starting"],
                 taken' = [taken EXCEPT ![i] = t], direct' = direct \cup {i}, active' = active
          PROVE  Typed'
      BY <1>t, <2>1, <2>2, <2>4 DEF TypeOK, TicksHoldTasks, storeVars
    <2> QED BY <1>12, <2>3, <2>4 DEF ExecuteTask
  <1>13. CASE UNCHANGED vars
    BY <1>t, <1>13 DEF vars, taskVars, tickVars, storeVars, userVars, TypeOK, TicksHoldTasks
  <1> QED BY <1>1, <1>2, <1>3, <1>4, <1>5, <1>6, <1>7, <1>8, <1>9, <1>10, <1>11, <1>12, <1>13
         DEF Next, Lifecycle, Tick

\* Every variable stays in its range; in particular no task is retried more
\* often than its policy says (shouldRetry).
THEOREM TypeCorrect == Spec => []TypeOK
  <1>1. Typed => TypeOK
    BY DEF Typed
  <1> QED BY <1>1, TypedInit, TypedStep, PTL DEF Spec


-----------------------------------------------------------------------------
(* No task is stranded                                                      *)

\* dequeue() takes the first entry and leaves the others.
LEMMA TailEffect ==
    ASSUME TypeOK, queue # <<>>, queue' = Tail(queue)
    PROVE  /\ Head(queue) \in Tasks
           /\ \E j \in DOMAIN queue : queue[j] = Head(queue)
           /\ \A u \in Tasks \ {Head(queue)} : Queued(u) => Queued(u)'
           /\ \A u \in Tasks : Queued(u)' => Queued(u)
           /\ \A u \in Tasks : Once(u) => Once(u)'
           /\ \A u \in Tasks : u = Head(queue) /\ Once(u) => ~Queued(u)'
  <1> DEFINE L == Len(queue)
             r == Tail(queue)
  <1>1. queue \in Seq(Tasks) /\ L \in Nat /\ DOMAIN queue = 1 .. L
    BY LenProperties DEF TypeOK
  <1>2. /\ Head(queue) = queue[1] /\ Head(queue) \in Tasks
        /\ r \in Seq(Tasks) /\ Len(r) = L - 1
        /\ \A i \in 1 .. Len(r) : r[i] = queue[i + 1]
    BY <1>1, HeadTailProperties
  <1>3. L # 0
    BY <1>1, EmptySeq
  <1>4. DOMAIN r = 1 .. L - 1 /\ \A i \in 1 .. L - 1 : r[i] = queue[i + 1]
    BY <1>2, LenProperties
  <1> HIDE DEF L, r
  <1>5. 1 \in DOMAIN queue /\ queue[1] = Head(queue)
    BY <1>1, <1>2, <1>3
  <1>6. ASSUME NEW u \in Tasks \ {Head(queue)}, Queued(u) PROVE Queued(u)'
    <2>1. PICK j \in 1 .. L : queue[j] = u
      BY <1>1, <1>6 DEF Queued
    <2>2. j - 1 \in 1 .. L - 1 /\ (j - 1) + 1 = j
      BY <1>1, <1>5, <2>1
    <2>3. r[j - 1] = u
      BY <1>4, <2>1, <2>2
    <2> QED BY <1>4, <2>2, <2>3 DEF Queued, r
  <1>7. \A i \in 1 .. L - 1 : i + 1 \in 1 .. L
    BY <1>1
  <1>8. ASSUME NEW u \in Tasks, Queued(u)' PROVE Queued(u)
    BY <1>1, <1>4, <1>7, <1>8 DEF Queued, r
  <1>9. ASSUME NEW u \in Tasks, Once(u) PROVE Once(u)'
    <2>1. \A i, j \in 1 .. L - 1 : queue[i + 1] = u /\ queue[j + 1] = u => i + 1 = j + 1
      BY <1>1, <1>7, <1>9 DEF Once
    <2>2. \A i, j \in 1 .. L - 1 : i + 1 = j + 1 => i = j
      BY <1>1
    <2>3. queue' = r
      BY DEF r
    <2>4. ASSUME NEW i \in DOMAIN queue', NEW j \in DOMAIN queue',
                 queue'[i] = u, queue'[j] = u
          PROVE  i = j
      <3>1. i \in 1 .. L - 1 /\ j \in 1 .. L - 1 /\ r[i] = u /\ r[j] = u
        BY <1>4, <2>3, <2>4
      <3>2. queue[i + 1] = u /\ queue[j + 1] = u
        BY <1>4, <3>1
      <3> QED BY <2>1, <2>2, <3>1, <3>2
    <2> QED BY <2>4 DEF Once
  <1>10. ASSUME NEW u \in Tasks, u = Head(queue), Once(u) PROVE ~Queued(u)'
    <2>1. ASSUME NEW i \in 1 .. L - 1 PROVE queue[i + 1] # u
      <3>1. i + 1 \in DOMAIN queue /\ i + 1 # 1
        BY <1>1, <1>7
      <3> QED BY <1>5, <1>10, <3>1 DEF Once
    <2> QED BY <1>4, <2>1 DEF Queued, r
  <1> QED BY <1>2, <1>5, <1>6, <1>8, <1>9, <1>10

\* NoStrandedTask, with the sets of ticks written out.
Held(t) == \E i \in Ticks : pc[i] = "holding" /\ taken[i] = t
Runs(t) == \E i \in Ticks : pc[i] \in {"starting", "executing"} /\ taken[i] = t

StrandedInv ==
    /\ \A t \in known : st[t] = "QUEUED" => Queued(t) \/ t \in cleared \/ Held(t)
    /\ \A t \in Tasks : st[t] = "RUNNING" => t \in stray \/ Runs(t)

LEMMA StrandedIsInv == StrandedInv <=> NoStrandedTask
  BY DEF StrandedInv, NoStrandedTask, Held, Runs, At, Executing

\* An enqueue strands nobody.
LEMMA EnqueueStrandsNobody ==
    ASSUME Typed, StrandedInv, NEW t \in Tasks, Enqueue(t),
           \A u \in Tasks \ {t} : Held(u) => Held(u)',
           \A u \in Tasks : Runs(u) => Runs(u)',
           stray' = stray, known' \in SUBSET (known \cup {t})
    PROVE  StrandedInv'
  <1>1. known \subseteq Tasks
    BY DEF Typed, TypeOK
  <1>2. TypeOK
    BY DEF Typed
  <1>3. /\ cleared' = cleared \ {t} /\ Queued(t)'
        /\ \A u \in Tasks : Queued(u) => Queued(u)'
        /\ \A u \in Tasks \ {t} : st'[u] = st[u]
        /\ st'[t] \in {st[t], "QUEUED"}
    BY <1>2, EnqueueEffect
  <1>4. ASSUME NEW u \in Tasks, st'[u] = "RUNNING" PROVE u \in stray' \/ Runs(u)'
    <2>1. st[u] = "RUNNING"
      BY <1>3, <1>4
    <2> QED BY <2>1 DEF StrandedInv
  <1>5. ASSUME NEW u \in known', st'[u] = "QUEUED"
        PROVE  Queued(u)' \/ u \in cleared' \/ Held(u)'
    <2>1. CASE u = t
      BY <1>3, <2>1
    <2>2. CASE u # t
      <3>1. u \in known /\ u \in Tasks /\ st[u] = "QUEUED"
        BY <1>1, <1>3, <1>5, <2>2
      <3>2. Queued(u) \/ u \in cleared \/ Held(u)
        BY <3>1 DEF StrandedInv
      <3> QED BY <1>3, <2>2, <3>1, <3>2
    <2> QED BY <2>1, <2>2
  <1> QED BY <1>4, <1>5 DEF StrandedInv

\* dequeue() and clearQueue() take tasks out of the queue, and put none into it.
LEMMA WithdrawEffect ==
    ASSUME TypeOK, Withdraw
    PROVE  /\ \A u \in Tasks : Queued(u) => Queued(u)' \/ u \in cleared'
           /\ \A u \in Tasks : Queued(u)' => Queued(u)
           /\ \A u \in Tasks : Once(u) => Once(u)'
           /\ cleared \subseteq cleared'
  <1>1. CASE queue' = Tail(queue) /\ cleared' = cleared \cup {Head(queue)}
    BY <1>1, TailEffect DEF Withdraw
  <1>2. CASE queue' = <<>> /\ cleared' = cleared \cup {t \in Tasks : Queued(t)}
    BY <1>2 DEF Queued, Once
  <1> QED BY <1>1, <1>2 DEF Withdraw

LEMMA StrandedStep == ASSUME Typed, StrandedInv, [Next]_vars PROVE StrandedInv'
  <1>0. TypeOK /\ TicksHoldTasks /\ known \subseteq Tasks
    BY DEF Typed, TypeOK
  <1>1. CASE \/ Initialize \/ RecoveryFails \/ Start \/ Stop \/ Initialized \/ TimerSet
             \/ Stopped \/ UNCHANGED vars
    BY <1>1 DEF Initialize, RecoveryFails, Start, Stop, Initialized, TimerSet, Stopped,
         StrandedInv, Held, Runs, Queued, vars, taskVars, tickVars, userVars
  <1>2. ASSUME NEW t \in Tasks, Recover(t) PROVE StrandedInv'
    <2>1. CASE Enqueue(t)
      BY <1>2, <2>1, EnqueueStrandsNobody DEF Recover, tickVars, Held, Runs
    <2>2. CASE UNCHANGED <<queue, st, state, disturbed, cleared>>
                /\ st[t] \notin {"QUEUED", "RUNNING"}
      BY <1>2, <2>2 DEF Recover, StrandedInv, Held, Runs, Queued, tickVars
    <2> QED BY <1>2, <2>1, <2>2 DEF Recover
  <1>3. ASSUME NEW t \in Tasks, CreateTask(t) \/ DeleteTask(t) \/ SetState(t)
        PROVE  StrandedInv'
    <2>1. /\ \A u \in Tasks : st'[u] \in {"QUEUED", "RUNNING"} => st'[u] = st[u]
          /\ \A u \in known' : u \in known \/ st'[u] = "PENDING"
          /\ UNCHANGED <<queue, pc, taken, cleared, stray>> /\ known' \subseteq Tasks
      BY <1>0, <1>3 DEF CreateTask, DeleteTask, SetState, tickVars, userVars, TypeOK
    <2>2. \A u : (Held(u) => Held(u)') /\ (Runs(u) => Runs(u)') /\ (Queued(u) => Queued(u)')
      BY <2>1 DEF Held, Runs, Queued
    <2> QED BY <2>1, <2>2 DEF StrandedInv
  <1>4. ASSUME NEW t \in Tasks, EnqueueTask(t) \/ TriggerFires(t) PROVE StrandedInv'
    <2>1. Enqueue(t) /\ known' = known /\ pc' = pc /\ taken' = taken /\ stray' = stray
      BY <1>4 DEF EnqueueTask, TriggerFires, tickVars
    <2>2. \A u : (Held(u) => Held(u)') /\ (Runs(u) => Runs(u)')
      BY <2>1 DEF Held, Runs
    <2> QED BY <2>1, <2>2, EnqueueStrandsNobody
  <1>5. CASE Withdraw
    <2>1. /\ \A u \in Tasks : Queued(u) => Queued(u)' \/ u \in cleared'
          /\ cleared \subseteq cleared'
          /\ UNCHANGED <<known, st, pc, taken, stray>>
      BY <1>0, <1>5, WithdrawEffect DEF Withdraw, taskVars, tickVars
    <2>2. \A u : (Held(u) => Held(u)') /\ (Runs(u) => Runs(u)')
      BY <2>1 DEF Held, Runs
    <2>3. ASSUME NEW u \in known', st'[u] = "QUEUED"
          PROVE  Queued(u)' \/ u \in cleared' \/ Held(u)'
      BY <1>0, <2>1, <2>2, <2>3 DEF StrandedInv
    <2>4. ASSUME NEW u \in Tasks, st'[u] = "RUNNING" PROVE u \in stray' \/ Runs(u)'
      BY <2>1, <2>2, <2>4 DEF StrandedInv
    <2> QED BY <2>3, <2>4 DEF StrandedInv
  <1>6. ASSUME NEW i \in Ticks, TickTakes(i) PROVE StrandedInv'
    <2>1. /\ pc[i] = "idle" /\ pc' = [pc EXCEPT ![i] = "holding"]
          /\ taken' = [taken EXCEPT ![i] = Head(queue)]
          /\ queue # <<>> /\ queue' = Tail(queue)
          /\ UNCHANGED <<known, st, cleared, stray>>
      BY <1>6 DEF TickTakes, LowestIdle, taskVars, userVars
    <2>2. \A u \in Tasks \ {Head(queue)} : Queued(u) => Queued(u)'
      BY <1>0, <2>1, TailEffect
    <2>3. \A u \in Tasks : u = Head(queue) => Held(u)'
      BY <1>0, <2>1 DEF Held, TypeOK
    <2>4. \A u : (Held(u) => Held(u)') /\ (Runs(u) => Runs(u)')
      BY <1>0, <2>1 DEF Held, Runs, TypeOK
    <2>5. ASSUME NEW u \in known', st'[u] = "QUEUED"
          PROVE  Queued(u)' \/ u \in cleared' \/ Held(u)'
      BY <1>0, <2>1, <2>2, <2>3, <2>4, <2>5 DEF StrandedInv
    <2>6. ASSUME NEW u \in Tasks, st'[u] = "RUNNING" PROVE u \in stray' \/ Runs(u)'
      BY <2>1, <2>4, <2>6 DEF StrandedInv
    <2> QED BY <2>5, <2>6 DEF StrandedInv
  <1>7. ASSUME NEW i \in Ticks, TickDrops(i) \/ TickSkips(i) PROVE StrandedInv'
    <2>1. \A u : (Held(u) /\ u # taken[i] => Held(u)') /\ (Runs(u) => Runs(u)')
      BY <1>0, <1>7 DEF TickDrops, TickSkips, TickEnds, Held, Runs, TypeOK
    <2> QED BY <1>0, <1>7, <2>1 DEF TickDrops, TickSkips, StrandedInv, Queued, TypeOK,
              taskVars, userVars
  <1>8. ASSUME NEW i \in Ticks, TickPutsBack(i) PROVE StrandedInv'
    <2>1. taken[i] \in Tasks /\ Enqueue(taken[i]) /\ known' = known /\ stray' = stray
      BY <1>0, <1>8 DEF TickPutsBack, PutBack
    <2>2. \A u : (Held(u) /\ u # taken[i] => Held(u)') /\ (Runs(u) => Runs(u)')
      BY <1>0, <1>8 DEF TickPutsBack, TickEnds, Held, Runs, TypeOK
    <2> QED BY <2>1, <2>2, EnqueueStrandsNobody
  <1>9. ASSUME NEW i \in Ticks, TickExecutes(i) PROVE StrandedInv'
    <2>1. \A u : (Held(u) /\ u # taken[i] => Held(u)') /\ (Runs(u) => Runs(u)')
      BY <1>0, <1>9 DEF TickExecutes, Held, Runs, TypeOK
    <2>2. Runs(taken[i])'
      BY <1>0, <1>9 DEF TickExecutes, Runs, TypeOK
    <2> QED BY <1>0, <1>9, <2>1, <2>2 DEF TickExecutes, StrandedInv, Queued, TypeOK,
              taskVars, userVars
  <1>10. ASSUME NEW i \in Ticks, TickRegisters(i) \/ TickDeregisters(i) PROVE StrandedInv'
    <2>1. \A u : (Held(u) => Held(u)') /\ (Runs(u) => Runs(u)')
      BY <1>0, <1>10 DEF TickRegisters, TickDeregisters, TickEnds, Held, Runs, TypeOK
    <2> QED BY <1>0, <1>10, <2>1 DEF TickRegisters, TickDeregisters, StrandedInv, Queued,
              taskVars, userVars
  <1>11. ASSUME NEW i \in Ticks, TickCompletes(i) \/ TickFails(i) PROVE StrandedInv'
    <2>1. \A u : (Held(u) => Held(u)') /\ (Runs(u) /\ u # taken[i] => Runs(u)')
      BY <1>0, <1>11 DEF TickCompletes, TickFails, TickEnds, Held, Runs, TypeOK
    <2>2. taken[i] \in Tasks
      BY <1>0, <1>11 DEF TickCompletes, TickFails, TicksHoldTasks
    <2>3. /\ \A u \in Tasks : u # taken[i] => st'[u] = st[u]
          /\ st'[taken[i]] \notin {"QUEUED", "RUNNING"}
          /\ UNCHANGED <<known, queue, cleared, stray>>
      BY <1>0, <1>11, <2>2 DEF TickCompletes, TickFails, RetryOrFail, TypeOK, userVars
    <2> QED BY <1>0, <2>1, <2>2, <2>3 DEF StrandedInv, Queued
  <1>12. ASSUME NEW i \in Ticks, TickMisses(i) PROVE StrandedInv'
    <2>1. \A u : (Held(u) /\ u # taken[i] => Held(u)') /\ (Runs(u) => Runs(u)')
      BY <1>0, <1>12 DEF TickMisses, TickEnds, Held, Runs, TypeOK
    <2>2. taken[i] \in Tasks /\ taken[i] \notin known
      BY <1>0, <1>12 DEF TickMisses, TicksHoldTasks
    <2>3. /\ \A u \in Tasks : u # taken[i] => st'[u] = st[u]
          /\ st'[taken[i]] \notin {"QUEUED", "RUNNING"}
          /\ UNCHANGED <<known, queue, cleared, stray>>
      BY <1>0, <1>12, <2>2 DEF TickMisses, RetryOrFail, TypeOK, userVars
    <2> QED BY <1>0, <2>1, <2>2, <2>3 DEF StrandedInv, Queued
  <1>13. ASSUME NEW t \in Tasks, ExecuteTask(t) PROVE StrandedInv'
    <2>1. /\ \A u \in Tasks : u # t => st'[u] = st[u]
          /\ st'[t] = "RUNNING" /\ UNCHANGED <<known, queue, cleared>>
      BY <1>0, <1>13 DEF ExecuteTask, TypeOK
    <2>2. /\ \A u : (Held(u) => Held(u)') /\ (Runs(u) => Runs(u)')
          /\ stray \subseteq stray' /\ (t \in stray' \/ Runs(t)')
      <3>1. CASE UNCHANGED tickVars /\ stray' = stray \cup {t}
        BY <3>1 DEF tickVars, Held, Runs
      <3>2. ASSUME NEW i \in Ticks, pc[i] = "idle", pc' = [pc EXCEPT ![i] = "starting"],
                   taken' = [taken EXCEPT ![i] = t], stray' = stray
            PROVE  /\ \A u : (Held(u) => Held(u)') /\ (Runs(u) => Runs(u)')
                   /\ stray \subseteq stray' /\ Runs(t)'
        BY <1>0, <3>2 DEF Held, Runs, TypeOK
      <3> QED BY <1>13, <3>1, <3>2 DEF ExecuteTask, LowestIdle
    <2> QED BY <1>0, <2>1, <2>2 DEF StrandedInv, Queued
  <1> QED BY <1>1, <1>2, <1>3, <1>4, <1>5, <1>6, <1>7, <1>8, <1>9, <1>10, <1>11, <1>12, <1>13
         DEF Next, Lifecycle, Tick

\* Whatever users, triggers, ticks and recoveries do, a queued task is in the
\* queue, taken out of it by a user or in the hands of a tick, and a running one
\* has a tick that executes it.
THEOREM NobodyIsStranded == Spec => []NoStrandedTask
  <1>1. Init => StrandedInv
    BY TasksAssumption DEF Init, StrandedInv
  <1>2. Init => Typed /\ StrandedInv
    BY <1>1, TypedInit
  <1>3. ASSUME Typed /\ StrandedInv, [Next]_vars PROVE (Typed /\ StrandedInv)'
    BY <1>3, TypedStep, StrandedStep
  <1>4. Typed /\ StrandedInv => NoStrandedTask
    BY StrandedIsInv
  <1> QED BY <1>2, <1>3, <1>4, PTL DEF Spec


-----------------------------------------------------------------------------
(* Dependencies                                                             *)

\* A task that says COMPLETED has completed an execution.
DependencyInv ==
    /\ \A i \in Ticks \ direct : pc[i] \in {"starting", "executing"} =>
          \A d \in Deps[taken[i]] : d \in completed
    /\ \A d \in Tasks : st[d] = "COMPLETED" => d \in completed

LEMMA DependencyStep ==
    ASSUME Typed, DependencyInv, [Next]_vars
    PROVE  DependencyInv'
  <1>0. TypeOK /\ TicksHoldTasks
    BY DEF Typed
  <1>1. CASE /\ completed' = completed
             /\ \A i \in Ticks \ direct' : pc'[i] \in {"starting", "executing"} =>
                   /\ i \notin direct /\ pc[i] \in {"starting", "executing"}
                   /\ taken'[i] = taken[i]
             /\ \A d \in Tasks : st'[d] = "COMPLETED" => st[d] = "COMPLETED"
    BY <1>1 DEF DependencyInv
  <1>2. CASE \/ Initialize \/ RecoveryFails \/ Start \/ Stop \/ Initialized \/ TimerSet
             \/ Stopped \/ Withdraw \/ UNCHANGED vars
    BY <1>1, <1>2 DEF Initialize, RecoveryFails, Start, Stop, Initialized, TimerSet, Stopped,
         Withdraw, vars, tickVars, taskVars
  <1>3. ASSUME NEW t \in Tasks, CreateTask(t) \/ DeleteTask(t) \/ SetState(t)
        PROVE  DependencyInv'
    <2>1. \A d \in Tasks : st'[d] = "COMPLETED" => st[d] = "COMPLETED"
      BY <1>0, <1>3 DEF CreateTask, DeleteTask, SetState, TypeOK
    <2> QED BY <1>1, <1>3, <2>1 DEF CreateTask, DeleteTask, SetState, tickVars
  <1>4. ASSUME NEW t \in Tasks, Recover(t) \/ EnqueueTask(t) \/ TriggerFires(t)
        PROVE  DependencyInv'
    <2>1. Enqueue(t) \/ st' = st
      BY <1>4 DEF Recover, EnqueueTask, TriggerFires
    <2>2. \A d \in Tasks : st'[d] = "COMPLETED" => st[d] = "COMPLETED"
      BY <1>0, <2>1, EnqueueEffect
    <2> QED BY <1>1, <1>4, <2>2 DEF Recover, EnqueueTask, TriggerFires, tickVars
  <1>e. ASSUME NEW i \in Ticks, TickEnds(i)
        PROVE  \A j \in Ticks \ direct' : pc'[j] \in {"starting", "executing"} =>
                  /\ j \notin direct /\ pc[j] \in {"starting", "executing"}
                  /\ taken'[j] = taken[j]
    BY <1>0, <1>e DEF TickEnds, TypeOK
  <1>5. ASSUME NEW i \in Ticks, TickTakes(i) PROVE DependencyInv'
    <2>1. /\ pc' = [pc EXCEPT ![i] = "holding"] /\ taken' = [taken EXCEPT ![i] = Head(queue)]
          /\ UNCHANGED <<direct, completed, st>>
      BY <1>5 DEF TickTakes, taskVars
    <2>2. \A j \in Ticks \ direct' : pc'[j] \in {"starting", "executing"} =>
              /\ j \notin direct /\ pc[j] \in {"starting", "executing"}
              /\ taken'[j] = taken[j]
      BY <1>0, <2>1 DEF TypeOK
    <2> QED BY <1>1, <2>1, <2>2
  <1>6. ASSUME NEW i \in Ticks,
               TickDrops(i) \/ TickSkips(i) \/ TickMisses(i) \/ TickDeregisters(i)
        PROVE  DependencyInv'
    <2>1. \A d \in Tasks : st'[d] = "COMPLETED" => st[d] = "COMPLETED"
      <3>1. taken[i] \in Tasks
        BY <1>0, <1>6 DEF TickDrops, TickSkips, TickMisses, TickDeregisters, TicksHoldTasks
      <3> QED BY <1>0, <1>6, <3>1 DEF TickDrops, TickSkips, TickMisses, TickDeregisters,
                RetryOrFail, taskVars, TypeOK
    <2>2. TickEnds(i) /\ completed' = completed
      BY <1>6 DEF TickDrops, TickSkips, TickMisses, TickDeregisters
    <2> QED BY <1>1, <1>e, <2>1, <2>2
  <1>7. ASSUME NEW i \in Ticks, TickPutsBack(i) PROVE DependencyInv'
    <2>1. \A d \in Tasks : st'[d] = "COMPLETED" => st[d] = "COMPLETED"
      <3>1. taken[i] \in Tasks /\ Enqueue(taken[i])
        BY <1>0, <1>7 DEF TickPutsBack, PutBack, TypeOK
      <3> QED BY <1>0, <3>1, EnqueueEffect
    <2>2. TickEnds(i) /\ completed' = completed
      BY <1>7 DEF TickPutsBack
    <2> QED BY <1>1, <1>e, <2>1, <2>2
  <1>8. ASSUME NEW i \in Ticks, TickExecutes(i) PROVE DependencyInv'
    <2>1. taken[i] \in Tasks /\ Deps[taken[i]] \subseteq Tasks
      BY <1>0, <1>8, TasksAssumption DEF TickExecutes, TypeOK
    <2>2. \A d \in Deps[taken[i]] : d \in completed
      BY <1>8, <2>1 DEF TickExecutes, DependencyWaits, DependencyInv
    <2>3. /\ \A d \in Tasks : st'[d] = "COMPLETED" => st[d] = "COMPLETED"
          /\ \A j \in Ticks : j # i => pc'[j] = pc[j]
          /\ taken' = taken /\ direct' = direct /\ completed' = completed
      BY <1>0, <1>8 DEF TickExecutes, TypeOK
    <2> QED BY <2>2, <2>3 DEF DependencyInv
  <1>9. ASSUME NEW i \in Ticks, TickRegisters(i) PROVE DependencyInv'
    <2>1. \A j \in Ticks : pc'[j] \in {"starting", "executing"} =>
              pc[j] \in {"starting", "executing"}
      BY <1>0, <1>9 DEF TickRegisters, TypeOK
    <2> QED BY <1>1, <1>9, <2>1 DEF TickRegisters, taskVars
  <1>10. ASSUME NEW i \in Ticks, TickCompletes(i) PROVE DependencyInv'
    <2>1. /\ \A d \in Tasks : st'[d] = "COMPLETED" => st[d] = "COMPLETED" \/ d = taken[i]
          /\ \A j \in Ticks : pc'[j] \in {"starting", "executing"} => pc'[j] = pc[j]
          /\ taken' = taken /\ direct' = direct /\ completed' = completed \cup {taken[i]}
      BY <1>0, <1>10 DEF TickCompletes, TypeOK
    <2> QED BY <2>1 DEF DependencyInv
  <1>11. ASSUME NEW i \in Ticks, TickFails(i) PROVE DependencyInv'
    <2>1. taken[i] \in Tasks
      BY <1>0, <1>11 DEF TickFails, TicksHoldTasks
    <2>2. /\ \A d \in Tasks : st'[d] = "COMPLETED" => st[d] = "COMPLETED" \/ d \in completed'
          /\ completed \subseteq completed'
      BY <1>0, <1>11, <2>1 DEF TickFails, RetryOrFail, TypeOK
    <2> QED BY <1>11, <1>e, <2>2 DEF TickFails, DependencyInv
  <1>12. ASSUME NEW t \in Tasks, ExecuteTask(t) PROVE DependencyInv'
    <2>1. /\ \A d \in Tasks : st'[d] = "COMPLETED" => st[d] = "COMPLETED"
          /\ completed' = completed
      BY <1>0, <1>12 DEF ExecuteTask, TypeOK
    <2>2. CASE UNCHANGED tickVars
      BY <1>1, <2>1, <2>2 DEF tickVars
    <2>3. ASSUME NEW i \in Ticks, pc' = [pc EXCEPT ![i] = "starting"],
                 taken' = [taken EXCEPT ![i] = t], direct' = direct \cup {i}
          PROVE  DependencyInv'
      <3>1. \A j \in Ticks \ direct' : j \notin direct /\ pc'[j] = pc[j] /\ taken'[j] = taken[j]
        BY <1>0, <2>3 DEF TypeOK
      <3> QED BY <1>1, <2>1, <3>1
    <2> QED BY <1>12, <2>2, <2>3 DEF ExecuteTask
  <1> QED BY <1>2, <1>3, <1>4, <1>5, <1>6, <1>7, <1>8, <1>9, <1>10, <1>11, <1>12
         DEF Next, Lifecycle, Tick

\* A task is executed only after each of its dependencies has completed an
\* execution (evaluateDependencies, processQueue).
THEOREM DependenciesComeFirst == Spec => []AfterDependencies
  <1>1. Init => Typed /\ DependencyInv
    BY TypedInit DEF Init, DependencyInv
  <1>2. ASSUME Typed /\ DependencyInv, [Next]_vars PROVE (Typed /\ DependencyInv)'
    BY <1>2, TypedStep, DependencyStep
  <1>3. Typed /\ DependencyInv => AfterDependencies
    BY DEF DependencyInv, AfterDependencies, At, Executing
  <1> QED BY <1>1, <1>2, <1>3, PTL DEF Spec

-----------------------------------------------------------------------------
(* One execution at a time                                                  *)

\* Tick i has t, from dequeue() to its end.
Works(i, t) == pc[i] # "idle" /\ taken[i] = t

\* A task nobody has interfered with is in the queue once, or in the hands of
\* one tick, and in neither while it may be triggered.
Exclusive(t) ==
    /\ Once(t)
    /\ \A i, j \in Ticks : Works(i, t) /\ Works(j, t) => i = j
    /\ Queued(t) => \A i \in Ticks : ~Works(i, t)
    /\ st[t] \in {"NEW", "PENDING"} => ~Queued(t) /\ \A i \in Ticks : ~Works(i, t)

OnceInv == \A t \in Tasks : t \notin disturbed => Exclusive(t)

\* What an enqueue of t leaves alone.
LEMMA EnqueueIsExclusive ==
    ASSUME TypeOK, OnceInv, NEW t \in Tasks, Enqueue(t),
           disturbed \subseteq disturbed',
           \A u \in Tasks, i \in Ticks : Works(i, u)' => Works(i, u),
           t \notin disturbed' => /\ ~Queued(t) /\ ~Overflows(t)
                               /\ \A i \in Ticks : ~Works(i, t)'
    PROVE  OnceInv'
  <1>1. /\ \A u \in Tasks \ {t} : Queued(u)' => Queued(u)
        /\ \A u \in Tasks : Once(u) => Once(u)'
        /\ \A u \in Tasks \ {t} : st'[u] = st[u]
        /\ ~Queued(t) => st'[t] = "QUEUED" \/ Overflows(t)
    BY EnqueueEffect
  <1>2. ASSUME NEW u \in Tasks, u \notin disturbed' PROVE Exclusive(u)'
    <2>1. Exclusive(u)
      BY <1>2 DEF OnceInv
    <2>2. CASE u = t
      BY <1>1, <1>2, <2>1, <2>2 DEF Exclusive
    <2>3. CASE u # t
      BY <1>1, <2>1, <2>3 DEF Exclusive
    <2> QED BY <2>2, <2>3
  <1> QED BY <1>2 DEF OnceInv

\* Steps that put nothing into the queue and take nothing out of it into a tick.
LEMMA OthersAreExclusive ==
    ASSUME OnceInv, disturbed \subseteq disturbed',
           \A u \in Tasks : Queued(u)' => Queued(u),
           \A u \in Tasks : Once(u) => Once(u)',
           \A u \in Tasks, i \in Ticks : Works(i, u)' => Works(i, u),
           \A u \in Tasks \ disturbed' : st'[u] \in {"NEW", "PENDING"} =>
              \/ st[u] \in {"NEW", "PENDING"}
              \/ ~Queued(u)' /\ \A i \in Ticks : ~Works(i, u)'
    PROVE  OnceInv'
  <1>1. ASSUME NEW u \in Tasks, u \notin disturbed' PROVE Exclusive(u)'
    <2>1. Exclusive(u)
      BY <1>1 DEF OnceInv
    <2> QED BY <1>1, <2>1 DEF Exclusive
  <1> QED BY <1>1 DEF OnceInv

LEMMA OnceStep == ASSUME Typed, OnceInv, [Next]_vars PROVE OnceInv'
  <1>0. TypeOK /\ TicksHoldTasks
    BY DEF Typed
  <1>1. ASSUME queue' = queue
        PROVE  \A u \in Tasks : (Queued(u)' => Queued(u)) /\ (Once(u) => Once(u)')
    BY <1>1 DEF Queued, Once
  <1>2. ASSUME pc' = pc, taken' = taken
        PROVE  \A u \in Tasks, i \in Ticks : Works(i, u)' => Works(i, u)
    BY <1>2 DEF Works
  <1>3. CASE \/ Initialize \/ RecoveryFails \/ Start \/ Stop \/ Initialized \/ TimerSet
             \/ Stopped \/ UNCHANGED vars
    <2>1. UNCHANGED <<queue, pc, taken, st, disturbed>>
      BY <1>3 DEF Initialize, RecoveryFails, Start, Stop, Initialized, TimerSet, Stopped, vars,
           tickVars, taskVars, userVars
    <2> QED BY <1>1, <1>2, <2>1, OthersAreExclusive
  <1>4. ASSUME NEW t \in Tasks, CreateTask(t) \/ DeleteTask(t) \/ SetState(t)
        PROVE  OnceInv'
    <2>1. UNCHANGED <<queue, pc, taken>> /\ disturbed \subseteq disturbed'
      BY <1>4 DEF CreateTask, DeleteTask, SetState, tickVars, userVars
    <2>2. \A u \in Tasks \ disturbed' : st'[u] \in {"NEW", "PENDING"} =>
              st[u] \in {"NEW", "PENDING"}
      BY <1>0, <1>4 DEF CreateTask, DeleteTask, SetState, userVars, TypeOK
    <2> QED BY <1>1, <1>2, <2>1, <2>2, OthersAreExclusive
  <1>5. ASSUME NEW t \in Tasks, Recover(t) \/ EnqueueTask(t) PROVE OnceInv'
    <2>1. UNCHANGED <<pc, taken>> /\ disturbed \subseteq disturbed'
      BY <1>5 DEF Recover, EnqueueTask, tickVars
    <2>2. CASE Enqueue(t) /\ t \in disturbed'
      <3>1. \A u \in Tasks, i \in Ticks : Works(i, u)' => Works(i, u)
        BY <1>2, <2>1
      <3>2. t \notin disturbed' => /\ ~Queued(t) /\ ~Overflows(t)
                                  /\ \A i \in Ticks : ~Works(i, t)'
        BY <2>2
      <3> QED BY <1>0, <2>1, <2>2, <3>1, <3>2, EnqueueIsExclusive
    <2>3. CASE UNCHANGED <<queue, st>>
      BY <1>1, <1>2, <2>1, <2>3, OthersAreExclusive
    <2> QED BY <1>5, <2>2, <2>3 DEF Recover, EnqueueTask
  <1>14. ASSUME NEW t \in Tasks, ExecuteTask(t) PROVE OnceInv'
    <2>1. /\ queue' = queue /\ disturbed' = disturbed \cup {t}
          /\ \A u \in Tasks \ {t} : st'[u] = st[u]
      BY <1>0, <1>14 DEF ExecuteTask, TypeOK
    <2>2. \A u \in Tasks \ {t}, j \in Ticks : Works(j, u)' => Works(j, u)
      <3>1. CASE UNCHANGED tickVars
        BY <3>1 DEF tickVars, Works
      <3>2. ASSUME NEW i \in Ticks, pc' = [pc EXCEPT ![i] = "starting"],
                   taken' = [taken EXCEPT ![i] = t]
            PROVE  \A u \in Tasks \ {t}, j \in Ticks : Works(j, u)' => Works(j, u)
        BY <1>0, <3>2 DEF Works, TypeOK
      <3> QED BY <1>14, <3>1, <3>2 DEF ExecuteTask
    <2>3. ASSUME NEW u \in Tasks, u \notin disturbed' PROVE Exclusive(u)'
      <3>1. Exclusive(u) /\ u # t /\ (Queued(u)' => Queued(u)) /\ (Once(u) => Once(u)')
        BY <1>1, <2>1, <2>3 DEF OnceInv
      <3> QED BY <2>1, <2>2, <3>1 DEF Exclusive
    <2> QED BY <2>3 DEF OnceInv
  <1>6. ASSUME NEW t \in Tasks, TriggerFires(t) PROVE OnceInv'
    <2>1. /\ Enqueue(t) /\ st[t] = "PENDING" /\ UNCHANGED <<pc, taken>>
          /\ disturbed \subseteq disturbed' /\ (Overflows(t) => t \in disturbed')
      BY <1>6 DEF TriggerFires, Triggerable, tickVars
    <2>2. t \notin disturbed' => ~Queued(t) /\ \A i \in Ticks : ~Works(i, t)
      BY <2>1 DEF OnceInv, Exclusive
    <2>3. ASSUME t \notin disturbed'
          PROVE  ~Queued(t) /\ ~Overflows(t) /\ \A i \in Ticks : ~Works(i, t)'
      <3>1. \A i \in Ticks : Works(i, t)' => Works(i, t)
        BY <1>2, <2>1
      <3> QED BY <2>1, <2>2, <2>3, <3>1
    <2>4. \A u \in Tasks, i \in Ticks : Works(i, u)' => Works(i, u)
      BY <1>2, <2>1
    <2> QED BY <1>0, <2>1, <2>3, <2>4, EnqueueIsExclusive
  <1>7. CASE Withdraw
    <2>1. UNCHANGED <<pc, taken, st, disturbed>>
      BY <1>7 DEF Withdraw, tickVars, taskVars
    <2>2. \A u \in Tasks : (Queued(u)' => Queued(u)) /\ (Once(u) => Once(u)')
      BY <1>0, <1>7, WithdrawEffect
    <2> QED BY <1>2, <2>1, <2>2, OthersAreExclusive
  <1>8. ASSUME NEW i \in Ticks, TickTakes(i) PROVE OnceInv'
    <2>1. /\ pc[i] = "idle" /\ pc' = [pc EXCEPT ![i] = "holding"]
          /\ taken' = [taken EXCEPT ![i] = Head(queue)]
          /\ queue # <<>> /\ queue' = Tail(queue)
          /\ UNCHANGED <<st, disturbed>>
      BY <1>8 DEF TickTakes, LowestIdle, taskVars, userVars
    <2>2. /\ \A u \in Tasks : Queued(u)' => Queued(u)
          /\ \A u \in Tasks : Once(u) => Once(u)'
          /\ \A u \in Tasks : u = Head(queue) => Queued(u)
          /\ \A u \in Tasks : u = Head(queue) /\ Once(u) => ~Queued(u)'
      BY <1>0, <2>1, TailEffect DEF Queued
    <2>3. \A u \in Tasks, j \in Ticks : Works(j, u)' =>
              Works(j, u) \/ (j = i /\ u = Head(queue))
      BY <1>0, <2>1 DEF Works, TypeOK
    <2>4. ASSUME NEW u \in Tasks, u \notin disturbed' PROVE Exclusive(u)'
      <3>1. Exclusive(u)
        BY <2>1, <2>4 DEF OnceInv
      <3>2. CASE u = Head(queue)
        <4>1. Queued(u) /\ ~Queued(u)' /\ st'[u] \notin {"NEW", "PENDING"}
          BY <2>1, <2>2, <3>1, <3>2 DEF Exclusive
        <4>2. \A j \in Ticks : Works(j, u)' => j = i
          BY <2>3, <3>1, <4>1 DEF Exclusive
        <4> QED BY <2>2, <3>1, <4>1, <4>2 DEF Exclusive
      <3>3. CASE u # Head(queue)
        BY <2>1, <2>2, <2>3, <3>1, <3>3 DEF Exclusive
      <3> QED BY <3>2, <3>3
    <2> QED BY <2>4 DEF OnceInv
  <1>9. ASSUME NEW i \in Ticks, pc[i] # "idle", pc' = [pc EXCEPT ![i] = "idle"],
               taken' = [taken EXCEPT ![i] = None]
        PROVE  \A u \in Tasks, j \in Ticks : Works(j, u)' => Works(j, u) /\ j # i
    BY <1>0, <1>9 DEF Works, TypeOK
  <1>10. ASSUME NEW i \in Ticks, TickDrops(i) \/ TickSkips(i) \/ TickDeregisters(i)
         PROVE  OnceInv'
    <2>1. pc[i] # "idle" /\ TickEnds(i) /\ UNCHANGED <<queue, disturbed>>
      BY <1>10 DEF TickDrops, TickSkips, TickDeregisters, userVars
    <2>2. \A u \in Tasks : st'[u] \in {"NEW", "PENDING"} => st[u] \in {"NEW", "PENDING"}
      BY <1>0, <1>10 DEF TickDrops, TickSkips, TickDeregisters, taskVars, TypeOK
    <2>3. \A u \in Tasks, j \in Ticks : Works(j, u)' => Works(j, u)
      BY <1>9, <2>1 DEF TickEnds
    <2> QED BY <1>1, <2>1, <2>2, <2>3, OthersAreExclusive
  <1>11. ASSUME NEW i \in Ticks, TickPutsBack(i) PROVE OnceInv'
    <2> DEFINE t == taken[i]
    <2>1. /\ t \in Tasks /\ Enqueue(t) /\ TickEnds(i) /\ pc[i] = "holding"
          /\ disturbed \subseteq disturbed' /\ (Overflows(t) => t \in disturbed')
      BY <1>0, <1>11 DEF TickPutsBack, PutBack, TypeOK
    <2>2. \A u \in Tasks, j \in Ticks : Works(j, u)' => Works(j, u) /\ j # i
      BY <1>9, <2>1 DEF TickEnds
    <2>3. Works(i, t)
      BY <2>1 DEF Works
    <2> HIDE DEF t
    <2>4. t \notin disturbed' => ~Queued(t) /\ \A j \in Ticks : Works(j, t) => j = i
      BY <2>1, <2>3 DEF OnceInv, Exclusive
    <2>5. PICK u \in Tasks : u = t
      BY <2>1
    <2>6. u \notin disturbed' => /\ ~Queued(u) /\ ~Overflows(u)
                                /\ \A j \in Ticks : ~Works(j, u)'
      BY <2>1, <2>2, <2>4, <2>5
    <2>7. \A v \in Tasks, j \in Ticks : Works(j, v)' => Works(j, v)
      BY <2>2
    <2> QED BY <1>0, <2>1, <2>5, <2>6, <2>7, EnqueueIsExclusive
  <1>12. ASSUME NEW i \in Ticks, TickExecutes(i) \/ TickRegisters(i) \/ TickCompletes(i)
         PROVE  OnceInv'
    <2>1. UNCHANGED <<queue, disturbed>>
      BY <1>12 DEF TickExecutes, TickRegisters, TickCompletes, userVars
    <2>2. \A u \in Tasks : st'[u] \in {"NEW", "PENDING"} => st[u] \in {"NEW", "PENDING"}
      BY <1>0, <1>12 DEF TickExecutes, TickRegisters, TickCompletes, taskVars, TypeOK
    <2>3. \A u \in Tasks, j \in Ticks : Works(j, u)' => Works(j, u)
      BY <1>0, <1>12 DEF TickExecutes, TickRegisters, TickCompletes, Works, TypeOK
    <2> QED BY <1>1, <2>1, <2>2, <2>3, OthersAreExclusive
  <1>13. ASSUME NEW i \in Ticks, TickFails(i) \/ TickMisses(i) PROVE OnceInv'
    <2>1. /\ pc[i] # "idle" /\ taken[i] \in Tasks /\ TickEnds(i)
          /\ UNCHANGED <<queue, disturbed>>
      BY <1>0, <1>13 DEF TickFails, TickMisses, userVars, TicksHoldTasks
    <2>2. \A u \in Tasks, j \in Ticks : Works(j, u)' => Works(j, u) /\ j # i
      BY <1>9, <2>1 DEF TickEnds
    <2>3. \A u \in Tasks : u # taken[i] => st'[u] = st[u]
      BY <1>0, <1>13 DEF TickFails, TickMisses, RetryOrFail, TypeOK
    <2>4. ASSUME NEW u \in Tasks, u \notin disturbed', u = taken[i]
          PROVE  ~Queued(u)' /\ \A j \in Ticks : ~Works(j, u)'
      <3>1. Works(i, u) /\ Exclusive(u)
        BY <2>1, <2>4 DEF Works, OnceInv
      <3>2. ~Queued(u) /\ \A j \in Ticks : Works(j, u) => j = i
        BY <3>1 DEF Exclusive
      <3> QED BY <1>1, <2>1, <2>2, <3>2
    <2>5. \A u \in Tasks \ disturbed' : st'[u] \in {"NEW", "PENDING"} =>
              \/ st[u] \in {"NEW", "PENDING"}
              \/ ~Queued(u)' /\ \A j \in Ticks : ~Works(j, u)'
      BY <2>3, <2>4
    <2> QED BY <1>1, <2>1, <2>2, <2>5, OthersAreExclusive
  <1> QED BY <1>3, <1>4, <1>5, <1>6, <1>7, <1>8, <1>10, <1>11, <1>12, <1>13, <1>14
         DEF Next, Lifecycle, Tick

\* A task is executed once at a time, unless users or a recovery have interfered
\* with it or the queue has overflowed with it.
THEOREM ExecutedOnceAtATime == Spec => []OneExecution
  <1>1. ASSUME Init PROVE Typed /\ OnceInv
    <2>1. queue = <<>> /\ \A i \in Ticks : pc[i] = "idle"
      BY <1>1 DEF Init
    <2>2. \A t \in Tasks : Exclusive(t)
      BY <2>1 DEF Exclusive, Once, Queued, Works
    <2> QED BY <1>1, <2>2, TypedInit DEF OnceInv
  <1>2. ASSUME Typed /\ OnceInv, [Next]_vars PROVE (Typed /\ OnceInv)'
    <2>1. OnceInv' /\ Typed'
      BY <1>2, TypedStep, OnceStep
    <2> QED BY <2>1
  <1>3. ASSUME Typed /\ OnceInv PROVE OneExecution
    <2>1. \A i \in At(Executing) : i \in Ticks /\ pc[i] # "idle" /\ taken[i] \in Tasks
      BY <1>3 DEF At, Executing, Typed, TicksHoldTasks
    <2> QED BY <1>3, <2>1 DEF OneExecution, OnceInv, Exclusive, Works
  <1> QED BY <1>1, <1>2, <1>3, PTL DEF Spec

-----------------------------------------------------------------------------
(* The limit                                                                *)

\* A task nobody has interfered with is in activeExecutions as long as an
\* execution of it is registered.
ActiveInv ==
    \A i \in Ticks : pc[i] \in {"executing", "finishing"} /\ taken[i] \notin disturbed
        => taken[i] \in active

LEMMA ActiveStep ==
    ASSUME Typed, OnceInv, ActiveInv, [Next]_vars
    PROVE  ActiveInv'
  <1>0. TypeOK /\ TicksHoldTasks
    BY DEF Typed
  <1>1. CASE /\ \A i \in Ticks : pc'[i] \in {"executing", "finishing"} =>
                   pc[i] \in {"executing", "finishing"} /\ taken'[i] = taken[i]
             /\ active' = active /\ disturbed \subseteq disturbed'
    BY <1>1 DEF ActiveInv
  <1>2. CASE \/ Initialize \/ RecoveryFails \/ Start \/ Stop \/ Initialized \/ TimerSet
             \/ Stopped \/ Withdraw \/ UNCHANGED vars
    BY <1>1, <1>2 DEF Initialize, RecoveryFails, Start, Stop, Initialized, TimerSet, Stopped,
         Withdraw, vars, tickVars, userVars
  <1>3. ASSUME NEW t \in Tasks,
               \/ Recover(t) \/ CreateTask(t) \/ DeleteTask(t) \/ SetState(t)
               \/ EnqueueTask(t) \/ TriggerFires(t)
        PROVE  ActiveInv'
    <2>1. UNCHANGED tickVars /\ disturbed \subseteq disturbed'
      BY <1>3 DEF Recover, CreateTask, DeleteTask, SetState, EnqueueTask, TriggerFires, userVars
    <2> QED BY <1>1, <2>1 DEF tickVars
  <1>4. ASSUME NEW t \in Tasks, ExecuteTask(t) PROVE ActiveInv'
    <2>1. active' = active /\ disturbed \subseteq disturbed'
      BY <1>4 DEF ExecuteTask, tickVars
    <2>2. \A i \in Ticks : pc'[i] \in {"executing", "finishing"} =>
              pc[i] \in {"executing", "finishing"} /\ taken'[i] = taken[i]
      BY <1>0, <1>4 DEF ExecuteTask, tickVars, TypeOK
    <2> QED BY <1>1, <2>1, <2>2
  <1>5. ASSUME NEW i \in Ticks, TickTakes(i) \/ TickExecutes(i) \/ TickCompletes(i)
        PROVE  ActiveInv'
    <2>1. active' = active /\ disturbed' = disturbed
      BY <1>5 DEF TickTakes, TickExecutes, TickCompletes, userVars
    <2>2. \A j \in Ticks : pc'[j] \in {"executing", "finishing"} =>
              pc[j] \in {"executing", "finishing"} /\ taken'[j] = taken[j]
      BY <1>0, <1>5 DEF TickTakes, TickExecutes, TickCompletes, TypeOK
    <2> QED BY <1>1, <2>1, <2>2
  <1>6. ASSUME NEW i \in Ticks,
               TickDrops(i) \/ TickMisses(i) \/ TickPutsBack(i) \/ TickSkips(i)
        PROVE  ActiveInv'
    <2>1. active' = active /\ disturbed \subseteq disturbed' /\ TickEnds(i)
      BY <1>6 DEF TickDrops, TickMisses, TickPutsBack, TickSkips, userVars
    <2>2. \A j \in Ticks : pc'[j] \in {"executing", "finishing"} =>
              pc[j] \in {"executing", "finishing"} /\ taken'[j] = taken[j]
      BY <1>0, <2>1 DEF TickEnds, TypeOK
    <2> QED BY <1>1, <2>1, <2>2
  <1>7. ASSUME NEW i \in Ticks, TickRegisters(i) PROVE ActiveInv'
    <2>1. /\ active' = active \cup {taken[i]} /\ taken' = taken /\ disturbed' = disturbed
          /\ pc' = [pc EXCEPT ![i] = "executing"]
      BY <1>7 DEF TickRegisters, userVars
    <2> QED BY <1>0, <2>1 DEF ActiveInv, TypeOK
  <1>8. ASSUME NEW i \in Ticks, TickDeregisters(i) \/ TickFails(i) PROVE ActiveInv'
    <2>1. /\ pc[i] # "idle" /\ TickEnds(i) /\ active' = active \ {taken[i]}
          /\ disturbed' = disturbed
      BY <1>8 DEF TickDeregisters, TickFails, userVars
    <2> SUFFICES ASSUME NEW j \in Ticks, pc'[j] \in {"executing", "finishing"},
                        taken'[j] \notin disturbed'
                 PROVE  taken'[j] \in active'
      BY DEF ActiveInv
    <2>2. j # i /\ pc'[j] = pc[j] /\ taken'[j] = taken[j]
      BY <1>0, <2>1 DEF TickEnds, TypeOK
    <2>3. taken[j] \in active
      BY <2>1, <2>2 DEF ActiveInv
    <2>4. taken[j] # taken[i]
      <3>1. SUFFICES ASSUME taken[j] = taken[i] PROVE FALSE
        OBVIOUS
      <3>2. PICK u \in Tasks : u = taken[j]
        BY <1>0, <2>2 DEF TicksHoldTasks
      <3>3. Works(j, u) /\ Works(i, u) /\ u \notin disturbed
        BY <2>1, <2>2, <3>1, <3>2 DEF Works
      <3> QED BY <2>2, <3>3 DEF OnceInv, Exclusive
    <2> QED BY <2>1, <2>2, <2>3, <2>4
  <1> QED BY <1>2, <1>3, <1>4, <1>5, <1>6, <1>7, <1>8 DEF Next, Lifecycle, Tick

\* OwnExecutions, and the part of it that is registered.
Own        == {i \in Ticks : /\ pc[i] \in {"holding", "starting", "executing"}
                             /\ taken[i] \notin disturbed}
Registered == {i \in Ticks : pc[i] = "executing" /\ taken[i] \notin disturbed}

LEMMA OwnIsOwn == Own = OwnExecutions
  BY DEF Own, OwnExecutions, At, InHand, Executing

\* processQueue's count is not below the number of undisturbed executions: each
\* has an entry of its own in activeExecutions.
LEMMA RegisteredAreActive ==
    ASSUME Typed, OnceInv, ActiveInv
    PROVE  /\ IsFiniteSet(Registered) /\ Cardinality(Registered) \in Nat
           /\ Cardinality(Registered) <= Cardinality(active)
  <1>0. TypeOK /\ TicksHoldTasks
    BY DEF Typed
  <1> DEFINE f == [i \in Registered |-> taken[i]]
  <1>1. f \in [Registered -> active]
    BY DEF Registered, ActiveInv
  <1>2. ASSUME NEW i \in Registered, NEW j \in Registered, f[i] = f[j] PROVE i = j
    <2>1. i \in Ticks /\ j \in Ticks /\ taken[i] = taken[j] /\ taken[i] \notin disturbed
          /\ pc[i] # "idle" /\ pc[j] # "idle"
      BY <1>2 DEF Registered
    <2>2. PICK u \in Tasks : u = taken[i]
      BY <1>0, <2>1 DEF TicksHoldTasks
    <2>3. Works(i, u) /\ Works(j, u)
      BY <2>1, <2>2 DEF Works
    <2> QED BY <2>1, <2>2, <2>3 DEF OnceInv, Exclusive
  <1>3. f \in Injection(Registered, active)
    <2> HIDE DEF f
    <2> QED BY <1>1, <1>2 DEF Injection, IsInjective
  <1>4. IsFiniteSet(active)
    BY <1>0, Finiteness
  <1> QED BY <1>3, <1>4, FS_Injection, FS_CardinalityType

\* Only processQueue's check lets the undisturbed executions grow.
LEMMA LimitStep ==
    ASSUME Typed, OnceInv, ActiveInv, LimitExceededByOverlap, [Next]_vars
    PROVE  LimitExceededByOverlap'
  <1>0. TypeOK /\ TicksHoldTasks /\ TypeOK'
    BY TypedStep DEF Typed
  <1>1. ConcurrentLimit \in Nat /\ overlap \in Nat /\ overlap' \in Nat
    BY <1>0, LimitsAssumption DEF TypeOK
  <1>2. IsFiniteSet(Own) /\ Cardinality(Own) \in Nat
    <2>1. IsFiniteSet(Ticks)
      BY LimitsAssumption, FS_Interval DEF Ticks
    <2>2. Own \in SUBSET Ticks
      BY DEF Own
    <2> QED BY <2>1, <2>2, FS_Subset, FS_CardinalityType
  <1>3. Cardinality(Own) <= ConcurrentLimit + overlap - 1
    BY OwnIsOwn DEF LimitExceededByOverlap
  <1>4. SUFFICES Cardinality(Own') <= ConcurrentLimit + overlap' - 1
    <2>1. Own' = OwnExecutions'
      BY DEF Own, OwnExecutions, At, InHand, Executing
    <2> QED BY <2>1 DEF LimitExceededByOverlap
  <1>5. CASE Own' \subseteq Own /\ overlap' = overlap
    <2>1. Cardinality(Own') <= Cardinality(Own) /\ Cardinality(Own') \in Nat
      BY <1>2, <1>5, FS_Subset, FS_CardinalityType
    <2> QED BY <1>1, <1>2, <1>3, <1>5, <2>1
  <1>6. ASSUME NEW i \in Ticks, TickTakes(i)
        PROVE  Cardinality(Own') <= ConcurrentLimit + overlap' - 1
    <2> DEFINE h == At(InHand)
    <2>1. /\ pc[i] = "idle" /\ pc' = [pc EXCEPT ![i] = "holding"]
          /\ taken' = [taken EXCEPT ![i] = Head(queue)]
          /\ Cardinality(active) < ConcurrentLimit /\ disturbed' = disturbed
          /\ overlap' = IF Cardinality(h) + 1 > overlap THEN Cardinality(h) + 1 ELSE overlap
      BY <1>6 DEF TickTakes, LowestIdle, BelowLimit, userVars
    <2>2. /\ IsFiniteSet(h) /\ Cardinality(h) \in Nat
          /\ IsFiniteSet(active) /\ Cardinality(active) \in Nat
      BY <1>0, Finiteness
    <2>3. i \notin h
      BY <2>1 DEF At, InHand
    <2>4. Own' \subseteq (h \cup {i}) \cup Registered
      BY <1>0, <2>1 DEF Own, Registered, At, InHand, TypeOK
    <2> HIDE DEF h
    <2>5. IsFiniteSet(h \cup {i}) /\ Cardinality(h \cup {i}) = Cardinality(h) + 1
      BY <2>2, <2>3, FS_AddElement
    <2>6. /\ IsFiniteSet(Registered) /\ Cardinality(Registered) \in Nat
          /\ Cardinality(Registered) <= Cardinality(active)
      BY RegisteredAreActive
    <2>7. /\ IsFiniteSet((h \cup {i}) \cup Registered)
          /\ Cardinality((h \cup {i}) \cup Registered)
               <= Cardinality(h \cup {i}) + Cardinality(Registered)
      <3> DEFINE a == h \cup {i}
      <3>1. IsFiniteSet(a) /\ Cardinality(a) \in Nat
        BY <2>2, <2>5
      <3> HIDE DEF a
      <3>2. /\ IsFiniteSet(a \cup Registered)
            /\ Cardinality(a \cup Registered)
                 = Cardinality(a) + Cardinality(Registered) - Cardinality(a \cap Registered)
        BY <2>6, <3>1, FS_Union
      <3>3. Cardinality(a \cap Registered) \in Nat
        BY <3>1, FS_Subset, FS_CardinalityType
      <3>4. Cardinality(a \cup Registered) <= Cardinality(a) + Cardinality(Registered)
        BY <2>6, <3>1, <3>2, <3>3
      <3> QED BY <3>2, <3>4 DEF a
    <2>8. /\ Cardinality(Own') <= Cardinality((h \cup {i}) \cup Registered)
          /\ Cardinality(Own') \in Nat /\ Cardinality((h \cup {i}) \cup Registered) \in Nat
      BY <2>4, <2>7, FS_Subset, FS_CardinalityType
    <2>9. Cardinality(h) + 1 <= overlap'
      BY <1>1, <2>1, <2>2
    <2> QED BY <1>1, <2>1, <2>2, <2>5, <2>6, <2>7, <2>8, <2>9
  <1>7. CASE \/ Initialize \/ RecoveryFails \/ Start \/ Stop \/ Initialized \/ TimerSet
             \/ Stopped \/ Withdraw \/ UNCHANGED vars
    <2>1. UNCHANGED <<pc, taken, disturbed, overlap>>
      BY <1>7 DEF Initialize, RecoveryFails, Start, Stop, Initialized, TimerSet, Stopped,
           Withdraw, vars, tickVars, userVars
    <2> QED BY <1>5, <2>1 DEF Own
  <1>8. ASSUME NEW t \in Tasks,
               \/ Recover(t) \/ CreateTask(t) \/ DeleteTask(t) \/ SetState(t)
               \/ EnqueueTask(t) \/ TriggerFires(t)
        PROVE  Own' \subseteq Own /\ overlap' = overlap
    <2>1. UNCHANGED <<pc, taken, overlap>> /\ disturbed \subseteq disturbed'
      BY <1>8 DEF Recover, CreateTask, DeleteTask, SetState, EnqueueTask, TriggerFires,
           tickVars, userVars
    <2> QED BY <2>1 DEF Own
  <1>9. ASSUME NEW t \in Tasks, ExecuteTask(t) PROVE Own' \subseteq Own /\ overlap' = overlap
    <2>1. disturbed' = disturbed \cup {t} /\ overlap' = overlap
      BY <1>9 DEF ExecuteTask
    <2>2. ASSUME NEW j \in Own' PROVE j \in Own
      <3>1. CASE UNCHANGED tickVars
        BY <2>1, <2>2, <3>1 DEF Own, tickVars
      <3>2. ASSUME NEW i \in Ticks, pc' = [pc EXCEPT ![i] = "starting"],
                   taken' = [taken EXCEPT ![i] = t]
            PROVE  j \in Own
        BY <1>0, <2>1, <2>2, <3>2 DEF Own, TypeOK
      <3> QED BY <1>9, <3>1, <3>2 DEF ExecuteTask
    <2> QED BY <2>1, <2>2
  <1>10. ASSUME NEW i \in Ticks, Tick(i) PROVE Own' \subseteq Own /\ overlap' = overlap
    <2>1. overlap' = overlap /\ disturbed \subseteq disturbed'
      BY <1>10 DEF Tick, TickDrops, TickMisses, TickPutsBack, TickSkips, TickExecutes,
           TickRegisters, TickCompletes, TickDeregisters, TickFails, userVars
    <2>2. CASE TickEnds(i)
      BY <1>0, <2>1, <2>2 DEF TickEnds, Own, TypeOK
    <2>3. CASE TickExecutes(i) \/ TickRegisters(i) \/ TickCompletes(i)
      <3>1. /\ pc[i] \in {"holding", "starting", "executing"} /\ taken' = taken
            /\ \E p \in {"starting", "executing", "finishing"} : pc' = [pc EXCEPT ![i] = p]
        BY <2>3 DEF TickExecutes, TickRegisters, TickCompletes
      <3> QED BY <1>0, <2>1, <3>1 DEF Own, TypeOK
    <2> QED BY <1>10, <2>2, <2>3 DEF Tick, TickDrops, TickMisses, TickPutsBack, TickSkips,
              TickDeregisters, TickFails
  <1> QED BY <1>5, <1>6, <1>7, <1>8, <1>9, <1>10 DEF Next, Lifecycle

\* The executions of tasks nobody has interfered with never exceed the limit by
\* more than the other ticks that were once between the check and the registration
\* at a time (processQueue, executeTask).
THEOREM OverlapBoundsTheExcess == Spec => []LimitExceededByOverlap
  <1> DEFINE Inv == Typed /\ OnceInv /\ ActiveInv /\ LimitExceededByOverlap
  <1>1. ASSUME Init PROVE Inv
    <2>1. queue = <<>> /\ overlap = 0 /\ \A i \in Ticks : pc[i] = "idle"
      BY <1>1 DEF Init
    <2>2. OnceInv /\ ActiveInv
      BY <2>1 DEF OnceInv, Exclusive, Once, Queued, Works, ActiveInv
    <2>3. Own = {}
      BY <2>1 DEF Own
    <2>4. Cardinality(OwnExecutions) = 0
      BY <2>3, OwnIsOwn, FS_EmptySet
    <2>5. LimitExceededByOverlap
      BY <2>1, <2>4, LimitsAssumption DEF LimitExceededByOverlap
    <2> QED BY <1>1, <2>2, <2>5, TypedInit
  <1>2. ASSUME Inv, [Next]_vars PROVE Inv'
    BY <1>2, TypedStep, OnceStep, ActiveStep, LimitStep
  <1>3. Inv => LimitExceededByOverlap
    OBVIOUS
  <1> HIDE DEF Inv
  <1> QED BY <1>1, <1>2, <1>3, PTL DEF Spec

-----------------------------------------------------------------------------
(* Refinement of TaskService                                                *)

\* The queue is sorted and names nobody twice.
QueueInv == Sorted /\ \A u \in Tasks : Once(u)

\* An enqueue lets the task join the line behind those at least as urgent.
LEMMA EnqueueJoinsTheLine ==
    ASSUME TypeOK, QueueInv, NEW t \in Tasks, Enqueue(t)
    PROVE  /\ QueueInv'
           /\ Waiting' = Waiting \cup {t}
           /\ Line' = Service!Joined(t)
  <1>1. queue \in Seq(Tasks) /\ Len(queue) \in Nat /\ DOMAIN queue = 1 .. Len(queue)
        /\ \A i \in 1 .. Len(queue) : queue[i] \in Tasks
    BY LenProperties DEF TypeOK
  <1>2. \A u \in Tasks : Once(u)'
    BY EnqueueEffect DEF QueueInv
  <1>3. Waiting' = Waiting \cup {t}
    BY EnqueueEffect DEF Waiting
  <1>4. CASE Queued(t)
    <2>1. queue' = queue
      BY <1>4 DEF Enqueue
    <2>2. Line' = Line /\ Sorted'
      BY <2>1 DEF Line, Before, Sorted, QueueInv
    <2>3. Service!Joined(t) = Line
      BY <1>4 DEF Service!Joined, Waiting
    <2> QED BY <1>2, <1>3, <2>2, <2>3 DEF QueueInv
  <1>5. CASE ~Queued(t)
    <2> DEFINE L == Len(queue)
               k == Cardinality({i \in DOMAIN queue : Behind(queue[i], t)})
           Later(a, b) == \E i, j \in DOMAIN queue' : i < j /\ queue'[i] = a /\ queue'[j] = b
           Ahead(u) == Queued(u) /\ Priority[u] >= Priority[t]
           Astern(u) == Queued(u) /\ Priority[u] < Priority[t]
    <2>0. Line' = {p \in Tasks \X Tasks : Later(p[1], p[2])}
      BY DEF Line, Before
    <2>1. queue' = Inserted(t)
      BY <1>5 DEF Enqueue
    <2>2. /\ k \in 0 .. L /\ DOMAIN queue' = 1 .. L + 1
          /\ \A p \in 1 .. L + 1 :
                queue'[p] = IF p <= k THEN queue[p]
                            ELSE IF p = k + 1 THEN t ELSE queue[p - 1]
      <3> HIDE DEF k
      <3>1. \E n \in 0 .. L : n = k /\ \A p \in 1 .. L + 1 :
                queue'[p] = IF p <= n THEN queue[p]
                            ELSE IF p = n + 1 THEN t ELSE queue[p - 1]
        BY <1>1, <2>1, InsertedProperties DEF k
      <3> QED BY <1>1, <2>1, <3>1, InsertedProperties
    <2>3. \A p \in 1 .. L : p <= k <=> Priority[queue[p]] >= Priority[t]
      BY <1>1, UrgentOnesComeFirst DEF QueueInv, Behind
    <2>4. L \in Nat /\ k \in Nat /\ k <= L
      BY <1>1, <2>2
    <2>5. \A u \in Tasks : Priority[u] \in Int
      BY TasksAssumption
    <2>6. \A i \in 1 .. L : queue[i] \in Tasks
      BY <1>1
    <2>7. \A i, j \in 1 .. L : i < j => Priority[queue[i]] >= Priority[queue[j]]
      BY <1>1 DEF QueueInv, Sorted, Behind
    <2> HIDE DEF L, k
    <2>8. Sorted'
      <3> SUFFICES ASSUME NEW i \in 1 .. L + 1, NEW j \in 1 .. L + 1, i < j
                   PROVE  Priority[queue'[i]] >= Priority[queue'[j]]
        BY <2>2 DEF Sorted, Behind
      <3>1. CASE j <= k
        BY <2>2, <2>4, <2>7, <3>1
      <3>2. CASE j = k + 1
        BY <2>2, <2>3, <2>4, <3>2
      <3>3. CASE j > k + 1 /\ i <= k
        <4>1. j - 1 \in 1 .. L /\ i \in 1 .. L /\ i < j - 1
          BY <2>4, <3>3
        <4> QED BY <2>2, <2>4, <2>7, <3>3, <4>1
      <3>4. CASE j > k + 1 /\ i = k + 1
        <4>1. j - 1 \in 1 .. L /\ ~(j - 1 <= k) /\ queue[j - 1] \in Tasks
          BY <2>4, <2>6, <3>4
        <4>2. queue'[j] = queue[j - 1] /\ queue'[i] = t
          BY <2>2, <2>4, <3>4
        <4> QED BY <2>3, <2>5, <4>1, <4>2
      <3>5. CASE j > k + 1 /\ i > k + 1
        <4>1. j - 1 \in 1 .. L /\ i - 1 \in 1 .. L /\ i - 1 < j - 1
          BY <2>4, <3>5
        <4> QED BY <2>2, <2>4, <2>7, <3>5, <4>1
      <3> QED BY <2>4, <3>1, <3>2, <3>3, <3>4, <3>5
    <2> HIDE DEF Later, Ahead, Astern
    <2>9. ASSUME NEW a \in Tasks, NEW b \in Tasks
          PROVE  Later(a, b) <=> \/ Before(a, b)
                                 \/ b = t /\ Ahead(a)
                                 \/ a = t /\ Astern(b)
      <3>1. ASSUME Before(a, b) PROVE Later(a, b)
        <4>1. PICK i, j \in 1 .. L : i < j /\ queue[i] = a /\ queue[j] = b
          BY <1>1, <3>1 DEF Before, L
        <4> DEFINE up(n) == IF n <= k THEN n ELSE n + 1
        <4>2. up(i) \in 1 .. L + 1 /\ up(j) \in 1 .. L + 1 /\ up(i) < up(j)
          BY <2>4, <4>1
        <4>3. \A n \in 1 .. L : queue'[up(n)] = queue[n]
          <5> SUFFICES ASSUME NEW n \in 1 .. L PROVE queue'[up(n)] = queue[n]
            OBVIOUS
          <5>1. CASE n <= k
            BY <2>2, <2>4, <5>1
          <5>2. CASE ~(n <= k)
            <6>1. n + 1 \in 1 .. L + 1 /\ ~(n + 1 <= k) /\ n + 1 # k + 1 /\ (n + 1) - 1 = n
              BY <2>4, <5>2
            <6> QED BY <2>2, <5>2, <6>1
          <5> QED BY <5>1, <5>2
        <4> HIDE DEF up
        <4> QED BY <2>2, <4>1, <4>2, <4>3 DEF Later
      <3>2. ASSUME b = t, Ahead(a) PROVE Later(a, b)
        <4>1. PICK i \in 1 .. L : queue[i] = a
          BY <1>1, <3>2 DEF Queued, L, Ahead
        <4>2. i <= k /\ i \in 1 .. L + 1 /\ k + 1 \in 1 .. L + 1 /\ i < k + 1
          BY <2>3, <2>4, <3>2, <4>1 DEF Ahead
        <4>3. queue'[i] = a /\ queue'[k + 1] = b
          BY <2>2, <2>4, <3>2, <4>1, <4>2
        <4> QED BY <2>2, <4>2, <4>3 DEF Later
      <3>3. ASSUME a = t, Astern(b) PROVE Later(a, b)
        <4>1. PICK j \in 1 .. L : queue[j] = b
          BY <1>1, <3>3 DEF Queued, L, Astern
        <4>2. ~(j <= k)
          BY <2>3, <2>5, <3>3, <4>1 DEF Astern
        <4>3. j + 1 \in 1 .. L + 1 /\ k + 1 \in 1 .. L + 1 /\ k + 1 < j + 1
          BY <2>4, <4>2
        <4>4. queue'[j + 1] = b /\ queue'[k + 1] = a
          BY <2>2, <2>4, <3>3, <4>1, <4>2, <4>3
        <4> QED BY <2>2, <4>3, <4>4 DEF Later
      <3>4. ASSUME Later(a, b)
            PROVE  \/ Before(a, b)
                   \/ b = t /\ Ahead(a)
                   \/ a = t /\ Astern(b)
        <4>1. PICK i, j \in 1 .. L + 1 : i < j /\ queue'[i] = a /\ queue'[j] = b
          BY <2>2, <3>4 DEF Later
        <4>2. CASE j = k + 1
          <5>1. i <= k /\ i \in 1 .. L /\ queue[i] = a /\ b = t
            BY <2>2, <2>4, <4>1, <4>2
          <5> QED BY <1>1, <2>3, <5>1 DEF Queued, L, Ahead
        <4>3. CASE i = k + 1
          <5>1. j - 1 \in 1 .. L /\ ~(j - 1 <= k) /\ queue[j - 1] = b /\ a = t
            BY <2>2, <2>4, <4>1, <4>3
          <5> QED BY <1>1, <2>3, <2>5, <5>1 DEF Queued, L, Astern
        <4>4. CASE i # k + 1 /\ j # k + 1
          <5> DEFINE down(n) == IF n <= k THEN n ELSE n - 1
          <5>1. down(i) \in 1 .. L /\ down(j) \in 1 .. L /\ down(i) < down(j)
            BY <2>4, <4>1, <4>4
          <5>2. queue[down(i)] = a /\ queue[down(j)] = b
            BY <2>2, <2>4, <4>1, <4>4
          <5> HIDE DEF down
          <5> QED BY <1>1, <5>1, <5>2 DEF Before, L
        <4> QED BY <4>2, <4>3, <4>4
      <3> QED BY <3>1, <3>2, <3>3, <3>4
    <2>10. Line' = Service!Joined(t)
      <3>1. t \notin Waiting
        BY <1>5 DEF Waiting
      <3>2. Service!Joined(t) =
              Line \cup {<<u, t>> : u \in {v \in Waiting : Priority[v] >= Priority[t]}}
                   \cup {<<t, u>> : u \in {v \in Waiting : Priority[v] < Priority[t]}}
        BY <3>1 DEF Service!Joined
      <3>3. ASSUME NEW p \in Line' PROVE p \in Service!Joined(t)
        <4>1. p \in Tasks \X Tasks /\ Later(p[1], p[2])
          BY <2>0, <3>3
        <4>2. p = <<p[1], p[2]>> /\ p[1] \in Tasks /\ p[2] \in Tasks
          BY <4>1
        <4> QED BY <2>9, <3>2, <4>1, <4>2 DEF Line, Waiting, Ahead, Astern
      <3>4. ASSUME NEW p \in Service!Joined(t) PROVE p \in Line'
        <4>1. \/ p \in Line
              \/ \E u \in Tasks : p = <<u, t>> /\ Ahead(u)
              \/ \E u \in Tasks : p = <<t, u>> /\ Astern(u)
          BY <3>2, <3>4 DEF Waiting, Ahead, Astern
        <4>2. CASE p \in Line
          BY <2>0, <2>9, <4>2 DEF Line
        <4>3. CASE \E u \in Tasks : p = <<u, t>> /\ Ahead(u)
          <5>1. PICK u \in Tasks : p = <<u, t>> /\ Ahead(u)
            BY <4>3
          <5>2. Later(u, t)
            BY <2>9, <5>1
          <5> QED BY <2>0, <5>1, <5>2
        <4>4. CASE \E u \in Tasks : p = <<t, u>> /\ Astern(u)
          <5>1. PICK u \in Tasks : p = <<t, u>> /\ Astern(u)
            BY <4>4
          <5>2. Later(t, u)
            BY <2>9, <5>1
          <5> QED BY <2>0, <5>1, <5>2
        <4> QED BY <4>1, <4>2, <4>3, <4>4
      <3> QED BY <3>3, <3>4
    <2> QED BY <1>2, <1>3, <2>8, <2>10 DEF QueueInv
  <1> QED BY <1>4, <1>5

\* dequeue() takes the first of the line and leaves the order of the others.
LEMMA TailLeavesTheLine ==
    ASSUME TypeOK, QueueInv, queue # <<>>, queue' = Tail(queue)
    PROVE  /\ QueueInv'
           /\ Head(queue) \in Waiting
           /\ \A u \in Waiting \ {Head(queue)} : <<Head(queue), u>> \in Line
           /\ Waiting' = Waiting \ {Head(queue)}
           /\ Line' = {p \in Line : Head(queue) \notin {p[1], p[2]}}
  <1> DEFINE L == Len(queue)
             h == Head(queue)
             Later(a, b) == \E i, j \in DOMAIN queue' : i < j /\ queue'[i] = a /\ queue'[j] = b
  <1>1. /\ queue \in Seq(Tasks) /\ L \in Nat /\ DOMAIN queue = 1 .. L
        /\ \A i \in 1 .. L : queue[i] \in Tasks
    BY LenProperties DEF TypeOK
  <1>2. /\ h \in Tasks /\ h = queue[1] /\ L # 0
        /\ DOMAIN queue' = 1 .. L - 1
        /\ \A i \in 1 .. L - 1 : queue'[i] = queue[i + 1]
    <2>1. /\ h = queue[1] /\ h \in Tasks /\ Tail(queue) \in Seq(Tasks)
          /\ Len(Tail(queue)) = L - 1
          /\ \A i \in 1 .. Len(Tail(queue)) : Tail(queue)[i] = queue[i + 1]
      BY <1>1, HeadTailProperties
    <2>2. L # 0
      BY <1>1, EmptySeq
    <2>3. DOMAIN Tail(queue) = 1 .. L - 1
      BY <2>1, LenProperties
    <2> QED BY <2>1, <2>2, <2>3
  <1>3. h \in Waiting
    BY TailEffect DEF Waiting, Queued
  <1>4. Waiting' = Waiting \ {h}
    BY TailEffect DEF Waiting, QueueInv
  <1>5. \A u \in Tasks : Once(u)'
    BY TailEffect DEF QueueInv
  <1>6. Line' = {p \in Tasks \X Tasks : Later(p[1], p[2])}
    BY DEF Line, Before
  <1>7. \A i \in 1 .. L : queue[i] = h => i = 1
    <2>1. 1 \in 1 .. L
      BY <1>1, <1>2
    <2> QED BY <1>1, <1>2, <2>1 DEF QueueInv, Once
  <1> HIDE DEF L, h, Later
  <1>8. \A i \in 1 .. L - 1 : i + 1 \in 1 .. L /\ i + 1 # 1
    BY <1>1
  <1>9. Sorted'
    <2> SUFFICES ASSUME NEW i \in 1 .. L - 1, NEW j \in 1 .. L - 1, i < j
                 PROVE  Behind(queue'[i], queue'[j])
      BY <1>2 DEF Sorted, Behind
    <2>1. i + 1 \in 1 .. L /\ j + 1 \in 1 .. L /\ i + 1 < j + 1
      BY <1>1
    <2> QED BY <1>1, <1>2, <2>1 DEF QueueInv, Sorted
  <1>10. ASSUME NEW u \in Waiting, u # h PROVE <<h, u>> \in Line
    <2>1. PICK j \in 1 .. L : queue[j] = u
      BY <1>1, <1>10 DEF Waiting, Queued
    <2>2. 1 \in 1 .. L /\ 1 < j
      BY <1>1, <1>2, <1>10, <2>1
    <2>3. Before(h, u) /\ u \in Tasks
      BY <1>1, <1>2, <1>10, <2>1, <2>2 DEF Before, Waiting
    <2> QED BY <1>2, <2>3 DEF Line
  <1>11. ASSUME NEW a \in Tasks, NEW b \in Tasks
         PROVE  Later(a, b) <=> Before(a, b) /\ a # h /\ b # h
    <2>1. ASSUME Later(a, b) PROVE Before(a, b) /\ a # h /\ b # h
      <3>0. PICK i, j \in 1 .. L - 1 : i < j /\ queue'[i] = a /\ queue'[j] = b
        BY <1>2, <2>1 DEF Later
      <3>1. i < j /\ queue[i + 1] = a /\ queue[j + 1] = b
        BY <1>2, <3>0
      <3>2. i + 1 \in 1 .. L /\ j + 1 \in 1 .. L /\ i + 1 < j + 1
        BY <1>1, <3>1
      <3>3. a # h /\ b # h
        BY <1>7, <1>8, <3>1
      <3> QED BY <1>1, <3>1, <3>2, <3>3 DEF Before
    <2>2. ASSUME Before(a, b), a # h, b # h PROVE Later(a, b)
      <3>1. PICK i, j \in 1 .. L : i < j /\ queue[i] = a /\ queue[j] = b
        BY <1>1, <2>2 DEF Before
      <3>2. i # 1 /\ j # 1
        BY <1>2, <2>2, <3>1
      <3>3. /\ i - 1 \in 1 .. L - 1 /\ j - 1 \in 1 .. L - 1 /\ i - 1 < j - 1
            /\ (i - 1) + 1 = i /\ (j - 1) + 1 = j
        BY <1>1, <3>1, <3>2
      <3>4. queue'[i - 1] = a /\ queue'[j - 1] = b
        BY <1>2, <3>1, <3>3
      <3> QED BY <1>2, <3>3, <3>4 DEF Later
    <2> QED BY <2>1, <2>2
  <1>12. Line' = {p \in Line : h \notin {p[1], p[2]}}
    BY <1>6, <1>11 DEF Line
  <1> QED BY <1>3, <1>4, <1>5, <1>9, <1>10, <1>12 DEF QueueInv, h

\* How the progress of a tick maps.
LEMMA StageValues ==
    /\ Stage("idle") = "free" /\ Stage("holding") = "deciding"
    /\ Stage("starting") = "working" /\ Stage("executing") = "working"
    /\ Stage("finishing") = "reporting"
  BY DEF Stage, Executing

Stages == [i \in Ticks |-> Stage(pc[i])]

\* A step of one tick changes its stage and no other.
LEMMA StageOfTick ==
    ASSUME TypeOK, NEW i \in Ticks, NEW p, pc' = [pc EXCEPT ![i] = p]
    PROVE  Stages' = [Stages EXCEPT ![i] = Stage(p)] /\ Stages[i] = Stage(pc[i])
  BY DEF TypeOK, Stages

\* What the steps of the scheduler need to be steps of the service.
ServiceInv == Typed /\ DependencyInv /\ OnceInv /\ QueueInv

LEMMA QueueInvStep ==
    ASSUME Typed, QueueInv, [Next]_vars
    PROVE  QueueInv'
  <1>0. TypeOK /\ TicksHoldTasks
    BY DEF Typed
  <1>1. CASE queue' = queue
    BY <1>1 DEF QueueInv, Sorted, Once
  <1>2. CASE queue' = <<>>
    BY <1>2 DEF QueueInv, Sorted, Once
  <1>t. CASE queue # <<>> /\ queue' = Tail(queue)
    BY <1>0, <1>t, TailLeavesTheLine
  <1>3. ASSUME NEW t \in Tasks, Enqueue(t) PROVE QueueInv'
    BY <1>0, <1>3, EnqueueJoinsTheLine
  <1>4. ASSUME NEW t \in Tasks, Recover(t) \/ EnqueueTask(t) \/ TriggerFires(t)
        PROVE  QueueInv'
    BY <1>1, <1>3, <1>4 DEF Recover, EnqueueTask, TriggerFires
  <1>5. ASSUME NEW i \in Ticks, TickTakes(i) PROVE QueueInv'
    BY <1>t, <1>5 DEF TickTakes
  <1>6. ASSUME NEW i \in Ticks, TickPutsBack(i) PROVE QueueInv'
    <2>1. taken[i] \in Tasks /\ Enqueue(taken[i])
      BY <1>0, <1>6 DEF TickPutsBack, PutBack, TicksHoldTasks
    <2> QED BY <1>3, <2>1
  <1>7. ASSUME NEW i \in Ticks,
               \/ TickDrops(i) \/ TickMisses(i) \/ TickSkips(i) \/ TickExecutes(i)
               \/ TickRegisters(i) \/ TickCompletes(i) \/ TickDeregisters(i) \/ TickFails(i)
        PROVE  queue' = queue
    BY <1>7 DEF TickDrops, TickMisses, TickSkips, TickExecutes, TickRegisters, TickCompletes,
         TickDeregisters, TickFails
  <1>8. ASSUME NEW t \in Tasks,
               CreateTask(t) \/ DeleteTask(t) \/ SetState(t) \/ ExecuteTask(t)
        PROVE  queue' = queue
    BY <1>8 DEF CreateTask, DeleteTask, SetState, ExecuteTask
  <1>9. CASE \/ Initialize \/ RecoveryFails \/ Start \/ TimerSet \/ Stop \/ Initialized
             \/ Stopped \/ UNCHANGED vars
    BY <1>1, <1>9 DEF Initialize, RecoveryFails, Start, TimerSet, Stop, Initialized, Stopped,
         vars
  <1>10. CASE Withdraw
    BY <1>2, <1>t, <1>10 DEF Withdraw
  <1> QED BY <1>1, <1>4, <1>5, <1>6, <1>7, <1>8, <1>9, <1>10 DEF Next, Lifecycle, Tick

\* Each step of the scheduler is a step of the service or leaves it alone.
LEMMA ServiceStep ==
    ASSUME ServiceInv, [Next]_vars
    PROVE  [Service!Next]_Service!vars
  <1>0. TypeOK /\ TicksHoldTasks /\ QueueInv
    BY DEF ServiceInv, Typed
  <1> DEFINE Open == state = "RUNNING"
  <1>1. ASSUME UNCHANGED <<queue, pc, taken, completed, disturbed>>, Open' = Open
        PROVE  UNCHANGED Service!vars
    <2>1. Waiting' = Waiting /\ Line' = Line /\ Stages' = Stages
      BY <1>1 DEF Waiting, Queued, Line, Before, Stages
    <2> QED BY <1>1, <2>1 DEF Service!vars, Stages
  <1>2. ASSUME NEW t \in Tasks, Enqueue(t), UNCHANGED <<pc, taken, completed>>, Open' = Open,
               disturbed' \in {disturbed, disturbed \cup {t}}
        PROVE  Service!Ask(t)
    <2>1. Waiting' = Waiting \cup {t} /\ Line' = Service!Joined(t)
      BY <1>0, <1>2, EnqueueJoinsTheLine
    <2>2. Stages' = Stages
      BY <1>2 DEF Stages
    <2> QED BY <1>2, <2>1, <2>2 DEF Service!Ask, Service!Join, Stages
  <1>3. CASE \/ Initialize \/ RecoveryFails \/ TimerSet \/ Initialized \/ Stopped
             \/ UNCHANGED vars
    <2>1. UNCHANGED <<queue, pc, taken, completed, disturbed>> /\ Open' = Open
      BY <1>3 DEF Initialize, RecoveryFails, TimerSet, Initialized, Stopped, vars, tickVars,
           userVars
    <2> QED BY <1>1, <2>1
  <1>4. CASE Start \/ Stop
    <2>1. UNCHANGED <<queue, pc, taken, completed, disturbed>> /\ Open' = ~Open
      BY <1>4 DEF Start, Stop, tickVars, userVars
    <2>2. Waiting' = Waiting /\ Line' = Line /\ Stages' = Stages
      BY <2>1 DEF Waiting, Queued, Line, Before, Stages
    <2>3. Service!OpenOrClose
      BY <2>1, <2>2 DEF Service!OpenOrClose, Stages
    <2> QED BY <2>3 DEF Service!Next
  <1>5. ASSUME NEW t \in Tasks, CreateTask(t) \/ DeleteTask(t) \/ SetState(t)
        PROVE  [Service!Next]_Service!vars
    <2>1. UNCHANGED <<queue, pc, taken, completed>> /\ Open' = Open
      BY <1>5 DEF CreateTask, DeleteTask, SetState, tickVars
    <2>2. disturbed' \in {disturbed, disturbed \cup {t}}
      BY <1>5 DEF CreateTask, DeleteTask, SetState, userVars
    <2>3. CASE disturbed' = disturbed
      BY <1>1, <2>1, <2>3
    <2>4. CASE disturbed' = disturbed \cup {t}
      <3>1. Waiting' = Waiting /\ Line' = Line /\ Stages' = Stages
        BY <2>1 DEF Waiting, Queued, Line, Before, Stages
      <3>2. Service!Meddle(t)
        BY <2>1, <2>4, <3>1 DEF Service!Meddle, Stages
      <3> QED BY <3>2 DEF Service!Next
    <2> QED BY <2>2, <2>3, <2>4
  <1>6. ASSUME NEW t \in Tasks, Recover(t) \/ EnqueueTask(t) \/ TriggerFires(t)
        PROVE  [Service!Next]_Service!vars
    <2>1. UNCHANGED <<pc, taken, completed>> /\ Open' = Open
      BY <1>6 DEF Recover, EnqueueTask, TriggerFires, tickVars
    <2>2. \/ Enqueue(t) /\ disturbed' \in {disturbed, disturbed \cup {t}}
          \/ UNCHANGED <<queue, disturbed>>
      BY <1>6 DEF Recover, EnqueueTask, TriggerFires
    <2>3. CASE UNCHANGED <<queue, disturbed>>
      BY <1>1, <2>1, <2>3
    <2>4. CASE Enqueue(t) /\ disturbed' \in {disturbed, disturbed \cup {t}}
      <3>1. Service!Ask(t)
        BY <1>2, <2>1, <2>4
      <3> QED BY <3>1 DEF Service!Next
    <2> QED BY <2>2, <2>3, <2>4
  <1>7. CASE Withdraw
    <2>1. UNCHANGED <<pc, taken, completed, disturbed, state>>
      BY <1>7 DEF Withdraw, tickVars
    <2>2. Stages' = Stages
      BY <2>1 DEF Stages
    <2>3. CASE queue' = <<>>
      <3>1. Waiting' = {} /\ Line' = {}
        BY <2>3 DEF Waiting, Queued, Line, Before
      <3>2. Waiting' = Waiting \ Waiting /\ Line' = {p \in Line : Waiting \cap {p[1], p[2]} = {}}
        <4>1. ASSUME NEW p \in Line PROVE p[1] \in Waiting
          BY <4>1 DEF Line, Before, Waiting, Queued
        <4> QED BY <3>1, <4>1
      <3>3. Service!Withdraw(Waiting)
        BY <2>1, <2>2, <3>2 DEF Service!Withdraw, Stages
      <3> QED BY <3>3 DEF Service!Next
    <2>4. CASE queue' = Tail(queue)
      <3> DEFINE h == Head(queue)
      <3>1. /\ h \in Waiting /\ Waiting' = Waiting \ {h}
            /\ Line' = {p \in Line : h \notin {p[1], p[2]}}
        BY <1>0, <1>7, <2>4, TailLeavesTheLine DEF Withdraw
      <3> HIDE DEF h
      <3>2. Line' = {p \in Line : {h} \cap {p[1], p[2]} = {}}
        BY <3>1
      <3>3. Service!Withdraw({h})
        BY <2>1, <2>2, <3>1, <3>2 DEF Service!Withdraw, Stages
      <3>4. {h} \in SUBSET Waiting
        BY <3>1
      <3> QED BY <3>3, <3>4 DEF Service!Next
    <2> QED BY <1>7, <2>3, <2>4 DEF Withdraw
  <1>16. ASSUME NEW t \in Tasks, ExecuteTask(t) PROVE [Service!Next]_Service!vars
    <2>1. UNCHANGED <<queue, state, completed>> /\ disturbed' = disturbed \cup {t}
      BY <1>16 DEF ExecuteTask
    <2>2. Waiting' = Waiting /\ Line' = Line
      BY <2>1 DEF Waiting, Queued, Line, Before
    <2>3. CASE UNCHANGED tickVars
      <3>1. Stages' = Stages /\ taken' = taken
        BY <2>3 DEF Stages, tickVars
      <3>2. Service!Meddle(t)
        BY <2>1, <2>2, <3>1 DEF Service!Meddle, Stages
      <3> QED BY <3>2 DEF Service!Next
    <2>4. ASSUME NEW i \in Ticks, pc[i] = "idle", pc' = [pc EXCEPT ![i] = "starting"],
                 taken' = [taken EXCEPT ![i] = t]
          PROVE  Service!Next
      <3>1. Stages[i] = "free" /\ Stages' = [Stages EXCEPT ![i] = "working"]
        BY <1>0, <2>4, StageOfTick, StageValues
      <3>2. Service!Intrude(i, t)
        BY <2>1, <2>2, <2>4, <3>1 DEF Service!Intrude, Stages
      <3> QED BY <3>2 DEF Service!Next
    <2> QED BY <1>16, <2>3, <2>4 DEF ExecuteTask, LowestIdle
  <1>8. ASSUME NEW i \in Ticks, TickTakes(i) PROVE [Service!Next]_Service!vars
    <2> DEFINE h == Head(queue)
    <2>1. /\ pc[i] = "idle" /\ state = "RUNNING" /\ queue # <<>> /\ queue' = Tail(queue)
          /\ pc' = [pc EXCEPT ![i] = "holding"] /\ taken' = [taken EXCEPT ![i] = h]
          /\ UNCHANGED <<state, completed, disturbed>>
      BY <1>8 DEF TickTakes, LowestIdle, userVars
    <2>2. /\ h \in Waiting /\ \A u \in Waiting \ {h} : <<h, u>> \in Line
          /\ Waiting' = Waiting \ {h}
          /\ Line' = {p \in Line : h \notin {p[1], p[2]}}
      BY <1>0, <2>1, TailLeavesTheLine
    <2>3. Stages[i] = "free" /\ Stages' = [Stages EXCEPT ![i] = "deciding"]
      BY <1>0, <2>1, StageOfTick, StageValues
    <2> HIDE DEF h
    <2>4. Service!Take(i, h)
      BY <2>1, <2>2, <2>3 DEF Service!Take, Stages
    <2>5. h \in Tasks
      BY <2>2 DEF Waiting
    <2> QED BY <2>4, <2>5 DEF Service!Next
  <1>9. ASSUME NEW i \in Ticks, TickEnds(i)
        PROVE  Service!Free(i)
    <2>1. Stages' = [Stages EXCEPT ![i] = "free"] /\ taken' = [taken EXCEPT ![i] = None]
      BY <1>0, <1>9, StageOfTick, StageValues DEF TickEnds
    <2> QED BY <2>1 DEF Service!Free, Stages
  <1>10. ASSUME NEW i \in Ticks, TickDrops(i) \/ TickMisses(i) \/ TickSkips(i)
         PROVE  [Service!Next]_Service!vars
    <2>1. pc[i] = "holding" /\ TickEnds(i) /\ UNCHANGED <<queue, state, completed, disturbed>>
      BY <1>10 DEF TickDrops, TickMisses, TickSkips, userVars
    <2>2. Waiting' = Waiting /\ Line' = Line
      BY <2>1 DEF Waiting, Queued, Line, Before
    <2>3. Stages[i] = "deciding"
      BY <2>1, StageValues DEF Stages
    <2>4. Service!Drop(i)
      BY <1>9, <2>1, <2>2, <2>3 DEF Service!Drop, Stages
    <2> QED BY <2>4 DEF Service!Next
  <1>11. ASSUME NEW i \in Ticks, TickPutsBack(i) PROVE [Service!Next]_Service!vars
    <2> DEFINE t == taken[i]
    <2>1. /\ pc[i] = "holding" /\ TickEnds(i) /\ Enqueue(t) /\ t \in Tasks
          /\ disturbed' \in {disturbed, disturbed \cup {t}}
          /\ UNCHANGED <<state, completed>>
      BY <1>0, <1>11 DEF TickPutsBack, PutBack, TypeOK
    <2>2. Waiting' = Waiting \cup {t} /\ Line' = Service!Joined(t)
      BY <1>0, <2>1, EnqueueJoinsTheLine
    <2>3. Stages[i] = "deciding"
      BY <2>1, StageValues DEF Stages
    <2>4. Service!Join(taken[i])
      BY <2>1, <2>2 DEF Service!Join
    <2>5. Service!PutBack(i)
      BY <1>9, <2>1, <2>3, <2>4 DEF Service!PutBack, Stages
    <2> QED BY <2>5 DEF Service!Next
  <1>12. ASSUME NEW i \in Ticks, TickExecutes(i) PROVE [Service!Next]_Service!vars
    <2> DEFINE t == taken[i]
    <2>1. /\ pc[i] = "holding" /\ t \in Tasks /\ ~DependencyWaits(t)
          /\ pc' = [pc EXCEPT ![i] = "starting"]
          /\ UNCHANGED <<queue, taken, state, completed, disturbed>>
      BY <1>0, <1>12 DEF TickExecutes, TypeOK, userVars
    <2>2. Waiting' = Waiting /\ Line' = Line
      BY <2>1 DEF Waiting, Queued, Line, Before
    <2>3. Stages[i] = "deciding" /\ Stages' = [Stages EXCEPT ![i] = "working"]
      BY <1>0, <2>1, StageOfTick, StageValues
    <2>4. Deps[t] \subseteq completed
      <3>1. Deps[t] \subseteq Tasks
        BY <2>1, TasksAssumption
      <3> QED BY <2>1, <3>1 DEF DependencyWaits, ServiceInv, DependencyInv
    <2>5. ASSUME NEW v \in Ticks, Stages[v] = "working", taken[v] = t PROVE t \in disturbed
      <3>1. pc[v] \in {"starting", "executing"}
        <4>1. pc[v] \in {"idle", "holding", "starting", "executing", "finishing"}
          BY <1>0 DEF TypeOK
        <4>2. Stage(pc[v]) = "working"
          BY <2>5 DEF Stages
        <4> QED BY <4>1, <4>2, StageValues
      <3>2. Works(v, t) /\ Works(i, t) /\ v # i
        BY <2>1, <2>5, <3>1 DEF Works
      <3> QED BY <2>1, <3>2 DEF ServiceInv, OnceInv, Exclusive
    <2>6. Service!Begin(i)
      BY <2>1, <2>2, <2>3, <2>4, <2>5 DEF Service!Begin, Stages
    <2> QED BY <2>6 DEF Service!Next
  <1>13. ASSUME NEW i \in Ticks, TickRegisters(i) PROVE [Service!Next]_Service!vars
    <2>1. /\ pc[i] = "starting" /\ pc' = [pc EXCEPT ![i] = "executing"]
          /\ UNCHANGED <<queue, taken, state, completed, disturbed>>
      BY <1>13 DEF TickRegisters, userVars
    <2>2. Waiting' = Waiting /\ Line' = Line
      BY <2>1 DEF Waiting, Queued, Line, Before
    <2>3. Stages' = Stages
      BY <1>0, <2>1, StageOfTick, StageValues DEF Stages
    <2> QED BY <2>1, <2>2, <2>3 DEF Service!vars, Stages
  <1>14. ASSUME NEW i \in Ticks, TickCompletes(i) PROVE [Service!Next]_Service!vars
    <2>1. /\ pc[i] = "executing" /\ pc' = [pc EXCEPT ![i] = "finishing"]
          /\ completed' = completed \cup {taken[i]}
          /\ UNCHANGED <<queue, taken, state, disturbed>>
      BY <1>14 DEF TickCompletes, userVars
    <2>2. Waiting' = Waiting /\ Line' = Line
      BY <2>1 DEF Waiting, Queued, Line, Before
    <2>3. Stages[i] = "working" /\ Stages' = [Stages EXCEPT ![i] = "reporting"]
      <3>1. Stage(pc[i]) = "working" /\ Stage("finishing") = "reporting"
        BY <2>1, StageValues
      <3>2. Stages[i] = "working"
        BY <3>1 DEF Stages
      <3> QED BY <1>0, <2>1, <3>1, <3>2, StageOfTick
    <2>4. Service!Finish(i)
      BY <2>1, <2>2, <2>3 DEF Service!Finish, Stages
    <2> QED BY <2>4 DEF Service!Next
  <1>15. ASSUME NEW i \in Ticks, TickDeregisters(i) \/ TickFails(i)
         PROVE  [Service!Next]_Service!vars
    <2>1. /\ pc[i] \in {"executing", "finishing"} /\ TickEnds(i)
          /\ completed' \in {completed, completed \cup {taken[i]}}
          /\ UNCHANGED <<queue, state, disturbed>>
      BY <1>15 DEF TickDeregisters, TickFails, userVars
    <2>2. Waiting' = Waiting /\ Line' = Line
      BY <2>1 DEF Waiting, Queued, Line, Before
    <2>3. Stages[i] \in {"working", "reporting"}
      BY <2>1, StageValues DEF Stages
    <2>4. Service!Leave(i)
      BY <1>9, <2>1, <2>2, <2>3 DEF Service!Leave, Stages
    <2> QED BY <2>4 DEF Service!Next
  <1> QED BY <1>3, <1>4, <1>5, <1>6, <1>7, <1>8, <1>10, <1>11, <1>12, <1>13, <1>14, <1>15, <1>16
         DEF Next, Lifecycle, Tick

\* The scheduler is a TaskService, for any tasks, dependencies, priorities, limits
\* and number of overlapping ticks, with timers that nobody clears.
THEOREM SchedulerImplementsService == Spec => ImplementsService
  <1>1. Init => ServiceInv /\ Service!Init
    <2> SUFFICES ASSUME Init PROVE ServiceInv /\ Service!Init
      OBVIOUS
    <2>1. queue = <<>> /\ \A i \in Ticks : pc[i] = "idle"
      BY DEF Init
    <2>2. Typed /\ DependencyInv
      BY TypedInit DEF Init, DependencyInv
    <2>3. OnceInv /\ QueueInv
      BY <2>1 DEF OnceInv, Exclusive, Once, Queued, Works, QueueInv, Sorted
    <2>4. Waiting = {} /\ Line = {}
      BY <2>1 DEF Waiting, Queued, Line, Before
    <2>5. Stages = [i \in Ticks |-> "free"]
      BY <2>1, StageValues DEF Stages
    <2>6. Service!Init
      BY <2>4, <2>5 DEF Init, Service!Init, Stages
    <2> QED BY <2>2, <2>3, <2>6 DEF ServiceInv
  <1>2. ASSUME ServiceInv, [Next]_vars PROVE ServiceInv'
    BY <1>2, TypedStep, DependencyStep, OnceStep, QueueInvStep DEF ServiceInv
  <1>3. ServiceInv /\ [Next]_vars => [Service!Next]_Service!vars
    BY ServiceStep
  <1> QED BY <1>1, <1>2, <1>3, PTL DEF Spec, ImplementsService, Service!Spec

=============================================================================
