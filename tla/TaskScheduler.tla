---------------------------- MODULE TaskScheduler ----------------------------
(***************************************************************************)
(* The task scheduler of packages/core/src/task-scheduler:                 *)
(* TaskSchedulerEngine with its task, queue, trigger, dependency, retry,   *)
(* execution and resume managers.                                          *)
(*                                                                         *)
(* The timer of start() calls evaluateTriggers and processQueue without    *)
(* waiting for them, and users may call both, dequeue and executeTask too. *)
(* A call of processQueue (or of executeTask) that is under way is a tick: *)
(* it awaits the memory store between taking a task, starting it and       *)
(* registering its execution, so ticks overlap with one another, with the  *)
(* calls of users and with stop() and a new initialize().  start() awaits  *)
(* the store too, before it sets the timer.                                *)
(*                                                                         *)
(* A task stands for its object: the store and the ticks keep references,  *)
(* and a deleted task that is restored has whatever state they gave it.    *)
(***************************************************************************)
EXTENDS Integers, Sequences, FiniteSets

CONSTANTS
    Tasks,           \* task objects; the id of a deleted one is not reused
    Deps,            \* [Tasks -> SUBSET Tasks], task.dependencies
    Priority,        \* [Tasks -> 1..5], BACKGROUND .. CRITICAL
    Manual,          \* tasks created without an interval, a calendar or a nextRunAt
    MaxRetries,      \* retryPolicy.maxRetries
    ConcurrentLimit, \* config.concurrentLimit
    MaxQueueSize,    \* config.maxQueueSize
    MaxTicks,        \* bound: calls of processQueue and executeTask under way
    MaxCalls,        \* bound: calls of stop() and interventions of users
    None

ASSUME TasksAssumption == /\ IsFiniteSet(Tasks)
                          /\ Deps \in [Tasks -> SUBSET Tasks]
                          /\ Priority \in [Tasks -> 1..5]
                          /\ Manual \subseteq Tasks
ASSUME LimitsAssumption == /\ ConcurrentLimit \in Nat \ {0}
                           /\ MaxTicks \in Nat \ {0}
                           /\ {MaxRetries, MaxQueueSize, MaxCalls} \subseteq Nat
ASSUME NoTaskAssumption == None \notin Tasks

VARIABLES
    state,      \* TaskSchedulerEngine._state
    arming,     \* calls of start() that await the store and will set a timer
    timer,      \* _checkIntervalTimer is set
    orphaned,   \* history: a timer was set that _checkIntervalTimer has forgotten
    known,      \* keys of TaskManagerImpl.tasks
    st,         \* task.state, of every task object there is
    queue,      \* QueueManagerImpl.queue
    pc,         \* progress of every tick
    taken,      \* the task of a tick
    direct,     \* ticks that are calls of executeTask
    active,     \* keys of ExecutionManagerImpl.activeExecutions
    retries,    \* RetryHistory.retryCount
    unfinished, \* "unfinished_tasks" in the memory store, None if never stored
    recovering, \* what initialize() has yet to restore
    completed,  \* history: tasks an execution of which has completed
    disturbed,  \* history: tasks that users or a recovery have interfered with
    cleared,    \* history: tasks users have taken out of the queue
    stray,      \* history: deleted tasks that users asked executeTask for
    overlap,    \* history: how many ticks were in hand at a time, at most
    calls       \* calls of stop() and interventions so far

timerVars == <<arming, timer, orphaned>>
taskVars  == <<known, st, retries>>
tickVars  == <<pc, taken, direct, active>>
storeVars == <<unfinished, recovering>>
userVars  == <<disturbed, cleared, stray, calls>>
vars == <<state, timerVars, taskVars, queue, tickVars, storeVars, userVars,
          completed, overlap>>

Ticks == 1 .. MaxTicks
Queued(t) == \E i \in DOMAIN queue : queue[i] = t

\* A tick has taken a task from the queue (holding), has written RUNNING and
\* waits for the store (starting), is registered (executing), and has written
\* COMPLETED and waits for the store (finishing).
InHand    == {"holding", "starting"}
Executing == {"starting", "executing"}
At(phases) == {i \in Ticks : pc[i] \in phases}

TaskStates == {"NEW", "PENDING", "QUEUED", "WAITING", "RUNNING", "COMPLETED",
               "FAILED", "CANCELLED", "SKIPPED"}

TypeOK ==
    /\ state \in {"CREATED", "INITIALIZING", "STOPPED", "RUNNING", "STOPPING",
                  "FAILED"}
    /\ arming \in Nat /\ timer \in BOOLEAN /\ orphaned \in BOOLEAN
    /\ known \subseteq Tasks
    /\ st \in [Tasks -> TaskStates]
    /\ queue \in Seq(Tasks)
    /\ pc \in [Ticks -> {"idle", "holding", "starting", "executing", "finishing"}]
    /\ taken \in [Ticks -> Tasks \cup {None}]
    /\ direct \subseteq Ticks /\ active \subseteq Tasks
    /\ retries \in [Tasks -> 0..MaxRetries]
    /\ unfinished \in (SUBSET Tasks) \cup {None} /\ recovering \subseteq Tasks
    /\ completed \subseteq Tasks /\ disturbed \subseteq Tasks
    /\ cleared \subseteq Tasks /\ stray \subseteq Tasks
    /\ overlap \in Nat
    /\ calls \in 0..MaxCalls

Init ==
    /\ state = "CREATED"
    /\ arming = 0 /\ timer = FALSE /\ orphaned = FALSE
    /\ known = {} /\ st = [t \in Tasks |-> "NEW"]
    /\ queue = <<>>
    /\ pc = [i \in Ticks |-> "idle"] /\ taken = [i \in Ticks |-> None]
    /\ direct = {} /\ active = {}
    /\ retries = [t \in Tasks |-> 0]
    /\ unfinished = None /\ recovering = {}
    /\ completed = {} /\ disturbed = {} /\ cleared = {} /\ stray = {}
    /\ overlap = 0 /\ calls = 0

-----------------------------------------------------------------------------
(* The queue.  A definition named X_Y is a mutation of X, a plausible bug   *)
(* that the model checker must catch; no action uses it.                    *)

Behind_LeastUrgent(u, t) == Priority[u] <= Priority[t]

\* The comparison of enqueue's sort: an older entry of equal priority stays in
\* front.
Behind(u, t) == Priority[u] >= Priority[t]

\* The queue with t put where the sort leaves it.
Inserted(t) ==
    LET k == Cardinality({i \in DOMAIN queue : Behind(queue[i], t)})
    IN  SubSeq(queue, 1, k) \o <<t>> \o SubSeq(queue, k + 1, Len(queue))

\* validateQueueIntegrity throws, after the entry has been pushed.
Overflows(t) == ~Queued(t) /\ Len(queue) >= MaxQueueSize

\* QueueManagerImpl.enqueue, up to its first await.
Enqueue(t) ==
    /\ queue' = IF Queued(t) THEN queue ELSE Inserted(t)
    /\ st' = IF Queued(t) \/ Overflows(t) THEN st ELSE [st EXCEPT ![t] = "QUEUED"]
    /\ cleared' = cleared \ {t}

-----------------------------------------------------------------------------
(* The life of the scheduler                                                *)

Initialize ==
    /\ state \in {"CREATED", "STOPPED"}
    /\ state' = "INITIALIZING"
    /\ recovering' \in {{}} \cup ({unfinished} \ {None})
    /\ UNCHANGED <<timerVars, taskVars, queue, tickVars, unfinished, userVars,
                   completed, overlap>>

\* What the store hands back is its own entry and no list (MemoryStore.get): the
\* loop of initialize() cannot even begin.  A store of references hands back
\* the tasks, and one that fails, or holds nothing, nothing.
RecoveryFails ==
    /\ state = "INITIALIZING" /\ unfinished # None /\ recovering = unfinished
    /\ state' = "FAILED"
    /\ UNCHANGED <<timerVars, taskVars, queue, tickVars, storeVars, userVars,
                   completed, overlap>>

\* initialize(), one task of its loop: a queue that is full makes it fail for
\* good.
Recover(t) ==
    /\ state = "INITIALIZING" /\ t \in recovering
    /\ recovering' = recovering \ {t}
    /\ known' = known \cup {t}
    /\ \/ /\ st[t] \in {"QUEUED", "RUNNING"}
          /\ Enqueue(t)
          /\ state' = IF Overflows(t) THEN "FAILED" ELSE state
          /\ disturbed' = disturbed \cup {t}
       \/ /\ st[t] \notin {"QUEUED", "RUNNING"}
          /\ UNCHANGED <<queue, st, state, disturbed, cleared>>
    /\ UNCHANGED <<timerVars, retries, tickVars, unfinished, stray, calls,
                   completed, overlap>>

Initialized ==
    /\ state = "INITIALIZING" /\ recovering = {}
    /\ state' = "STOPPED"
    /\ UNCHANGED <<timerVars, taskVars, queue, tickVars, storeVars, userVars,
                   completed, overlap>>

\* start() up to its await of the store.
Start ==
    /\ state = "STOPPED"
    /\ state' = "RUNNING"
    /\ arming' = arming + 1
    /\ UNCHANGED <<timer, orphaned, taskVars, queue, tickVars, storeVars, userVars,
                   completed, overlap>>

\* start() after its await, whatever has been called meanwhile: the field holds
\* one timer, and another one that is still set can never be cleared.
TimerSet ==
    /\ arming > 0
    /\ arming' = arming - 1
    /\ timer' = TRUE
    /\ orphaned' = (orphaned \/ timer)
    /\ UNCHANGED <<state, taskVars, queue, tickVars, storeVars, userVars,
                   completed, overlap>>

Unfinished == {t \in known : st[t] \in {"QUEUED", "RUNNING"}}

\* stop() clears the timer, if start() has set it, and persists; ticks that are
\* under way go on.
Stop ==
    /\ calls < MaxCalls /\ state = "RUNNING"
    /\ state' = "STOPPING"
    /\ timer' = FALSE
    /\ unfinished' = Unfinished
    /\ calls' = calls + 1
    /\ UNCHANGED <<arming, orphaned, taskVars, queue, tickVars, recovering,
                   disturbed, cleared, stray, completed, overlap>>

Stopped ==
    /\ state = "STOPPING"
    /\ state' = "STOPPED"
    /\ UNCHANGED <<timerVars, taskVars, queue, tickVars, storeVars, userVars,
                   completed, overlap>>

-----------------------------------------------------------------------------
(* What users do to tasks, to the queue and to executions                   *)

CreateTask(t) ==
    /\ st[t] = "NEW"
    /\ known' = known \cup {t}
    /\ st' = [st EXCEPT ![t] = "PENDING"]
    /\ UNCHANGED <<state, timerVars, retries, queue, tickVars, storeVars, userVars,
                   completed, overlap>>

DeleteTask(t) ==
    /\ calls < MaxCalls /\ t \in known
    /\ known' = known \ {t}
    /\ calls' = calls + 1
    /\ UNCHANGED <<state, timerVars, st, retries, queue, tickVars, storeVars,
                   disturbed, cleared, stray, completed, overlap>>

\* pauseTask, resumeTask, cancelTask and archiveTask write the state of the
\* task, whatever it was, and leave queue and execution alone.
SetState(t) ==
    /\ calls < MaxCalls /\ t \in known
    /\ \E s \in {"WAITING", "PENDING", "CANCELLED", "SKIPPED"} :
          /\ st' = [st EXCEPT ![t] = s]
          /\ disturbed' = IF s = "PENDING" THEN disturbed \cup {t} ELSE disturbed
    /\ calls' = calls + 1
    /\ UNCHANGED <<state, timerVars, known, retries, queue, tickVars, storeVars,
                   cleared, stray, completed, overlap>>

\* enqueue, of a task that may have been deleted (the entry stays, and the call
\* throws).  The first call for a manual task is not counted.
EnqueueTask(t) ==
    /\ st[t] # "NEW"
    /\ \/ calls < MaxCalls /\ calls' = calls + 1
       \/ t \in Manual \ disturbed /\ UNCHANGED calls
    /\ Enqueue(t)
    /\ disturbed' = disturbed \cup {t}
    /\ UNCHANGED <<state, timerVars, known, retries, tickVars, storeVars, stray,
                   completed, overlap>>

\* dequeue, of a caller who keeps the entry, or clearQueue.
Withdraw ==
    /\ calls < MaxCalls /\ queue # <<>>
    /\ \/ /\ queue' = Tail(queue)
          /\ cleared' = cleared \cup {Head(queue)}
       \/ /\ queue' = <<>>
          /\ cleared' = cleared \cup {t \in Tasks : Queued(t)}
    /\ calls' = calls + 1
    /\ UNCHANGED <<state, timerVars, taskVars, tickVars, storeVars, disturbed, stray,
                   completed, overlap>>

LowestIdle(i) == pc[i] = "idle" /\ \A j \in Ticks : pc[j] = "idle" => i <= j

\* executeTask up to its first await, with neither queue nor dependencies nor
\* limit: updateTask throws if the task has been deleted.
ExecuteTask(t) ==
    /\ calls < MaxCalls /\ st[t] # "NEW"
    /\ st' = [st EXCEPT ![t] = "RUNNING"]
    /\ disturbed' = disturbed \cup {t}
    /\ calls' = calls + 1
    /\ \/ /\ t \notin known
          /\ stray' = stray \cup {t}
          /\ UNCHANGED tickVars
       \/ /\ t \in known
          /\ \E i \in Ticks :
                /\ LowestIdle(i)
                /\ pc' = [pc EXCEPT ![i] = "starting"]
                /\ taken' = [taken EXCEPT ![i] = t]
                /\ direct' = direct \cup {i}
          /\ UNCHANGED <<active, stray>>
    /\ UNCHANGED <<state, timerVars, known, retries, queue, storeVars, cleared,
                   completed, overlap>>

-----------------------------------------------------------------------------
(* evaluateTriggers and processQueue, called by the timer or by users       *)

Triggerable_Requeues(t) == st[t] \in {"PENDING", "RUNNING"}

\* evaluateTriggers considers pending tasks only.
Triggerable(t) == st[t] = "PENDING"

\* Some time the schedule says so: a task without one is due only once a retry
\* has set nextRunAt.
BecomesDue(t) == t \notin Manual \/ retries[t] > 0

\* evaluateTriggers finds a task due and enqueues it, one that it has listed
\* and that was deleted while it awaited the enqueue of another one too.  It
\* does not ask whether the scheduler runs.
TriggerFires(t) ==
    /\ Triggerable(t) /\ BecomesDue(t)
    /\ Enqueue(t)
    /\ disturbed' = IF Overflows(t) THEN disturbed \cup {t} ELSE disturbed
    /\ UNCHANGED <<state, timerVars, known, retries, tickVars, storeVars, stray,
                   calls, completed, overlap>>

BelowLimit_OffByOne == Cardinality(active) <= ConcurrentLimit

\* processQueue: activeExecs >= limit returns.
BelowLimit == Cardinality(active) < ConcurrentLimit

\* processQueue up to the await of dequeue, in the lowest free tick.
TickTakes(i) ==
    /\ LowestIdle(i)
    /\ state = "RUNNING" /\ BelowLimit /\ queue # <<>>
    /\ pc' = [pc EXCEPT ![i] = "holding"]
    /\ taken' = [taken EXCEPT ![i] = Head(queue)]
    /\ queue' = Tail(queue)
    /\ LET inHand == Cardinality(At(InHand)) + 1
       IN  overlap' = IF inHand > overlap THEN inHand ELSE overlap
    /\ UNCHANGED <<state, timerVars, taskVars, direct, active, storeVars, userVars,
                   completed>>

TickEnds(i) ==
    /\ pc' = [pc EXCEPT ![i] = "idle"]
    /\ taken' = [taken EXCEPT ![i] = None]
    /\ direct' = direct \ {i}

\* evaluateDependencies.
DependencyFailed(t) ==
    \E d \in Deps[t] : d \notin known \/ st[d] \in {"FAILED", "CANCELLED"}

DependencyWaits_RunningIsEnough(t) ==
    \E d \in Deps[t] : st[d] \notin {"COMPLETED", "RUNNING"}

DependencyWaits(t) == \E d \in Deps[t] : st[d] # "COMPLETED"

\* The task was deleted: getTask throws and the tick's rejection is swallowed.
TickDrops(i) ==
    /\ pc[i] = "holding" /\ taken[i] \notin known
    /\ TickEnds(i)
    /\ UNCHANGED <<state, timerVars, taskVars, queue, active, storeVars, userVars,
                   completed, overlap>>

PutBack_Forgets(t) == UNCHANGED <<queue, st, cleared>>

\* processQueue: "Re-enqueue/hold".
PutBack(t) == Enqueue(t)

TickPutsBack(i) ==
    LET t == taken[i]
    IN  /\ pc[i] = "holding" /\ t \in known
        /\ DependencyWaits(t) /\ ~DependencyFailed(t)
        /\ TickEnds(i)
        /\ PutBack(t)
        /\ disturbed' = IF Overflows(t) THEN disturbed \cup {t} ELSE disturbed
        /\ UNCHANGED <<state, timerVars, known, retries, active, storeVars, stray,
                       calls, completed, overlap>>

TickSkips(i) ==
    LET t == taken[i]
    IN  /\ pc[i] = "holding" /\ t \in known
        /\ DependencyFailed(t)
        /\ TickEnds(i)
        /\ st' = [st EXCEPT ![t] = "SKIPPED"]
        /\ UNCHANGED <<state, timerVars, known, retries, queue, active, storeVars,
                       userVars, completed, overlap>>

\* executeTask up to its first await.
TickExecutes(i) ==
    LET t == taken[i]
    IN  /\ pc[i] = "holding" /\ t \in known
        /\ ~DependencyWaits(t) /\ ~DependencyFailed(t)
        /\ pc' = [pc EXCEPT ![i] = "starting"]
        /\ st' = [st EXCEPT ![t] = "RUNNING"]
        /\ UNCHANGED <<state, timerVars, known, retries, queue, taken, direct, active,
                       storeVars, userVars, completed, overlap>>

TickRegisters(i) ==
    /\ pc[i] = "starting"
    /\ pc' = [pc EXCEPT ![i] = "executing"]
    /\ active' = active \cup {taken[i]}
    /\ UNCHANGED <<state, timerVars, taskVars, queue, taken, direct, storeVars,
                   userVars, completed, overlap>>

\* COMPLETED is written over whatever users have written meanwhile.
TickCompletes(i) ==
    LET t == taken[i]
    IN  /\ pc[i] = "executing" /\ t \in known
        /\ pc' = [pc EXCEPT ![i] = "finishing"]
        /\ st' = [st EXCEPT ![t] = "COMPLETED"]
        /\ completed' = completed \cup {t}
        /\ UNCHANGED <<state, timerVars, known, retries, queue, taken, direct, active,
                       storeVars, userVars, overlap>>

TickDeregisters(i) ==
    /\ pc[i] = "finishing"
    /\ TickEnds(i)
    /\ active' = active \ {taken[i]}
    /\ UNCHANGED <<state, timerVars, taskVars, queue, storeVars, userVars,
                   completed, overlap>>

MayRetry_OnceMore(t) == retries[t] <= MaxRetries

\* shouldRetry.
MayRetry(t) == retries[t] < MaxRetries

\* The catch of processQueue, for an execution that failed.
RetryOrFail(t) ==
    IF MayRetry(t)
    THEN /\ retries' = [retries EXCEPT ![t] = @ + 1]
         /\ st' = [st EXCEPT ![t] = "PENDING"]
    ELSE /\ st' = [st EXCEPT ![t] = "FAILED"]
         /\ UNCHANGED retries

\* The task was deleted between getTask and its continuation: it has no
\* dependencies any more, and executeTask throws before it registers it.
TickMisses(i) ==
    /\ pc[i] = "holding" /\ taken[i] \notin known
    /\ TickEnds(i)
    /\ RetryOrFail(taken[i])
    /\ UNCHANGED <<state, timerVars, known, queue, active, storeVars, userVars,
                   completed, overlap>>

\* updateTask does not find a task that was deleted: the execution fails, and
\* processQueue leaves the task for a retry or as FAILED, while a caller of
\* executeTask leaves it as the execution has.
TickFails(i) ==
    LET t == taken[i]
    IN  /\ pc[i] = "executing" /\ t \notin known
        /\ TickEnds(i)
        /\ active' = active \ {t}
        /\ \/ /\ i \notin direct
              /\ RetryOrFail(t)
              /\ UNCHANGED completed
           \/ /\ i \in direct
              /\ st' = [st EXCEPT ![t] = "COMPLETED"]
              /\ completed' = completed \cup {t}
              /\ UNCHANGED retries
        /\ UNCHANGED <<state, timerVars, known, queue, storeVars, userVars, overlap>>

-----------------------------------------------------------------------------
Tick(i) ==
    \/ TickDrops(i) \/ TickMisses(i) \/ TickPutsBack(i) \/ TickSkips(i)
    \/ TickExecutes(i) \/ TickRegisters(i) \/ TickCompletes(i) \/ TickDeregisters(i)
    \/ TickFails(i)

Lifecycle ==
    \/ RecoveryFails \/ Initialized \/ TimerSet \/ Stopped
    \/ \E t \in Tasks : Recover(t)

Next ==
    \/ Initialize \/ Start \/ Stop \/ Lifecycle
    \/ \E t \in Tasks : CreateTask(t) \/ DeleteTask(t) \/ SetState(t)
    \/ \E t \in Tasks : EnqueueTask(t) \/ ExecuteTask(t) \/ TriggerFires(t)
    \/ Withdraw
    \/ \E i \in Ticks : TickTakes(i) \/ Tick(i)

Spec == Init /\ [][Next]_vars

\* A timer that is set fires again and again: processQueue is called, and some
\* task that may be triggered becomes due.  The store answers: every tick ends,
\* which is WF_vars(Tick(i)), since a tick that is not idle can always go on and
\* has four steps at most.  A task that was deleted is found due only by the calls
\* of evaluateTriggers that have listed it before, which end.
Fires == timer \/ orphaned

Fairness ==
    /\ WF_vars(Lifecycle)
    /\ WF_vars(Fires /\ \E i \in Ticks : TickTakes(i))
    /\ \A i \in Ticks : []<>(pc[i] = "idle")
    /\ WF_vars(Fires /\ \E t \in known : TriggerFires(t))
    /\ <>[][~ \E t \in Tasks \ known : TriggerFires(t)]_vars

FairSpec == Spec /\ Fairness

-----------------------------------------------------------------------------
(* Properties                                                               *)

\* Whatever users, triggers, overlapping ticks and restarts do, what a task
\* says of itself is true: a queued task is in the queue or in the hands of a
\* tick that took it (unless a user took it out of the queue, dequeue or
\* clearQueue), and a running one has an execution under way (unless executeTask
\* was called for a deleted task).  No task is stranded in a state nobody will
\* change.
NoStrandedTask ==
    /\ \A t \in known : st[t] = "QUEUED" =>
          \/ Queued(t) \/ t \in cleared
          \/ \E i \in At({"holding"}) : taken[i] = t
    /\ \A t \in Tasks : st[t] = "RUNNING" =>
          \/ t \in stray
          \/ \E i \in At(Executing) : taken[i] = t

\* The executions, and the ticks on their way to one, of tasks nobody has
\* interfered with.
OwnExecutions == {i \in At(InHand \cup Executing) : taken[i] \notin disturbed}

\* processQueue checks the limit two awaits before an execution is registered.
\* However ticks overlap, the executions of the scheduler's own making exceed
\* the limit by no more than the other ticks that were in between at one time:
\* not at all, where no two calls ever overlapped there.  Every execution
\* counts, not the keys of activeExecutions the code counts by.
LimitExceededByOverlap ==
    Cardinality(OwnExecutions) <= ConcurrentLimit + overlap - 1

\* A task is executed once at a time, unless users resumed, enqueued or executed
\* it while it was under way, a recovery enqueued it, or the queue overflowed
\* with it.
OneExecution ==
    \A i, j \in At(Executing) :
        taken[i] = taken[j] /\ taken[i] \notin disturbed => i = j

\* processQueue executes a task only after each of its dependencies has
\* completed an execution, whatever order triggers and ticks took them in.
AfterDependencies ==
    \A i \in At(Executing) \ direct : Deps[taken[i]] \subseteq completed

Undisturbed ==
    /\ state = "RUNNING" /\ cleared = {}
    /\ \A d \in Tasks : st[d] \notin {"WAITING", "SKIPPED"}

InLine(t) == Queued(t) \/ \E i \in At({"holding"}) : taken[i] = t

\* A more urgent task in the line waits for a dependency: it is put back in front
\* of t.
Overtaken(t) ==
    \E u \in known : Priority[u] > Priority[t] /\ InLine(u) /\ DependencyWaits(u)

\* t waits for a task that nothing will make due, or that does not get a turn
\* itself.
WaitsInVain(t) ==
    \E d \in Deps[t] :
        \/ st[d] = "PENDING" /\ ~BecomesDue(d)
        \/ InLine(d) /\ (Overtaken(d) \/ DependencyWaits(d))

\* While the scheduler runs, no task is paused or skipped and users take nothing
\* out of the queue, a task stays queued for ever only because more urgent ones
\* that wait for their dependencies are put back in front of it, or because it
\* waits itself, for such a task or for one that never becomes due.  Any other
\* task gets a turn: it is executed, or skipped as its dependencies failed.
QueuedSettles ==
    \A t \in Tasks :
        <>[](st[t] = "QUEUED" /\ t \in known /\ Undisturbed)
            => <>[](Overtaken(t) \/ WaitsInVain(t))
-----------------------------------------------------------------------------
(* Refinement of TaskService                                                *)

\* a and b are in the queue, a in front of b.
Before(a, b) ==
    \E i, j \in DOMAIN queue : i < j /\ queue[i] = a /\ queue[j] = b

Waiting == {t \in Tasks : Queued(t)}
Line    == {p \in Tasks \X Tasks : Before(p[1], p[2])}

Stage(phase) ==
    CASE phase = "idle"      -> "free"
      [] phase = "holding"   -> "deciding"
      [] phase \in Executing -> "working"
      [] phase = "finishing" -> "reporting"

Service == INSTANCE TaskService WITH
    Workers <- Ticks,
    open    <- (state = "RUNNING"),
    waiting <- Waiting,
    line    <- Line,
    stage   <- [i \in Ticks |-> Stage(pc[i])],
    desk    <- taken,
    done    <- completed,
    meddled <- disturbed

\* The scheduler is a TaskService: whatever triggers, users, overlapping ticks,
\* restarts and timers nobody clears do, tasks are taken in the order of the
\* line and only while the scheduler runs, begin after what they depend on,
\* and are not worked at twice at a time.
ImplementsService == Service!Spec

=============================================================================
