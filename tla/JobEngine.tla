------------------------------ MODULE JobEngine ------------------------------
(***************************************************************************)
(* The job engine of packages/core/src/jobs: JobEngine, JobExecutor,       *)
(* JobQueue, Job and the pass-through JobScheduler.                        *)
(*                                                                         *)
(* The program is single-threaded: an action is the code between two       *)
(* awaits.  What may happen at an await is another action: a bus publish   *)
(* settles, a job's function settles, a caller uses the engine, a promise  *)
(* continuation runs.  Subscribers of "job.started" are called from inside *)
(* the loop of _processQueue, so callers may also use the engine between   *)
(* two iterations of that loop (variables loops and userCode).             *)
(*                                                                         *)
(* An entry is one call of submit: it is numbered with the sequence number *)
(* the queue gives it, and it becomes the execution of its job.            *)
(***************************************************************************)
EXTENDS Integers, FiniteSets

CONSTANTS
    Jobs,            \* Job objects callers hold
    Priority,        \* [Jobs -> 0..3], JobPriority
    MaxConcurrency,  \* options.maxConcurrency
    Stoppers,        \* calls of stop(), each made at most once
    MaxSubmits,      \* bound: successful calls of submit()
    Resubmission,    \* may a job be submitted again before it is final?
    Restart,         \* may start() be called while the engine is stopping?
    BusMayThrow,     \* may eventBus.publish reject (middleware, filter)?
    None

ASSUME JobsAssumption == /\ Priority \in [Jobs -> 0..3]
                         /\ IsFiniteSet(Jobs)
ASSUME LimitAssumption == MaxConcurrency \in Nat \ {0} /\ MaxSubmits \in Nat
ASSUME FlagAssumption == {Resubmission, Restart, BusMayThrow} \subseteq BOOLEAN
ASSUME NoneAssumption == None \notin Jobs \cup Stoppers \cup Nat

VARIABLES
    state,      \* JobEngine._state
    resolver,   \* the stop() call whose promise _shutdownResolve resolves
    stops,      \* progress of every stop() call
    nextSeq,    \* JobQueue._nextSequenceNumber
    jobOf,      \* the job of an entry
    pc,         \* progress of an entry: queue, execution, end
    aborted,    \* entries whose AbortController has fired
    submitting, \* entries whose submit() awaits publish("job.queued")
    thrown,     \* history: entries left in the queue by a submit() that has thrown
    active,     \* JobEngine._activeJobs: job -> the execution it registers
    history,    \* keys of JobEngine._history
    status,     \* Job._status
    loops,      \* nested calls of _processQueue that are inside the loop
    userCode,   \* a subscriber called by the innermost loop is running
    unhandled   \* an execution's promise rejected with nobody to catch it

engineVars == <<state, resolver, stops>>
entryVars  == <<nextSeq, jobOf, pc, aborted, submitting, thrown>>
jobVars    == <<active, history, status>>
loopVars   == <<loops, userCode>>
vars       == <<engineVars, entryVars, jobVars, loopVars, unhandled>>

Entries == 0 .. MaxSubmits - 1
Final   == {"COMPLETED", "FAILED", "CANCELLED"}

\* An execution waits, in this order, for the publication of job.started,
\* for the job's function, and for the publication of its outcome; or an
\* exception has left the executor, and it waits for the finally clause.
Running == {"starting", "body", "publishing", "rejected"}

TypeOK ==
    /\ state \in {"stopped", "running", "stopping"}
    /\ resolver \in Stoppers \cup {None}
    /\ stops \in [Stoppers -> {"unused", "waiting", "resolved", "returned"}]
    /\ nextSeq \in 0 .. MaxSubmits
    /\ jobOf \in [Entries -> Jobs \cup {None}]
    /\ pc \in [Entries -> {"unused", "queued", "removed", "done"} \cup Running]
    /\ aborted \subseteq Entries
    /\ submitting \subseteq Entries /\ thrown \subseteq Entries
    /\ active \in [Jobs -> Entries \cup {None}]
    /\ history \subseteq Jobs
    /\ status \in [Jobs -> {"PENDING", "QUEUED", "RUNNING"} \cup Final]
    /\ loops \in Nat
    /\ userCode \in BOOLEAN
    /\ unhandled \in BOOLEAN

Init ==
    /\ state = "stopped"
    /\ resolver = None
    /\ stops = [s \in Stoppers |-> "unused"]
    /\ nextSeq = 0
    /\ jobOf = [e \in Entries |-> None]
    /\ pc = [e \in Entries |-> "unused"]
    /\ aborted = {}
    /\ submitting = {} /\ thrown = {}
    /\ active = [j \in Jobs |-> None]
    /\ history = {}
    /\ status = [j \in Jobs |-> "PENDING"]
    /\ loops = 0
    /\ userCode = FALSE
    /\ unhandled = FALSE

-----------------------------------------------------------------------------
(* Helpers.  A definition named X_Y is a mutation of X, a plausible bug    *)
(* that the model checker must catch; no action uses it.                   *)

Queue      == {e \in Entries : pc[e] = "queued"}
Live       == {e \in Entries : pc[e] \in Running}
ActiveJobs == {j \in Jobs : active[j] # None}

Mutable_AfterCancel(j) == status[j] \notin {"COMPLETED", "FAILED"}

\* Job.ensureMutable lets the operation go on.
Mutable(j) == status[j] \notin Final

Precedes_Unstable(e, f) == Priority[jobOf[e]] >= Priority[jobOf[f]]
Precedes_Fifo(e, f) == e < f

\* The order JobQueue.sort keeps: urgent first, then first come first served.
Precedes(e, f) ==
    \/ Priority[jobOf[e]] > Priority[jobOf[f]]
    \/ Priority[jobOf[e]] = Priority[jobOf[f]] /\ e < f

IsHead(e) == e \in Queue /\ \A f \in Queue \ {e} : Precedes(e, f)

SlotFree_OffByOne == Cardinality(ActiveJobs) <= MaxConcurrency

\* The loop condition of _processQueue.
SlotFree == Cardinality(ActiveJobs) < MaxConcurrency

TakenOut_Kept(j) == pc

\* pc after JobQueue.remove(j).
TakenOut(j) ==
    [e \in Entries |-> IF e \in Queue /\ jobOf[e] = j THEN "removed" ELSE pc[e]]

\* Callers run when no engine code does, or as subscribers inside a loop.
CallersRun == loops = 0 \/ userCode
EngineIdle == loops = 0

ProcessQueue_StaleActive ==
    IF state = "running" /\ ActiveJobs = {}
    THEN loops' = loops + 1 /\ userCode' = FALSE
    ELSE UNCHANGED loopVars

\* A call of _processQueue: it enters its loop only when running.
ProcessQueue ==
    IF state = "running"
    THEN loops' = loops + 1 /\ userCode' = FALSE
    ELSE UNCHANGED loopVars

-----------------------------------------------------------------------------
(* JobEngine: the calls of its users.                                      *)

\* start() on a running engine does nothing.
Start ==
    /\ CallersRun
    /\ state # "running"
    /\ Restart \/ state = "stopped"
    /\ state' = "running"
    /\ loops' = loops + 1 /\ userCode' = FALSE
    /\ UNCHANGED <<resolver, stops, entryVars, jobVars, unhandled>>

\* stop() on an engine that is not running: the call returns at once.
StopAgain(s) ==
    /\ CallersRun
    /\ stops[s] = "unused"
    /\ state # "running"
    /\ stops' = [stops EXCEPT ![s] = "returned"]
    /\ UNCHANGED <<state, resolver, entryVars, jobVars, loopVars, unhandled>>

MustWait_QueueOnly == Queue # {}

\* stop() waits for the active jobs, not for the queue.
MustWait == ActiveJobs # {}

\* stop() on a running engine: wait for the active jobs, if there are any.
Stop(s) ==
    /\ CallersRun
    /\ stops[s] = "unused"
    /\ state = "running"
    /\ IF MustWait
       THEN /\ state' = "stopping"
            /\ resolver' = s
            /\ stops' = [stops EXCEPT ![s] = "waiting"]
       ELSE /\ state' = "stopped"
            /\ resolver' = None
            /\ stops' = [stops EXCEPT ![s] = "returned"]
    /\ UNCHANGED <<entryVars, jobVars, loopVars, unhandled>>

\* The continuation of stop() after its promise was resolved.
StopContinues(s) ==
    /\ EngineIdle
    /\ stops[s] = "resolved"
    /\ state' = "stopped"
    /\ resolver' = None
    /\ stops' = [stops EXCEPT ![s] = "returned"]
    /\ UNCHANGED <<entryVars, jobVars, loopVars, unhandled>>

\* submit(job) up to its await: JobQueue.enqueue calls Job.queue, which
\* throws (and changes nothing) for a job in a final status.
Submit(j) ==
    /\ CallersRun
    /\ state = "running"
    /\ Mutable(j)
    /\ Resubmission \/ status[j] \notin {"QUEUED", "RUNNING"}
    /\ nextSeq < MaxSubmits
    /\ nextSeq' = nextSeq + 1
    /\ jobOf' = [jobOf EXCEPT ![nextSeq] = j]
    /\ pc' = [pc EXCEPT ![nextSeq] = "queued"]
    /\ status' = [status EXCEPT ![j] = "QUEUED"]
    /\ submitting' = submitting \cup {nextSeq}
    /\ UNCHANGED <<engineVars, aborted, thrown, active, history, loopVars, unhandled>>

\* submit(job) after its await; a rejected publish skips _processQueue.
SubmitPublished(e) ==
    /\ EngineIdle
    /\ e \in submitting
    /\ submitting' = submitting \ {e}
    /\ \/ ProcessQueue /\ UNCHANGED thrown
       \/ BusMayThrow /\ thrown' = thrown \cup (Queue \cap {e}) /\ UNCHANGED loopVars
    /\ UNCHANGED <<engineVars, nextSeq, jobOf, pc, aborted, jobVars, unhandled>>

CancelActive_Unchecked(j) ==
    /\ CallersRun
    /\ aborted' = aborted \cup {active[j]}
    /\ UNCHANGED <<engineVars, nextSeq, jobOf, pc, submitting, thrown, jobVars,
                   loopVars, unhandled>>

\* cancel(id) of an active job fires the AbortController of its execution.
CancelActive(j) ==
    /\ CallersRun
    /\ active[j] # None
    /\ aborted' = aborted \cup {active[j]}
    /\ UNCHANGED <<engineVars, nextSeq, jobOf, pc, submitting, thrown, jobVars,
                   loopVars, unhandled>>

\* cancel(id) of a queued job removes its entries, then cancels the job;
\* Job.cancel throws for a final job, before the history is written.
CancelQueued(j) ==
    /\ CallersRun
    /\ active[j] = None
    /\ \E e \in Queue : jobOf[e] = j
    /\ pc' = TakenOut(j)
    /\ thrown' = thrown \cap Queue'
    /\ IF Mutable(j)
       THEN /\ status' = [status EXCEPT ![j] = "CANCELLED"]
            /\ history' = history \cup {j}
       ELSE UNCHANGED <<status, history>>
    /\ UNCHANGED <<engineVars, nextSeq, jobOf, aborted, submitting, active,
                   loopVars, unhandled>>

-----------------------------------------------------------------------------
(* The loop of _processQueue.                                              *)

\* An execution gives its job the status st and goes on to its next await;
\* if Job.ensureMutable throws, so does Job.fail in the catch clause, and
\* the execution rejects.
Advance(e, st, next) ==
    IF Mutable(jobOf[e])
    THEN /\ status' = [status EXCEPT ![jobOf[e]] = st]
         /\ pc' = [pc EXCEPT ![e] = next]
    ELSE /\ pc' = [pc EXCEPT ![e] = "rejected"]
         /\ UNCHANGED status

\* One iteration: the head of the queue becomes an execution, which runs up
\* to its first await.  Job.start, then Job.fail, throw for a final job.
Dequeue(e) ==
    /\ loops > 0
    /\ SlotFree
    /\ IsHead(e)
    /\ active' = [active EXCEPT ![jobOf[e]] = e]
    /\ Advance(e, "RUNNING", "starting")
    /\ thrown' = thrown \ {e}
    /\ userCode' = Mutable(jobOf[e])
    /\ UNCHANGED <<engineVars, nextSeq, jobOf, aborted, submitting, history,
                   loops, unhandled>>

LoopEnds ==
    /\ loops > 0
    /\ Queue = {} \/ ~SlotFree
    /\ loops' = loops - 1
    /\ userCode' = (loops > 1)
    /\ UNCHANGED <<engineVars, entryVars, jobVars, unhandled>>

-----------------------------------------------------------------------------
(* JobExecutor.execute after its first await, and the finally clause.      *)

AbortSeen_Never(e) == FALSE

\* signal.aborted, as the execution reads it.
AbortSeen(e) == e \in aborted

\* The catch clause, for an error that is or is not an abort error.
Catch(e, isAbort) ==
    IF AbortSeen(e) \/ isAbort
    THEN Advance(e, "CANCELLED", "publishing")
    ELSE Advance(e, "FAILED", "publishing")

\* publish("job.started") resolves, or rejects with some error.
StartedPublished(e) ==
    /\ EngineIdle
    /\ pc[e] = "starting"
    /\ \/ /\ ~AbortSeen(e)
          /\ pc' = [pc EXCEPT ![e] = "body"]
          /\ UNCHANGED status
       \/ /\ AbortSeen(e)
          /\ Catch(e, TRUE)
       \/ /\ BusMayThrow
          /\ \E isAbort \in BOOLEAN : Catch(e, isAbort)
    /\ UNCHANGED <<engineVars, nextSeq, jobOf, aborted, submitting, thrown, active,
                   history, loopVars, unhandled>>

\* The job's function returns (the abort signal is checked once more), or
\* throws an error that is or is not an abort error.
BodySettles(e) ==
    /\ EngineIdle
    /\ pc[e] = "body"
    /\ \/ /\ ~AbortSeen(e)
          /\ Advance(e, "COMPLETED", "publishing")
       \/ \E isAbort \in BOOLEAN : Catch(e, isAbort)
    /\ UNCHANGED <<engineVars, nextSeq, jobOf, aborted, submitting, thrown, active,
                   history, loopVars, unhandled>>

LastActive_BeforeDelete(e) == ActiveJobs = {}

\* No other job is active once e's job is deleted from the active jobs.
LastActive(e) == ActiveJobs \subseteq {jobOf[e]}

\* The outcome is published and the finally clause runs: forget the job and
\* its controller, then let the waiting stop() go on or look for the next
\* job.  When publish("job.completed") rejects, the catch clause asks for a
\* second final status and throws; the other two are not caught at all.
Finally(e) ==
    /\ EngineIdle
    /\ pc[e] \in {"publishing", "rejected"}
    /\ pc' = [pc EXCEPT ![e] = "done"]
    /\ active' = [active EXCEPT ![jobOf[e]] = None]
    /\ history' = history \cup {jobOf[e]}
    /\ aborted' = aborted \ {e}
    /\ \/ unhandled' = (unhandled \/ pc[e] = "rejected")
       \/ BusMayThrow /\ unhandled' = TRUE
    /\ IF state = "stopping" /\ LastActive(e)
       THEN /\ stops' = IF resolver = None THEN stops
                        ELSE [stops EXCEPT ![resolver] = "resolved"]
            /\ UNCHANGED loopVars
       ELSE /\ UNCHANGED stops
            /\ ProcessQueue
    /\ UNCHANGED <<state, resolver, nextSeq, jobOf, submitting, thrown, status>>

-----------------------------------------------------------------------------

Callers ==
    \/ Start
    \/ \E s \in Stoppers : StopAgain(s) \/ Stop(s)
    \/ \E j \in Jobs : Submit(j) \/ CancelActive(j) \/ CancelQueued(j)

Continuations ==
    \/ \E s \in Stoppers : StopContinues(s)
    \/ \E e \in Entries :
          \/ SubmitPublished(e) \/ StartedPublished(e) \/ BodySettles(e)
          \/ Finally(e)

Loop == LoopEnds \/ \E e \in Entries : Dequeue(e)

Next == Callers \/ Continuations \/ Loop

Spec == Init /\ [][Next]_vars

\* The JavaScript runtime runs every continuation that is due, the bus
\* settles every publish, and (an assumption on the jobs: the engine has no
\* timeout) every job's function settles.
Fairness ==
    /\ WF_vars(Loop)
    /\ \A s \in Stoppers : WF_vars(StopContinues(s))
    /\ \A e \in Entries :
          /\ WF_vars(SubmitPublished(e))
          /\ WF_vars(StartedPublished(e))
          /\ WF_vars(BodySettles(e))
          /\ WF_vars(Finally(e))

FairSpec == Spec /\ Fairness

-----------------------------------------------------------------------------
(* Safety.                                                                 *)

\* options.maxConcurrency bounds the executions that have begun and not yet
\* reached their finally clause, not just the size of _activeJobs.
ConcurrencyLimit == Cardinality(Live) <= MaxConcurrency

\* Every submitted job is in exactly one of the queue, the active jobs and
\* the history, under the execution that is its own, and its status agrees:
\* get() finds it and snapshot() counts it once.
OnePlace ==
    \A j \in Jobs :
        /\ status[j] = "QUEUED" <=> \E e \in Queue : jobOf[e] = j
        /\ status[j] = "RUNNING" => active[j] # None
        /\ active[j] # None => active[j] \in Live /\ jobOf[active[j]] = j
        /\ \A e \in Live : jobOf[e] = j => active[j] = e
        /\ \A e, f \in Queue \cup Live : jobOf[e] = j /\ jobOf[f] = j => e = f
        /\ j \in history <=> status[j] \in Final /\ active[j] = None

\* Among entries of the same or a lower priority, no execution began while
\* an entry submitted earlier is still in the queue.
NoOvertaking ==
    \A e, f \in Entries :
        /\ pc[e] = "queued"
        /\ pc[f] \in Running \cup {"done"}
        /\ Priority[jobOf[f]] <= Priority[jobOf[e]]
        => f < e

\* A final status is final: Job.ensureMutable is asked wherever a status is
\* written, whatever is submitted, cancelled or settled after that.
FinalIsForever ==
    [][\A j \in Jobs : status[j] \in Final => status'[j] = status[j]]_vars

\* Once cancel() has fired the abort signal of a running job, its execution
\* does not enter the job's function any more, and the job can only end
\* cancelled: whichever await the abort arrives at is followed by a check.
AbortIsHonoured ==
    [][\A e \in aborted :
          /\ pc[e] = "starting" => pc'[e] # "body"
          /\ status[jobOf[e]] = "RUNNING" =>
                status'[jobOf[e]] \in {"RUNNING", "CANCELLED"}]_vars

\* A stopped engine has no execution left, and a stop() waits for an execution
\* whose finally clause will resolve it (when start() is not called while a stop()
\* is waiting).
StoppedIsIdle ==
    /\ state = "stopped" => Live = {}
    /\ \A s \in Stoppers : stops[s] = "waiting" =>
          state = "stopping" /\ resolver = s /\ Live # {}

\* No lost wake-up: when a running engine has a free slot and is not in the loop
\* of _processQueue, a job that is still queued is one whose submit() has yet to
\* call it, or one whose submit() has thrown because job.queued was refused.
BacklogHasWaker ==
    state = "running" /\ SlotFree /\ loops = 0 => Queue \subseteq submitting \cup thrown

\* No execution's promise rejects: nothing would catch it.
NoUnhandledRejection == ~unhandled

-----------------------------------------------------------------------------
(* Liveness.                                                               *)

\* A stop() that waits for active jobs returns.
StopReturns == \A s \in Stoppers : stops[s] = "waiting" ~> stops[s] = "returned"

\* A job that was accepted ends, unless the engine is told to stop first.
EveryJobEnds ==
    \A j \in Jobs :
        status[j] \in {"QUEUED", "RUNNING"} /\ state = "running"
            ~> status[j] \in Final \/ state # "running"

-----------------------------------------------------------------------------
(* Refinement of JobService.                                               *)

Service == INSTANCE JobService WITH
    Limit     <- MaxConcurrency,
    accepting <- (state = "running"),
    slots     <- ActiveJobs

\* The engine, steps and initial state, is a JobService.
ImplementsService == Service!Spec

\* It also gives back, in the end, every slot a job began in.
ImplementsFairService == Service!FairSpec
=============================================================================
