# Shaily Studio: TLA+ models, model checking and proofs

Shaily Studio is a TypeScript monorepo. Its core logic is in `packages/core/src`: about ninety
packages, of which most are engines over in-memory maps or content generators, and about a dozen
order concurrent work (job queue, message bus, event bus, task scheduler, workflow engines,
transport with retries, kernel lifecycle). This directory takes up that dozen, most important first. It
models the job engine, the message bus, the task scheduler, the workflow engine together with the agents and
supervisor sessions it drives, the content pipeline and the HTTP transport of the providers. For each,
TLC checks a small instance, and every safety property of a passing run is also proved with TLAPS for all values
of the constants.

Everything runs in one JavaScript thread. What makes it hard is what happens at an `await`: another
call enters the same object, a timer fires, a promise settles, a subscriber is called back from
inside a loop. In every module an action is the code between two such points.

Paths below are relative to `packages/core/src` unless they start with `apps/` or `packages/`.

## 1. Inventory

### Components that order concurrent work

| Component | State it keeps | Operations | What is hard | What makes it correct |
|---|---|---|---|---|
| **jobs** (`JobEngine`, `JobExecutor`, `JobQueue`, `Job`) | engine state, priority queue, active jobs with abort controllers, history, one resolver of a waiting `stop()` | `start`, `stop`, `submit`, `cancel`, the `_processQueue` loop, the executor's `try/catch/finally` | subscribers re-enter the loop; an abort arrives at any of three awaits; `stop()` races `start()`, `submit()`, and another `stop()`; rejected publishes | at most `maxConcurrency` executions; each job in one place with the status that belongs there; priority and FIFO order; aborts honoured; `stop()` drains and returns; no lost wake-up |
| **messagebus** (`MessageBus`, `MessageDispatcher`, `MessageQueue`, `DeadLetterQueue`) | subscriptions, queue of envelopes, round-robin index, resolvers by correlation id, dead letters | `publish`, `send`, `request`, `reply`, `subscribe` (drains the backlog), `unsubscribe`, `dispatch` with retry | the copies of a published message share one id; drains meet messages in flight; retries meet unsubscription; replies race timeouts | no message lost; nothing finished stays in the queue; backlog delivered in order; every dispatch and every timed request ends |
| **task-scheduler** (`TaskSchedulerEngine` and managers) | tasks, priority queue, active executions, retry history, persisted unfinished queue | `initialize`, `start`, `stop`, `processQueue`, `evaluateTriggers`, `enqueue`, `dequeue`, `executeTask`, pause, resume, cancel, archive, delete | interval ticks that overlap; limit checked before awaits; `stop()` during the await of `start()`; recovery from the memory store; users who take from the queue and execute by hand | a queued task is in the queue or in a tick's hands; urgent tasks first, then in order; dependants wait; overlapping ticks exceed the limit by their overlap only; one execution at a time, of a task users leave alone; a stopped scheduler begins nothing of its own |
| **workflow** (`WorkflowEngine`, `WorkflowExecutor`, `Workflow`) | registered workflows, abort controllers by id, workflow and step states | `register`, `unregister`, `execute`, `cancel` | a cancel at any await; ids taken over while an execution is still ending; results that cannot be copied, errors that cannot be read | steps, workflow and agents tell one story; a running workflow can be cancelled; a cancelled one settles, unless an agent's `initialize()` never does |
| **agents** (`Agent`) | lifecycle state | `initialize`, `execute`, `start`, `pause`, `resume`, `stop`, `shutdown` | one agent shared by workflows; late initialization; refused events | one execution at a time; work that succeeded is delivered; nobody stays RUNNING unattended |
| **supervisor** (`ExecutionSupervisor`, `ExecutionGuard`) | sessions and budgets | session transitions, failure, recovery | a second state machine kept in step by hand; failure is recorded and recovered in one go; executions of one millisecond share a session | COMPLETED is earned; a session of one execution tells its outcome |
| **content-pipeline** (`ContentPipelineEngine`) | lifecycle state, the current task, narrative, plans, manifest and audio, reports | lifecycle, `execute` in eleven stages | the stages share fields of the engine, and runs may overlap | a run uses its own parts or those of a run it overlaps with, never older ones |
| **workflows** (`WorkflowEngine`, `WorkflowExecution`) | execution context, step results | steps in series and parallel, retry, timeout, cancel | a timed-out step keeps running while it is retried | one attempt of a step writes the context at a time |
| **scheduler** (`Scheduler`, `SchedulerQueue`) | schedules, queue, retry counts | `trigger`, `pause`, `stop`, the processing loop | every trigger runs its own loop over one queue | per-schedule policy, stop stops |
| **provider-transport** (`ProviderTransport`) | active requests with abort controllers, timers, counts | `execute` with retry, `stream`, `cancel` | a cancel between two attempts; ids shared by calls of one millisecond; an abort racing an answer | a cancel finds what waits; the timeout stops what waits; failures are counted once |
| **ai-gateway** (`GatewayEngine`) | circuit state, cooldown, counters per provider | routing, fallback, circuit breaker | failures and successes of overlapping calls | a recovered provider is used again |
| **events** (`EventBus`) | subscriptions, middleware, filters | `publish`, `subscribe`, `once` | handlers awaited in turn while subscriptions change | `once` once; a failing handler spares the others |
| **kernel** (`Kernel`, `DependencyResolver`) | lifecycle state, modules in dependency order | initialise, start, stop | partial failure, overlapping calls | order of dependencies; what started is stopped |
| **orchestrator** (`AgentOrchestrator`) | tasks, team mutex | dependency graph execution | release of the mutex on failure | mutual exclusion, nobody waits for ever |
| **provider-execution** | budget, spending, emergency stop | execute a request | check before an await, record after it | spending within budget |

### How they interact

* `JobEngine` publishes `job.queued`, `job.started` and the outcome on the **EventBus** and awaits each
  publish; subscribers run inside `publish` and may call the engine back. The bus rejects when
  middleware or a filter throws. The model keeps exactly this: a publish is an await that settles, may
  reject, and lets callers in.
* **WorkflowExecutor** initializes and executes **agents**; every `Agent.execute` keeps a session with the
  **supervisor** and publishes on the event bus. `WorkflowRun` composes the three: it EXTENDS `Agents` and calls
  its actions inside its own. The executor's own session is never found: it requires `../supervisor/ExecutionBuilder`
  and `../decision/DecisionBuilder` relative to `workflow/executor`, and neither path exists, so these calls throw
  and are caught.
* **ContentPipelineEngine** calls the producers of images and audio and the memory store, and awaits them; they
  do not call back.
* Provider adapters and the AI gateway go through **ProviderTransport**; the task scheduler keeps its
  unfinished queue in the memory store.

### Components left out

Section 14 names those that order concurrent work and are not modelled, with the reason. Every
other package is listed under `components` in `PROJECT.json` with its reason. In short: stores over one map
(assets, settings, ...), generators whose correctness is about content (script, rendering, composition,
...), wiring and reports (bootstrap, platform, observability, ...), vendor HTTP adapters (`packages/providers`),
user interfaces (`apps/web`, `apps/desktop`), the Python worker and deployment files. They were surveyed by interface
and size, not read line by line.

## 2. Modules and plan

| Component | Model | Proofs | Values for TLC |
|---|---|---|---|
| jobs | `JobEngine`, and `JobService`, the abstract specification it implements | `JobEngineProofs` | `MCJobEngine` |
| messagebus | `MessageBus`, and `BusService`, the abstract specification it implements | `MessageBusProofs`, `BusServiceProofs` | `MCMessageBus` |
| task-scheduler | `TaskScheduler`, and `TaskService`, the abstract specification it implements | `TaskSchedulerProofs` | `MCTaskScheduler` |
| workflow, agents, supervisor | `Agents`; `WorkflowRun`, which composes workflows with it; and `WorkflowService`, the abstract specification `WorkflowRun` implements | `WorkflowRunProofs` | `MCWorkflowRun` |
| content-pipeline | `ContentPipeline` | `ContentPipelineProofs` | `MCContentPipeline` |
| provider-transport | `ProviderTransport` | `ProviderTransportProofs` | `MCProviderTransport` |

No module has a recursive operator; constants carry named assumptions; a definition named `X_Y` beside `X` is a
plausible bug in `X`, used by no action (see section 9).

What would come next, in this order: the loops of `scheduler` (one queue, one loop per trigger), the retry
and timeout of `workflows`, `EventBus` with `once` (section 14).

## 3. `JobEngine`: correspondence to the code

| Model | Code |
|---|---|
| `state`, `resolver`, `active`, `history` | `_state`, `_shutdownResolve`, `_activeJobs` (job and abort controller), keys of `_history` in `jobs/engine/JobEngine.ts` |
| `nextSeq`, `jobOf`, `pc = "queued"` | `JobQueue._nextSequenceNumber` and entries; an entry is one call of `submit` |
| `status` | `Job._status`; `Mutable` is `ensureMutable` |
| `pc` in `Running` | where an execution waits: `starting` (publish of `job.started`), `body` (the job's function), `publishing` (the outcome), `rejected` (an exception is on its way to the `finally`) |
| `aborted` | executions whose `AbortController` has fired |
| `loops`, `userCode` | nested `_processQueue` calls inside their loop, and whether a subscriber runs in the innermost one |
| `stops` | every call of `stop()`: waiting, resolved, returned |
| `thrown` | history variable: entries left in the queue by a `submit()` that threw, because `publish("job.queued")` rejected |
| `unhandled` | the promise returned by `_executor.execute` rejected; the engine has a `finally` and no `catch` on it |

`Dequeue` is one iteration of the loop including the synchronous part of the executor up to its first
await, `StartedPublished` and `BodySettles` the executor's two middle parts with the `catch` clause, `Finally`
the publication of the outcome together with the engine's `finally` clause. While a loop runs, callers
act only as subscribers (`CallersRun`), because nothing else can run.

Abstractions: time stamps, results, progress and error texts are dropped; a job's function settles in
any of three ways (returns, throws an abort error, throws another error). Ids and job objects
coincide (two `Job` objects with one id are not modelled). `get`, `has` and `snapshot` only read;
`OnePlace` says what they find. `JobScheduler` passes calls on and has no state.

Three flags choose the environment and are stated in each configuration: `Resubmission` (a job object
is submitted again before it is final; off in every run, on only in theorems that do not exclude it), `Restart` (`start()` is called while a `stop()` waits),
`BusMayThrow` (publishes may reject).

`JobService` is what a caller may rely on, in three variables: accepted only while open, begun when a
slot is free and nothing more urgent waits, begun once, one final status, slot kept until after the end.
The refinement maps `accepting` to `state = "running"` and `slots` to the active jobs. `Begin` does not
require `accepting`: a subscriber that stops the engine inside the loop does not end the loop.

## 4. `MessageBus`: correspondence to the code

| Model | Code |
|---|---|
| `subs`, `turn` | `_subscriptions` in order of insertion, `_subscriberIndices` |
| `queue` | `MessageQueue._envelopes`; `Sorted` is the stable sort by priority and time |
| `dispatches` | every call of `dispatch` that reached its handler: the envelope in its closure, and the handler |
| `abandoned` | calls of `dispatch` that rejected in their own `catch` clause |
| `drains` | pending `setTimeout(0)` callbacks of `subscribe` |
| `loop` | the loop of `publish` or of the drain that is under way, and the handler it has just called |
| `resolver`, `caller`, `failing` | `_resolvers`; the promise of each `request()`; requests whose `send()` rejected and whose `catch` is due |
| `dlq` | `DeadLetterQueue` |
| `sent` | history variable: the order in which the bus took the messages |

`Record` is the end of `transitionState`: it looks for the **first** entry with the id. All copies of a published
message have the same id, so the entry it changes need not be the one being dispatched; the model
keeps this. A drain takes entries of any state: those in `PROCESSING` are dropped because
`dispatch` throws on them, `CREATED` and `FAILED` ones are delivered.

A handler that rejects with null or undefined makes the `catch` clause throw as it reads the error's message
(`MessageDispatcher.ts:28`), and whoever called `dispatch` swallows that: `HandlerThrowsNothing`. The envelope stays
`PROCESSING`, with no retry and no dead letter, and `DispatchesEnd` excepts exactly these dispatches.
`reply()` asks for nothing but a registered resolver, so `Reply` may come from anybody at any time: from a handler at
work, from one that has ended or been given up, or from outside.

Abstractions: one queue (queues share only dead letters and the request table). Time is the number of
messages taken, so that the copies of one publish have one time. Messages have distinct ids. Retry delays
are arbitrary: a retry timer may fire at any idle moment. A handler called from a loop may subscribe,
unsubscribe, send, throw, have somebody reply, and publish to an empty audience; a handler that itself publishes to
subscribers from inside a loop (nested fan-out) is not modelled. Timers wait for promise continuations
(`failing = {}`), as they do in the runtime. Validation errors change no state except in `request()`,
where they are `InvalidRequest`.

`BusService` is what senders and subscribers may rely on, without queue, copies, drains or resolvers: a message that finds
nobody waits and is served in order; a sent one goes to one subscriber, a published one to each (`owed`); a call succeeds or
becomes a dead letter after all its retries, or is given up without an error and then neither ends nor is retried
(`stuck`); a request settles once, by anybody's reply while it waits, by its timeout, or because it was not sent. `ImplementsService` maps `waiting` to the messages with a copy and no dispatch
(`Backlog`), `owed` to the rest of the loop of `publish` (`Debts`), `calls` to `dispatches` without their time stamps, `stuck` to `abandoned`. Its
weak place is the code's: `BringAgain`, by which a message that is under way is brought to somebody once more, with any
number of retries left. A narrower form (all retries, or as many as some `FAILED` call of the message has left) is false
with three subscribers: a handler that sends during a fan-out makes the later copies younger, a failed
call writes its younger time stamp into the first copy, a later sort moves that copy back, and the retry of the call then
overwrites the other one. A drain finds a `FAILED` copy that belongs to no failed call.

## 5. `TaskScheduler`: correspondence to the code

| Model | Code (`task-scheduler/TaskSchedulerEngine.ts`) |
|---|---|
| `state` | `TaskSchedulerEngine._state` |
| `arming`, `timer`, `orphaned` | calls of `start()` that await the store before they set the timer; whether `_checkIntervalTimer` holds one; whether one is still set that the field has lost |
| `known`, `st`, `retries` | keys of `TaskManagerImpl.tasks`, `task.state`, `RetryHistory.retryCount` |
| `queue` | `QueueManagerImpl.queue`; `Inserted` is push and stable sort |
| `pc`, `taken`, `direct` | each call of `processQueue` or `executeTask` that is under way (a tick), the task it has, and whether it is a user's `executeTask`: `holding` after the dequeue, `starting` once RUNNING is written, `executing` once registered, `finishing` once COMPLETED is written |
| `active` | keys of `ExecutionManagerImpl.activeExecutions` |
| `unfinished`, `recovering` | the key `unfinished_tasks` of the memory store; what `initialize()` has yet to restore |
| `completed`, `disturbed`, `cleared`, `stray`, `overlap` | history variables the properties need |

Users may call whatever is public. `processQueue()` called by hand is a tick like the timer's; `executeTask()` is one that
begins with a task of the user's choice, past queue, dependencies and limit; `dequeue()` and `clearQueue()` take tasks away
(`Withdraw`), which go on saying QUEUED (`cleared`); `executeTask()` of a deleted task writes RUNNING and throws (`stray`).
A task that users resume, enqueue or execute by hand is `disturbed`.

`Enqueue` keeps an oddity of the code: the entry is pushed, and the check of the queue's length throws after that, so a
task that overflows the queue is in it and still says what it said before. It is triggered again while a tick holds
it, and may be executed twice: it is `disturbed` too.

`start()` writes RUNNING, awaits the store and only then sets the timer. A `stop()` that comes in between finds no
timer to clear, and a `stop()` with another `start()` makes two timers of which the field keeps one (`orphaned`). Such
a timer goes on enqueuing tasks in a stopped scheduler (`TriggerFires` does not ask for the state) and may fire twice an
interval in a running one.

Recovery depends on the store. One that keeps references, as the tests' does, hands back the tasks (`Recover`, one by one); the
repository's own `MemoryStore` clones and freezes, and its `get()` returns an entry and not a list, so that the loop of
`initialize()` throws and the scheduler is FAILED for good (`RecoveryFails`). Both are in the model, and a store that
fails or is empty, which hands back nothing.

`processQueue` checks the limit two awaits before it registers an execution, and counts the keys of `activeExecutions`, of which
two executions of one task share one that the first to end deletes. `LimitExceededByOverlap` therefore counts executions:
those of undisturbed tasks exceed the limit by no more than the other ticks that were in between at one time (`overlap` records
the most there have been). With an `executeTask()` by hand, or a task executed twice, nothing bounds the rest.

Abstractions: whether a schedule is due is nondeterministic, but a task with neither interval, calendar nor `nextRunAt` (`Manual`)
becomes due only once a retry has set one; ids of deleted tasks are not reused; no process crash is modelled, because the
store lives in the same process. `MaxTicks` bounds the ticks under way, `MaxCalls` what users do, the first request for a `Manual` task not counted.

`TaskService` is what those who ask for tasks may rely on, with neither timers, task states nor the store. Tasks wait in
a line, a set of pairs: who asks is put behind those at least as urgent, in front of the others. While the service is
open a free worker takes the task that is in front of all; it then begins, puts back or drops it. Work begins only
when the dependencies are done, and while nobody else works at the task unless somebody meddled with it. Users may withdraw
tasks from the line, or have a worker begin with one of their own (`Intrude`, which is meddling). The refinement
maps a worker to a tick (`Stage`), `line` to the order of the queue, `open` to `state = "RUNNING"`, `done` to
`completed` and `meddled` to `disturbed`. So no orphaned timer begins anything while the scheduler is stopped.

`QueuedSettles` says when a queued task gets its turn in a running scheduler, and names who does not. A dependant that is
more urgent than its dependency is put back in front of it at every tick, so that neither runs, nor anything less urgent
(`Overtaken`); a task may wait for one that never becomes due, or that does not get its turn itself (`WaitsInVain`); a `SKIPPED`
or paused dependency is neither complete nor failed, and its dependants wait for ever (`Undisturbed` excludes them). The
run `tasks_turns` has a more urgent dependant and meets these cases.

## 6. `Agents` and `WorkflowRun`: correspondence to the code

| Model | Code |
|---|---|
| `agent`, `restoring` | `Agent._state` in `agents/engine/Agent.ts`; calls of `initialize()` under way by users |
| `phase` | the awaits of `Agent.execute` for each call: session registered, `AgentStarted`, the work, `AgentFinished`, failure recorded, recovery |
| `sid`, `latest` | the session id of each call, named after the first call that had it; the id of an agent's latest call |
| `session` | the state of every session in `supervisor/ExecutionSupervisor.ts` |
| `worked`, `silenced`, `meddled` | history: work that succeeded, executions one of whose events was refused, agents whose state somebody else wrote |
| `registered`, `controllers` | `_workflows` and `_activeExecutions` of `workflow/engine/WorkflowEngine.ts`, both by id |
| `spent` | an `execute()` that threw in `start()` and whose cleanup is due: its controller took the id's entry |
| `wstate`, `step` | `Workflow.state`, `step.status` |
| `pc`, `cur`, `aborted` | the await an execution is at, its step, the signal of its controller |

An event is refused when middleware or a filter of the event bus throws; the publish then rejects, and with it
what awaits it. `AgentStarted` is published before the `try` and `AgentFinished` inside it, which is why a refusal
has different ends. `recordFailure` writes `FAILED` past the check of the transition and runs the recovery at once,
so the session of a failed execution says `RUNNING`.

A session's id is the agent's with the time in milliseconds (`Agent.ts:135`), so that executions of one agent that begin within
one millisecond share one: `Begin` takes a new id or the latest one, and registering overwrites what is there. Those who share
write each other's session and may use up its recoveries (`UsedUp`). `SessionTellsOutcome` says what is left: COMPLETED
is never there without work of a sharer that was delivered, and a session that one execution had to itself (`Unshared`) tells
that execution's outcome, COMPLETED if it delivered and RUNNING, as if recovered, if it failed.

The catch clause of the executor looks for "cancelled" in the error's message, whoever threw it: the agent, its `initialize()`, the lookup
of a missing agent, or `updateStepStatus`, which copies the result by way of JSON and may throw after the agent has
delivered. `Throws` gives an error one of three kinds: one that says "cancelled", any other, and one that cannot be read (null,
undefined), which rejects and leaves the workflow RUNNING without a controller. The copy for the caller may throw too, so a
COMPLETED workflow's `execute()` may reject (`Settles`). An agent may refuse to be called at any time, for its own validation of the
task. `agent.initialize()` is awaited outside the race against the abort: an `initialize()` that hangs keeps a cancelled
`execute()` pending, and `CancelledSettles` excepts exactly that wait.

Abstractions: consecutive awaits between which nothing is written are one; steps with a skill run the same
race as those with an agent and are not told apart; budgets stay below their limits; the awaits of the supervisor, the
decision engine and the planning engine end, in whatever way. `MaxTroubles` bounds refused events and lifecycle calls,
`MaxCalls` the calls of `unregister()` and of an `execute()` that throws.

Also true of the code and kept by the model: no workflow is ever READY, so a `cancel()` before `execute()` does
nothing; an agent is called even when its step was aborted before; and an aborted agent goes on executing.

`WorkflowService` is what those who execute workflows and those who own agents may rely on, without controllers, ids,
sessions or the order of callbacks. A workflow comes to its steps one after the other, each when the agent of the one before has
delivered; an agent is called once a step and held by one call at a time unless somebody meddled with it; a cancelled
workflow goes to no further step, although the agent of the step it has come to may still be called; a final state
stays; and the promise of `execute()` resolves (if the result can be copied) for a COMPLETED workflow or an error that says
"cancelled" (`Complete`, `Break`), and rejects otherwise: a workflow cancelled from outside rejects, see finding 3. The refinement reads the promise off the executor's await (`Promise`) and the call off the
phase of the agent's execution (`Call`). What `unregister()` and a second `execute()` do to the controllers has no
counterpart in it: the theorem says that they can break none of this.

## 7. `ContentPipeline`: correspondence to the code

| Model | Code (`content-pipeline/ContentPipelineEngine.ts`) |
|---|---|
| `state`, `initializing` | `_state`; calls of `initialize()` under way |
| `stage` | where a call of `execute()` is: a stage of the pipeline, or one of its awaits |
| `field` | the fields of the engine the stages leave results in (task, narrative, plans, manifest, audio), each holding the run that wrote it |
| `filed`, `timeline`, `pack` | under whose task the files were stored, and whose parts the video and the package of a run have |
| `reports` | runs with a report |
| `overlaps` | history: the runs that were active at the same time |

The data is reduced to who made it: that is what `NoStaleParts` tells apart. Overlapping runs do mix their
parts, and nothing in `execute()` prevents it; a run that overlaps with no other gets its own.

Single images are not told apart: a manifest is made by its run, but the `AssetCache`, which outlives runs, may hand it an image an
earlier run has generated, which is what a cache is for. `NoStaleParts` speaks of manifests.

Abstractions: statistics and progress are left out (`assetsGeneratedCount` grows over all runs, and each run adds
it to the total again); storyboard ids contain the time and are taken to differ. A `PIPELINE_STARTED` handler
that throws ends the run without `FAILED`, because it is emitted before the `try`: `Starts` keeps it.

## 8. `ProviderTransport`: correspondence to the code

| Model | Code (`providers/transport/ProviderTransport.ts`) |
|---|---|
| `phase` | where a call of `execute()` or `stream()` is: fetching, reading the body, about to throw for its status (`refused`), waiting for a retry, holding a chunk out to its consumer (`yielded`), or over (`unsent`: a stream whose body JSON refused) |
| `id`, `table` | the request's id, and whose controller `_activeRequests` has under it |
| `timer`, `aborted` | the timeout, the controller's signal |
| `attempt`, `chunks` | retries so far; chunks counted |
| `successfulCount`, `failedCount` | what `health()` reports |

Ids are the caller's, and the adapters make them from `Date.now()`, so two calls of one millisecond share one: `Begin`
chooses any id. Timer and entry are dropped with the first answer, so neither a retry nor its delay nor a body
has a timeout. `stream()` turns its body into JSON outside any `try`: when that throws the call is over, its entry stays and its
timer goes off later (`Begin`, `unsent`). An HTTP status the code throws for is caught by its own `catch` and retried like a network
error, although the comment at `ProviderTransport.ts:137` says "Retry on network errors". An abort may race an
answer, and either may win.

Abstractions: headers, bodies, latencies and the length of a delay; `MaxChunks` bounds what a stream counts. An invalid
request throws before it changes anything.

## 9. What the runs check

| Run | Instance | States | Shows |
|---|---|---|---|
| `jobs_lifecycle` | 3 jobs, 2 priorities, 2 slots, 1 `stop()`, restart and rejecting bus on | 1.20 M | type invariant, `ConcurrencyLimit`, `OnePlace`, `NoOvertaking`, `BacklogHasWaker`, `AbortIsHonoured`, `FinalIsForever`, `ImplementsService` |
| `jobs_shutdown` | 2 jobs, 1 slot, 2 `stop()`, fair, healthy bus, callers wait for `stop()` before `start()` | 9.9 k | `StoppedIsIdle`, `NoUnhandledRejection`, `StopReturns`, `EveryJobEnds`, `ImplementsFairService` |
| `jobs_restart` (violation) | as shutdown, with `Restart` | 13 k until found | `StopReturns` fails |
| `bus_delivery` | a message and an urgent request, 2 subscriptions, 1 retry, replies at any time | 531 k | type invariant, `NoGhostEntries`, `NothingLost`, `BacklogInOrder`, `ImplementsService` |
| `bus_requests` | 2 requests with one correlation id, both with timeouts, 1 subscription, fair | 31 k | `RequestTable`, `RequestsSettle`, `DispatchesEnd`, `BacklogDelivered` |
| `bus_received_twice` (violation) | 2 messages, 2 subscriptions | 32 k until found | `ReceivedOnce` fails |
| `tasks_turns` | 3 tasks: one, a more urgent one that depends on it and is due only when users ask for it, a less urgent one that depends on both; 2 ticks, limit 1, queue of 2, 1 retry, 1 intervention or `stop()`, fair | 199 k | type invariant, `NoStrandedTask`, `LimitExceededByOverlap`, `OneExecution`, `ImplementsService`, `QueuedSettles` |
| `workflow_agents` | 2 workflows of one step that share an agent, 1 refused event or lifecycle call | 1.07 M | type invariant, `AgentKeepsFaith`, `SessionTellsOutcome` |
| `workflow_shared` | 2 workflows under one id that share an agent, 2 steps and 1, 1 `unregister` or late `execute`, fair | 342 k | `StepsTellTheRun`, `CancelReaches`, `ImplementsService`, `CancelledSettles` |
| `workflow_cancel` (violation) | 1 workflow of one step | 88 until found | `CancelledResolves` fails |
| `content_overlap` | 2 runs, 4 lifecycle calls | 256 k | type invariant, `NoStaleParts` |
| `transport_shared` | 2 requests, 1 stream, 2 ids, 1 retry, 1 chunk, fair | 187 k | `CancelFinds`, `FailedOnce`, `StopsInTime` |

Why the bounds are enough for the questions asked:

* Jobs: three jobs over two slots are the least with two executions and a queue behind them; two of
  them share a priority and one is more urgent, so both clauses of the order matter. Two `stop()` calls
  are the least that can race. `MaxSubmits` is the number of entries. That no wake-up is lost and a final status stays when a
  job is submitted again before it is final rests on the theorems `NoWakeUpIsLost` and `FinalForever`. What is proved
  (section 11) does not depend on these numbers.
* Bus: a published message with two subscriptions has two copies; the request stands for the
  rest of the queue, is more urgent, and adds replies and rejected sends. One retry gives all three endings (success,
  success after retry, dead letter). Two requests on one correlation id are the least that can
  disturb each other.
  `bus_delivery` checks the refinement without timeouts, which `bus_requests` has, and no two of its messages have one
  priority: that equals are served in the order they were sent, and that a timer does no harm to the refinement, rests on the
  theorems `DeliveredInOrder` and `BusImplementsService`.
* Tasks: three tasks are the least for which one waits behind a more urgent one that waits itself; two of them depend on
  another, so that the order of execution matters, and a queue of two overflows. Two ticks exceed a limit of one by the one that
  overlaps. One intervention is a task paused, deleted, taken out of the queue or executed by hand, or a `stop()`, at any
  moment. A `stop()` is followed by any
  recovery. What more ticks, or several interventions, do (a task paused and enqueued again, one executed after it was
  deleted) rests on the theorems of `TaskSchedulerProofs`, which prove the five safety properties of this run.
* Workflows: one agent that two executions want, in one millisecond or not, gives a call that is refused and one that
  overlaps; one trouble is one refused event or one lifecycle call, each at any moment. Two executions of one id are the
  least for which a late `finally` meets the next execution. `workflow_shared` has no refused events and no lifecycle
  calls, so the corresponding clauses of `WorkflowService` (`Retract`, `Meddle`) are covered by the theorem
  `EngineImplementsService` and not by this run. `MaxRetries` is 1 where the code has 3: two executions of one session use up its recoveries.
* Content: with two runs each either overlaps with the other or follows it. The field holds one value, so a third run adds
  nothing that two do not show; the proof covers any number.
* Transport: three calls over two ids, so that two share one and one is alone; one retry tells the first
  attempt from the later ones.

`CHECK_DEADLOCK FALSE`: callers may stop calling, and then nothing is left to do. Symmetry is used
of handlers in `bus_delivery` and of runs in `content_overlap`, which check no liveness and have no definition that tells
handlers or runs apart.
Every property has a mutant in `PROJECT.json`: a plausible bug in one definition that makes TLC refute
the property on the same instance (definitions named `X_Y` beside `X`).

## 10. Fairness

Each fair action is something the runtime does without being asked: a promise continuation runs, a
loop goes on, a timer fires. Two assumptions go beyond the runtime and concern the application: a
job's function settles and a message handler settles. Neither `JobExecutor` nor `MessageDispatcher` sets them a time
limit, so nothing in the code forces it.

* Task scheduler: a timer that is set, whether or not the field still holds it, fires; some task that may be triggered becomes due;
  the memory store answers. The last is stated as "every tick is idle again and again", which says the same as weak fairness of each
  tick, because a tick that is not idle can always take its next step and has four at most. That a particular task
  becomes due is not assumed: `WaitsInVain` names the tasks that never do. A deleted task is not found due for ever: only a call
  of `evaluateTriggers` that has listed it before finds it, and such a call ends.
* Workflows: the executor and the engine go on when what they await has settled. That an agent ever answers, to
  `execute()` or to `initialize()`, is not assumed: `CancelledSettles` says that a cancelled execution settles without the one,
  and excepts the other.
* Transport: timers fire, an aborted fetch or read rejects, a retry delay ends. Nothing is asked of the network
  or of the consumer of a stream.

`ContentPipeline` states no fairness, since its producers have no time limit. Callers (`start`, `stop`, `submit`, `cancel`, `publish`, ...) are never
fair: nobody has to call.

## 11. What is proved

`JobEngineProofs`, for any number of jobs, entries, slots and `stop()` calls:

| Theorem | Assumes | Argument |
|---|---|---|
| `TypeCorrect` | nothing | `TypeOK` with `EntriesGiven` (the entries in use are those below `nextSeq`, and each has a job) is inductive |
| `FinalForever` | nothing | every write of a status is guarded by `Mutable` |
| `NobodyOvertakes` | nothing | an execution begins only from the head of the queue; `BegunStep` bounds what a step may do to `pc` |
| `JobsInOnePlace` | no resubmission | from the invariant `Once` |
| `LimitKept` | no resubmission | `Once` makes entry-to-job an injection from executions to active jobs, whose number the loop bounds |
| `AbortHonoured` | no resubmission | `Once` with `AbortedLive`: an abort flag never outlives its execution |
| `StoppedEngineIsIdle` | no resubmission, no restart | invariant `Shutdown`, and `Once` for the executions behind the active jobs |
| `NoWakeUpIsLost` | nothing | `BacklogHasWaker` is inductive: every step that frees a slot or reopens the engine enters the loop, a loop ends only with no job queued or no slot free, and an entry outside a loop's reach is one whose `submit()` is under way or has thrown |
| `NothingRejects` | no resubmission, a bus that does not throw | `EntryFixesJob` in `Once`: on such a bus no execution is `rejected`, since a job is final only when its one entry has ended it |
| `EngineImplementsService` | no resubmission | with `Once`, each action maps to a step of `JobService` or to a stutter |

`OnePlace` and `ConcurrencyLimit` are not inductive: they do not say why the status of a job fits the progress
of its entry. `Once` adds that (`EntryFixesJob`), that a job has one entry (`OneEntry`), and that the
loop never fills more slots than there are (`SlotsBounded`). The interesting step is `Finally` against
`Dequeue`: the slot of the finished execution is free exactly when its entry is done.
`Shutdown` says that once the resolver of the waiting `stop()` has been called no loop is running and nothing is
active, so the continuation that writes `"stopped"` finds what the resolver saw. Without the
assumption on `start()` this is false, see finding 1.

The assumptions are real limits of the code: with resubmission `_activeJobs` holds one entry for two
executions, and the limit no longer counts executions.

`MessageBusProofs`, for any messages, requests, subscriptions and retry limits:

| Theorem | Argument |
|---|---|
| `TypeCorrect` | `TypeOK` is inductive |
| `RequestsAreFound` | `RequestTable` with `TableInv`, which ties each resolver to the request that set it |
| `DeadLettersAreEarned` | a dead letter is written by the step that ends a dispatch with its retries used up |
| `NothingIsLost` | `HeldInv`: what the bus took is in the queue, in the loop's hands or dispatched |
| `BacklogsAreDrained` | `BacklogHasDrain`, the safety core of `BacklogDelivered`, is inductive together with the fact that copies that wait stay in the queue (`CopiesStay`) |
| `NoGhosts` | `GhostInv` counts: a message has at most as many copies in the queue as live dispatches, or one and no dispatch |
| `DeliveredInOrder` | `OrderInv`: undispatched entries are in order, a time stamp is a place in `sent`, and `sent` repeats nothing |

The bus has many actions that change the queue in few ways. `CoreStep` proves once that every step of `Next` is
silent, deposits an entry, drains, offers a message to a handler, or settles a dispatch; each invariant is then
proved for these five. Because the copies of a message share one id, the queue is counted per message
(`NumberOf`) and its order is kept in an invariant of its own (`Ordered`).

`BusServiceProofs` shows `BusImplementsService` on top of these invariants, again by the five kinds of steps (`BacklogStep`,
`EndIsServed`, `DrainIsServed`, `OfferBegins`). A drained entry is the case that needs them: that its message waited and
is in front follows from `OrderInv`, that a message dispatched before is still under way from `GhostInv` (`CopyIsUnderWay`:
more copies than live dispatches there are not; a dispatch given up in its `catch` clause is live for ever). Three parts are added: `AudienceInv` (nobody is subscribed or called by one
publish twice, and whoever is called has subscribed), `RequestInv` (a request whose `send()` was rejected is not sent) and
`FreshInv` (an entry that no dispatch has written has all its retries). `DeadLettersEarned` and `BacklogHasDrain` are
proved for every instance and no run checks them.

`TaskSchedulerProofs`, for any tasks, dependencies, priorities, limits and number of ticks:

| Theorem | Argument |
|---|---|
| `TypeCorrect` | `TypeOK` with `TicksHoldTasks` |
| `NobodyIsStranded` | `NoStrandedTask` is inductive with `TicksHoldTasks`: whoever takes a task out of the queue is a tick that holds it or a user (`cleared`), and whoever lets go of it writes its state |
| `OverlapBoundsTheExcess` | an undisturbed task has one execution (`OnceInv`), and is in `activeExecutions` while that is registered (`ActiveInv`); so the check counts no fewer than there are, and only a tick that passes it lets them grow |
| `DependenciesComeFirst` | `DependencyInv`: a task that says COMPLETED has completed (`AfterDependencies`; the refinement implies it) |
| `ExecutedOnceAtATime` | `OnceInv`: an undisturbed task is once in the queue or in one tick's hands, and in neither while it is new or pending |
| `SchedulerImplementsService` | with the two invariants above and `QueueInv` (the queue is sorted by urgency and nobody is in it twice), each action maps to a step of `TaskService` or to a stutter (`ServiceStep`) |

The queue is inserted into by counting (`Inserted`), the line by comparing. `UrgentOnesComeFirst` bridges them: in a
sorted queue those at least as urgent as a task are the first ones, so its place is behind exactly them
(`EnqueueJoinsTheLine`), and the head is in front of all (`TailLeavesTheLine`).

`WorkflowRunProofs`, for any workflows, steps, agents and ids, all from one inductive invariant `IInv`:

| Theorem | Part of `IInv` it rests on |
|---|---|
| `TypeCorrect` | `TypeOK` |
| `SessionsTellOutcomes` | `SessionInv`: a session that says COMPLETED has an execution that earned it, whoever shares it (`EarnedInv`, with `WorkInv`: who is done has worked); of a session not shared, the state that belongs to each phase (`OwnInv`) |
| `AgentsKeepFaith` | `FaithInv`: unless meddled with, the agent of an execution that occupies it is RUNNING and has no other |
| `StepsTellTheTruth` | `RunInv`: for each workflow what its place, steps and phases say of one another |
| `RunningIsReached` | `ReachInv`: a running workflow whose controller is in the map is registered |
| `AbortedIsFinal` | `RaceInv`: whoever holds a controller has started, and its signal fires in the step that ends the workflow |
| `EngineImplementsService` | all of it; `RaceInv` says at every await what the workflow's state and its agent's call may be, on the error paths too |

`AbortedIsFinal` is the safety core of `CancelledSettles`. In `EngineImplementsService` an agent's step is mapped once for
every workflow (`AgentServiceStep`), since a call changes one phase and one phase is one `Call` (`OneCallChanges`); the
executor's steps change one await, hence one `Promise` (`OnePromiseChanges`). The cases that need the invariant are
those in which the executor runs on after a cancel: it may write the final state only where `RaceInv` says nobody has.

`ContentPipelineProofs`, for any number of runs: `TypeCorrect` (with `Counted`, `initializing <= calls`) and
`PartsAreNotStale`. The second adds that two active runs know of each other (`Mutual`), so that whoever
overwrites a field overlaps, and that a field a run has passed holds a part of it or of such a run (`Fresh`).

`ProviderTransportProofs`, for any calls, ids and retries: `TypeCorrect`, `CancelIsSound`,
`FailuresAreCountedOnce` and `TimeoutsCover`. `CancelFinds` is inductive with `PhasesFit` (what phase, retries and id say of one
another) and `TimeoutCovers`: a call loses its entry only to itself, to a cancel, or to a call of its id. The count moves
with the set it counts. `TimeoutCovers` implies the safety part of `StopsInTime`.

Only model-checked: the liveness properties `StopReturns`, `EveryJobEnds`, `RequestsSettle`, `DispatchesEnd`,
`BacklogDelivered`, `QueuedSettles`, `CancelledSettles` and `StopsInTime`, the fair refinement
`ImplementsFairService` (its safety part is proved), and the runs that expect a violation. Liveness under fairness needs `ENABLED`,
which this prover does not handle.

## 12. Findings

1. `jobs_restart`: `start()` while a `stop()` waits sets the state back to running; the `finally` clause
   of the last execution then never resolves the waiting `stop()`, which never returns.
2. `bus_received_twice`: a subscription made while messages are under way schedules a drain that takes the
   fan-out copies too, so one subscriber is called twice with one message though no handler failed.
3. `workflow_cancel`: when `cancel()` strikes while a step's agent is at work, `engine.cancel()` has ended the workflow before the aborted step
   reaches the catch clause, whose own `workflow.cancel()` then throws: `execute()` rejects. A comment at `test-workflow.ts:374`
   says that it resolves; the test catches the rejection and does not look at it.

Each is quoted in `PROJECT.json` against the test that states the expectation.

Met while modelling, and true of the code, but contradicted by no text of the repository: a `stop()` made while another one
waits returns at once, with jobs still running (`StopAgain`). When
`publish("job.queued")` rejects, `submit()` throws although the job stays queued, and an idle engine
does not look at it until its loop is entered for another reason. `BacklogHasWaker` says that these are the only
jobs so left (`thrown`). A message whose handler rejects with null or undefined is neither retried nor given up (section 4). A
scheduler that has persisted its queue in the repository's own `MemoryStore` cannot be initialized again (section 5). Queued tasks starve
behind a more urgent dependant of theirs (section 5). An `initialize()` that hangs keeps a cancelled `execute()` pending, and an
error that cannot be read leaves a workflow RUNNING that no `cancel()` finds (section 6).

Also met, and not stated as a run: the supervisor session of a workflow is never registered (section 1), although
`test-execution-supervisor.ts:573` counts on it.

## 13. Running

    tlc -workers 2 -config JobEngine_lifecycle.cfg MCJobEngine
    tlc -workers 2 -config MessageBus_delivery.cfg MCMessageBus
    tlc -workers 2 -config TaskScheduler_turns.cfg MCTaskScheduler
    tlc -workers 2 -config WorkflowRun_agents.cfg MCWorkflowRun
    tlc -workers 2 -config WorkflowRun_shared.cfg MCWorkflowRun
    tlc -workers 2 -config ContentPipeline_overlap.cfg MCContentPipeline
    tlc -workers 2 -config ProviderTransport_shared.cfg MCProviderTransport
    tlapm JobEngineProofs.tla        # and the other *Proofs modules

The other configurations are named in `PROJECT.json`.

## 14. Not modelled

Components that order concurrent work and would be worth a module; the first three have a hazard in `PROJECT.json` that no
property covers:

* **events** (`EventBus`): two publishes that overlap at an await both hold the subscription of a `once()` in
  their snapshot. The modelled components see the bus as an await that may reject and lets callers in.
* **workflows** (`WorkflowExecution`): a step that lost the race against its timeout runs on while it is retried.
* **scheduler** (`Scheduler`): every trigger starts a loop of its own over the one queue.
* **ai-gateway** (`GatewayEngine`): a circuit that has opened has no way back in the path that uses it.
* **kernel** (`Kernel`): a module that fails to start leaves those before it running.
* **orchestrator** (`AgentOrchestrator`): a team's mutex is released without a `finally`.
* **provider-execution**: the budget is checked before the call and charged after it.

In the last four, what goes wrong is visible in one handler, and a model would restate it; the first three are the
next modules of the plan (section 2). `database` keeps transaction flags with no data behind them.

Of the modelled components: an agent's messaging and skills and the supervisor's checkpoints,
budgets at their limit and reports are left out, as are the statistics and the image cache of the content pipeline, and what a decision or planning engine that
hangs does to a workflow's execution.

The models stand for a small share of the source, whose 156 thousand lines are for the greatest part CRUD
engines over a map, content generators, reports and user interfaces: sequential code that answers within one
call, for which a model would repeat the program.
