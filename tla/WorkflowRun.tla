----------------------------- MODULE WorkflowRun -----------------------------
(***************************************************************************)
(* The workflow engine of packages/core/src/workflow: WorkflowEngine,      *)
(* WorkflowExecutor and Workflow, calling the agents of Agents.            *)
(*                                                                         *)
(* An object of class Workflow runs once.  Its execution awaits the        *)
(* supervisor's checkpoint before a step, the agent's initialization, the  *)
(* race of the agent against the abort signal, and the supervisor again    *)
(* when it has failed.  The engine's two maps are keyed by the workflow's  *)
(* id, which several objects may share one after the other: unregister()   *)
(* does not wait for the execution it aborts.                              *)
(*                                                                         *)
(* The steps are those with an agent (a skill runs the same race), and a   *)
(* supervisor is registered, whose session of a workflow is never found:   *)
(* every call on it rejects, is caught, and is an await that does nothing. *)
(***************************************************************************)
EXTENDS Sequences, Agents

CONSTANTS
    Workflows, \* objects of class Workflow
    Ids,       \* their ids
    IdOf,      \* [Workflows -> Ids]
    AgentsOf,  \* [Workflows -> Seq(Agents)], the agent of every step
    MaxCalls,  \* bound: calls of unregister(), and of execute() that throw
    None, Spent \* no controller; that of an execute() whose start() threw

ASSUME WorkflowsAssumption ==
    /\ IdOf \in [Workflows -> Ids]
    /\ AgentsOf \in [Workflows -> Seq(Agents) \ {<<>>}]
    /\ MaxCalls \in Nat
    /\ {None, Spent} \cap Workflows = {} /\ None # Spent
    /\ Executions = UNION {{w} \X DOMAIN AgentsOf[w] : w \in Workflows}
    /\ \A e \in Executions : AgentOf[e] = AgentsOf[e[1]][e[2]]

VARIABLES
    registered,  \* WorkflowEngine._workflows
    controllers, \* _activeExecutions: whose controller is there
    spent,       \* ids with an execute() that has thrown and not yet cleaned up
    wstate,      \* Workflow.state
    step,        \* step.status
    pc,          \* where the execution waits
    cur,         \* the step it is at
    aborted,     \* controller.signal.aborted
    calls

wfVars == <<registered, controllers, spent, wstate, step, pc, cur, aborted, calls>>
vars == <<agentVars, wfVars>>

Steps(w) == DOMAIN AgentsOf[w]

WorkflowStates == {"CREATED", "RUNNING", "COMPLETED", "FAILED", "CANCELLED"}
StepStates == {"PENDING", "RUNNING", "COMPLETED", "FAILED", "CANCELLED"}

\* Where the execution of a workflow waits.  It ends by way of "resolving" or
\* "rejecting", when the executor is done and the engine's finally is not.
Catches == {"catching", "catchingCancelled", "catchingUnreadable"}
Waits == {"idle", "checkpoint", "initializing", "initialized", "racing", "refused",
          "resolving", "rejecting", "resolved", "rejected"} \cup Catches

TypeOK ==
    /\ AgentTypeOK
    /\ registered \in [Ids -> Workflows \cup {None}]
    /\ controllers \in [Ids -> Workflows \cup {None, Spent}]
    /\ spent \subseteq Ids
    /\ wstate \in [Workflows -> WorkflowStates]
    /\ DOMAIN step = Workflows
    /\ \A w \in Workflows : step[w] \in [Steps(w) -> StepStates]
    /\ pc \in [Workflows -> Waits]
    /\ cur \in [Workflows -> Nat]
    /\ \A w \in Workflows : IF pc[w] = "idle" THEN cur[w] = 0 ELSE cur[w] \in Steps(w)
    /\ aborted \in [Workflows -> BOOLEAN]
    /\ calls \in 0..MaxCalls

Init ==
    /\ AgentInit
    /\ registered = [i \in Ids |-> None] /\ controllers = [i \in Ids |-> None]
    /\ spent = {}
    /\ wstate = [w \in Workflows |-> "CREATED"]
    /\ step = [w \in Workflows |-> [k \in Steps(w) |-> "PENDING"]]
    /\ pc = [w \in Workflows |-> "idle"] /\ cur = [w \in Workflows |-> 0]
    /\ aborted = [w \in Workflows |-> FALSE]
    /\ calls = 0

Final(w) == wstate[w] \in {"COMPLETED", "FAILED", "CANCELLED"}

GoesTo(w, p) == pc' = [pc EXCEPT ![w] = p]
Becomes(w, s) == wstate' = [wstate EXCEPT ![w] = s]

-----------------------------------------------------------------------------
(* The engine's operations                                                  *)

Register(w) ==
    /\ registered[IdOf[w]] = None
    /\ registered' = [registered EXCEPT ![IdOf[w]] = w]
    /\ UNCHANGED <<agentVars, controllers, spent, wstate, step, pc, cur, aborted, calls>>

CancelSteps_PendingOnly(w) == [k \in Steps(w) |->
    IF step[w][k] = "PENDING" THEN "CANCELLED" ELSE step[w][k]]

\* Workflow.cancel: what is pending or running is cancelled with it.
CancelSteps(w) == [k \in Steps(w) |->
    IF step[w][k] \in {"PENDING", "RUNNING"} THEN "CANCELLED" ELSE step[w][k]]

CancelWorkflow_Final(w) ==
    Becomes(w, "CANCELLED") /\ step' = [step EXCEPT ![w] = CancelSteps(w)]

\* A final workflow throws, and stays as it is.
CancelWorkflow(w) ==
    IF Final(w) THEN UNCHANGED <<wstate, step>>
    ELSE Becomes(w, "CANCELLED") /\ step' = [step EXCEPT ![w] = CancelSteps(w)]

\* WorkflowEngine.cancel: the controller that is there is aborted, and the
\* workflow that is registered is cancelled.  (No workflow is ever READY, so
\* without a controller it does nothing.)
CancelId(i) ==
    IF controllers[i] = None THEN UNCHANGED <<aborted, wstate, step>>
    ELSE /\ aborted' = [w \in Workflows |-> aborted[w] \/ w = controllers[i]]
         /\ IF registered[i] = None THEN UNCHANGED <<wstate, step>>
            ELSE CancelWorkflow(registered[i])

Cancel(i) ==
    /\ controllers[i] # None
    /\ CancelId(i)
    /\ UNCHANGED <<agentVars, registered, controllers, spent, pc, cur, calls>>

Unregister(i) ==
    /\ calls < MaxCalls /\ registered[i] # None
    /\ CancelId(i)
    /\ registered' = [registered EXCEPT ![i] = None]
    /\ calls' = calls + 1
    /\ UNCHANGED <<agentVars, controllers, spent, pc, cur>>

\* The top of the executor's loop.
EnterStep(w, k) ==
    /\ step' = [step EXCEPT ![w] = [j \in Steps(w) |->
          IF j = k THEN "RUNNING" ELSE IF j = k - 1 THEN "COMPLETED" ELSE @[j]]]
    /\ cur' = [cur EXCEPT ![w] = k]
    /\ GoesTo(w, "checkpoint")

Execute(w) ==
    /\ registered[IdOf[w]] = w /\ wstate[w] = "CREATED"
    /\ controllers' = [controllers EXCEPT ![IdOf[w]] = w]
    /\ Becomes(w, "RUNNING")
    /\ EnterStep(w, 1)
    /\ UNCHANGED <<agentVars, registered, spent, aborted, calls>>

ThrowsLate_Running(w) == wstate[w] # "CREATED"

\* A running workflow throws before its controller is replaced.
ThrowsLate(w) == Final(w)

\* execute() of a final workflow: start() throws when the controller is already
\* in the map, and the finally clause empties the entry later.
ExecuteFinal(w) ==
    /\ calls < MaxCalls
    /\ registered[IdOf[w]] = w /\ ThrowsLate(w) /\ IdOf[w] \notin spent
    /\ controllers' = [controllers EXCEPT ![IdOf[w]] = Spent]
    /\ spent' = spent \cup {IdOf[w]}
    /\ calls' = calls + 1
    /\ UNCHANGED <<agentVars, registered, wstate, step, pc, cur, aborted>>

ThrowsFinal(i) ==
    /\ i \in spent
    /\ spent' = spent \ {i}
    /\ controllers' = [controllers EXCEPT ![i] = None]
    /\ UNCHANGED <<agentVars, registered, wstate, step, pc, cur, aborted, calls>>

-----------------------------------------------------------------------------
(* WorkflowExecutor.execute                                                 *)

\* Somebody's error reaches the catch clause.  Its message may say "cancelled",
\* and looking for that may throw (of an error that is null or undefined, or of a
\* message that is a number).
Throws(w) == \E p \in Catches : GoesTo(w, p)

\* agent.execute is called even when the signal has been aborted; an agent that
\* may not begin, or not with such a task, rejects.
CallAgent(w) ==
    LET e == <<w, cur[w]>>
    IN  \/ Begin(e) /\ GoesTo(w, "racing")
        \/ GoesTo(w, "refused") /\ UNCHANGED agentVars

\* The step's agent (or its skill's registry) may be missing.
AfterCheckpoint(w) ==
    /\ pc[w] = "checkpoint"
    /\ \/ Throws(w) /\ UNCHANGED agentVars
       \/ IF agent[AgentsOf[w][cur[w]]] = "CREATED"
          THEN GoesTo(w, "initializing") /\ UNCHANGED agentVars
          ELSE CallAgent(w)
    /\ UNCHANGED <<registered, controllers, spent, wstate, step, cur, aborted, calls>>

\* agent.initialize() ends, if it ever does; the executor's continuation comes
\* after it.
InitializesAgent(w) ==
    /\ pc[w] = "initializing"
    /\ \/ EndInitialize(AgentsOf[w][cur[w]], "READY") /\ GoesTo(w, "initialized")
       \/ EndInitialize(AgentsOf[w][cur[w]], "FAILED") /\ Throws(w)
    /\ UNCHANGED <<restoring, phase, idVars, session, worked, silenced, troubles>>
    /\ UNCHANGED <<registered, controllers, spent, wstate, step, cur, aborted, calls>>

AfterInitialize(w) ==
    /\ pc[w] = "initialized"
    /\ CallAgent(w)
    /\ UNCHANGED <<registered, controllers, spent, wstate, step, cur, aborted, calls>>

MoreSteps_OneTooMany(w) == cur[w] <= Len(AgentsOf[w])

MoreSteps(w) == cur[w] < Len(AgentsOf[w])

StepBecomes(w, s) == step' = [step EXCEPT ![w][cur[w]] = s]

\* The race is won by the agent's result: the step is completed, unless the
\* workflow has been cancelled meanwhile, and the next one entered, unless the
\* result is one that JSON cannot copy.
StepDone(w) ==
    /\ pc[w] = "racing" /\ phase[<<w, cur[w]>>] = "done"
    /\ \/ /\ Final(w)
          /\ GoesTo(w, "catching") /\ UNCHANGED <<wstate, step, cur>>
       \/ /\ ~Final(w)
          /\ StepBecomes(w, "COMPLETED") /\ Throws(w) /\ UNCHANGED <<wstate, cur>>
       \/ /\ ~Final(w) /\ MoreSteps(w)
          /\ EnterStep(w, cur[w] + 1) /\ UNCHANGED wstate
       \/ /\ ~Final(w) /\ ~MoreSteps(w)
          /\ StepBecomes(w, "COMPLETED") /\ Becomes(w, "COMPLETED")
          /\ GoesTo(w, "resolving") /\ UNCHANGED cur
    /\ UNCHANGED <<agentVars, registered, controllers, spent, aborted, calls>>

Aborts_Never(w) == FALSE

\* The abort signal wins the race, the agent goes on.
Aborts(w) == aborted[w]

\* The step fails: the abort, or the agent's error.
StepFails(w) ==
    /\ \/ pc[w] = "racing" /\ Aborts(w) /\ GoesTo(w, "catchingCancelled")
       \/ pc[w] = "racing" /\ phase[<<w, cur[w]>>] = "failed" /\ Throws(w)
       \/ pc[w] = "refused" /\ Throws(w)
    /\ UNCHANGED <<agentVars, registered, controllers, spent, wstate, step, cur,
                   aborted, calls>>

\* The catch clause after its await: a cancellation, which throws when
\* engine.cancel has made it; a failure, which throws too when the workflow is
\* final; or the error of looking into the error, before anything is written.
Caught(w) ==
    /\ pc[w] \in Catches
    /\ \/ /\ aborted[w] \/ pc[w] = "catchingCancelled"
          /\ CancelWorkflow(w)
          /\ GoesTo(w, IF Final(w) THEN "rejecting" ELSE "resolving")
       \/ /\ ~aborted[w] /\ pc[w] = "catching" /\ ~Final(w)
          /\ StepBecomes(w, "FAILED") /\ Becomes(w, "FAILED")
          /\ GoesTo(w, "rejecting")
       \/ /\ ~aborted[w]
          /\ pc[w] = "catchingUnreadable" \/ (pc[w] = "catching" /\ Final(w))
          /\ GoesTo(w, "rejecting") /\ UNCHANGED <<wstate, step>>
    /\ UNCHANGED <<agentVars, registered, controllers, spent, cur, aborted, calls>>

\* The snapshot of the result, which throws of what JSON cannot copy, and the
\* engine's finally clause.
Settles(w) ==
    /\ \/ pc[w] = "resolving" /\ \E p \in {"resolved", "rejected"} : GoesTo(w, p)
       \/ pc[w] = "rejecting" /\ GoesTo(w, "rejected")
    /\ controllers' = [controllers EXCEPT ![IdOf[w]] = None]
    /\ UNCHANGED <<agentVars, registered, spent, wstate, step, cur, aborted, calls>>

-----------------------------------------------------------------------------
Continues(w) ==
    \/ AfterCheckpoint(w) \/ AfterInitialize(w)
    \/ StepDone(w) \/ StepFails(w) \/ Caught(w) \/ Settles(w)

Next ==
    \/ \E w \in Workflows : Register(w) \/ Execute(w) \/ ExecuteFinal(w)
    \/ \E w \in Workflows : InitializesAgent(w) \/ Continues(w)
    \/ \E i \in Ids : Cancel(i) \/ Unregister(i) \/ ThrowsFinal(i)
    \/ \E e \in Executions : (ExecutionStep(e) \/ Work(e)) /\ UNCHANGED wfVars
    \/ \E a \in Agents : (Meddle(a) \/ UserInitializes(a)) /\ UNCHANGED wfVars

Spec == Init /\ [][Next]_vars

\* The executor and the engine go on when what they await has settled.  That an
\* agent ever answers, to initialize() or to execute(), is not assumed.
Fairness == \A w \in Workflows : WF_vars(Continues(w))

FairSpec == Spec /\ Fairness

-----------------------------------------------------------------------------
(* Properties                                                               *)

\* Steps run in order and on results: an agent is called for a step only after
\* the agents of all steps before it have delivered, and what a workflow and its
\* steps say agrees with what the agents did, wherever a cancel, a failure or a
\* second execute() struck.  Nothing of a workflow that has ended is pending
\* half-way.
StepsTellTheRun ==
    \A w \in Workflows :
        /\ \A k \in Steps(w) : phase[<<w, k>>] # "none" =>
              \A j \in Steps(w) : j < k => step[w][j] = "COMPLETED"
        /\ \A k \in Steps(w) : step[w][k] = "COMPLETED" => phase[<<w, k>>] = "done"
        /\ wstate[w] = "COMPLETED" => \A k \in Steps(w) : step[w][k] = "COMPLETED"
        /\ Final(w) => \A k \in Steps(w) : step[w][k] # "RUNNING"
        /\ wstate[w] = "FAILED" => \E k \in Steps(w) : step[w][k] = "FAILED"
        /\ wstate[w] = "CANCELLED" => \A k \in Steps(w) : step[w][k] # "PENDING"

\* cancel() reaches a running workflow: its controller stays in the map until its
\* own execute() is over, unless an earlier execute() of the same id, which
\* unregister() did not wait for, cleans up after itself.
CancelReaches ==
    [][\A w \in Workflows : LET i == IdOf[w] IN
          wstate[w] = "RUNNING" /\ controllers[i] = w /\ controllers'[i] # w =>
              \/ pc[w] = "rejecting"
              \/ i \in spent
              \/ \E v \in Workflows \ {w} :
                     IdOf[v] = i /\ pc[v] \in {"resolving", "rejecting"}]_vars

\* An execution that is cancelled settles, whether or not the agent it waits for
\* ever ends what it executes, unless it waits for an initialize() that never
\* ends: that await is outside the race against the abort.
CancelledSettles ==
    \A w \in Workflows :
        \/ <>[](pc[w] = "initializing")
        \/ aborted[w] ~> pc[w] \in {"resolved", "rejected"}

\* test-workflow.ts:374 says of the execute() of a workflow that was cancelled while
\* an agent works for it: "it should resolve/complete with cancellation handling".
CancelledResolves ==
    \A w \in Workflows : wstate[w] = "CANCELLED" /\ pc[w] = "rejected" =>
        ~UnderWay(<<w, cur[w]>>)

-----------------------------------------------------------------------------
(* Refinement of WorkflowService                                            *)

Promise(p) ==
    CASE p = "idle" -> "none"
      [] p \in {"resolving", "resolved"} -> p
      [] p \in {"rejecting", "rejected"} -> "rejected"
      [] OTHER -> "pending"

Call(p) ==
    CASE p = "none"      -> "none"
      [] p = "finishing" -> "reporting"
      [] p = "done"      -> "delivered"
      [] p = "failed"    -> "failed"
      [] OTHER -> "holding"

Service == INSTANCE WorkflowService WITH
    state   <- wstate,
    promise <- [w \in Workflows |-> Promise(pc[w])],
    at      <- cur,
    call    <- [e \in Executions |-> Call(phase[e])]

\* The engine is a WorkflowService: wherever cancels, failures, refused events, an
\* unregister() or a second execute() strike, agents are called one step at a
\* time and held by one call at a time, a final state is final, and execute()
\* resolves or rejects as the service says.
ImplementsService == Service!Spec

=============================================================================
