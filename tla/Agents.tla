------------------------------- MODULE Agents -------------------------------
(***************************************************************************)
(* The agents of packages/core/src/agents and the sessions that the        *)
(* supervisor keeps of their executions.                                   *)
(*                                                                         *)
(* Agent.execute checks the lifecycle table, writes RUNNING and awaits: the *)
(* session's registration, the event AgentStarted, the work itself, the    *)
(* event AgentFinished, the end of the session.  At each await others may  *)
(* run: another caller of the agent, its lifecycle methods, a second       *)
(* initialize().  An event that a subscriber's filter or middleware refuses *)
(* rejects the publish, and with it whatever awaits it: a refusal.         *)
(*                                                                         *)
(* The id of a session is that of the agent with the time in milliseconds: *)
(* executions of one agent that begin in the same millisecond share one.   *)
(*                                                                         *)
(* The module has no callers: WorkflowRun composes it with workflows.      *)
(***************************************************************************)
EXTENDS Integers, FiniteSets

CONSTANTS
    Agents,
    Executions,  \* the calls of Agent.execute that callers may make
    AgentOf,     \* [Executions -> Agents]
    MaxRetries,  \* of the policy that an agent gives its session: 3
    MaxTroubles  \* bound: publishes that reject and calls of lifecycle methods

ASSUME AgentsAssumption == /\ IsFiniteSet(Executions)
                           /\ AgentOf \in [Executions -> Agents]
                           /\ MaxRetries \in Nat \ {0} /\ MaxTroubles \in Nat

VARIABLES
    agent,     \* Agent._state
    restoring, \* agents on which users have called initialize(), not yet ended
    phase,     \* progress of every execution
    sid,       \* sessionId of every execution, named after the first to have it
    latest,    \* the sessionId of an agent's latest execution, if any
    session,   \* ExecutionSupervisor._sessions: the state of every session
    worked,    \* history: executions whose work has succeeded
    silenced,  \* history: executions an event of which was refused
    meddled,   \* history: agents whose state was written by somebody else than
               \* the execution under way (see Meddles)
    troubles   \* refused publishes and lifecycle calls so far

idVars    == <<sid, latest>>
agentVars == <<agent, restoring, phase, idVars, session, worked, silenced, meddled,
               troubles>>

AgentStates   == {"CREATED", "READY", "RUNNING", "PAUSED", "COMPLETED", "STOPPED",
                  "FAILED"}
SessionStates == {"none", "READY", "RUNNING", "COMPLETED", "FAILED"}
Phases == {"none", "registering", "starting", "working", "finishing",
           "recording", "recovering", "done", "failed"}

AgentTypeOK ==
    /\ agent \in [Agents -> AgentStates] /\ restoring \subseteq Agents
    /\ phase \in [Executions -> Phases]
    /\ sid \in [Executions -> Executions]
    /\ latest \in [Agents -> SUBSET Executions]
    /\ session \in [Executions -> SessionStates]
    /\ worked \subseteq Executions /\ silenced \subseteq Executions
    /\ meddled \subseteq Agents
    /\ troubles \in 0..MaxTroubles

AgentInit ==
    /\ agent = [a \in Agents |-> "CREATED"] /\ restoring = {}
    /\ phase = [e \in Executions |-> "none"]
    /\ sid = [e \in Executions |-> e] /\ latest = [a \in Agents |-> {}]
    /\ session = [e \in Executions |-> "none"]
    /\ worked = {} /\ silenced = {} /\ meddled = {}
    /\ troubles = 0

Ends == {"done", "failed"}
UnderWay(e) == phase[e] \notin {"none"} \cup Ends

-----------------------------------------------------------------------------
(* A definition named X_Y is a mutation of X, a plausible bug; no action    *)
(* uses it.                                                                 *)

\* The table of validateLifecycleTransition.
Transitions ==
    UNION {{"CREATED"} \X {"READY", "FAILED"},
           {"READY"} \X {"RUNNING", "STOPPED", "FAILED"},
           {"RUNNING"} \X {"COMPLETED", "PAUSED", "STOPPED", "FAILED"},
           {"PAUSED"} \X {"RUNNING", "STOPPED", "FAILED"},
           {"COMPLETED"} \X {"RUNNING", "STOPPED"},
           {"STOPPED", "FAILED"} \X {"READY", "RUNNING"}}

\* The states that may follow s.
Allowed(s) == {t \in AgentStates : <<s, t>> \in Transitions}

MayBegin_Initialized(e) == agent[AgentOf[e]] # "CREATED"

MayBegin(e) == "RUNNING" \in Allowed(agent[AgentOf[e]])

To(e, p) == phase' = [phase EXCEPT ![e] = p]
Sets(e, s) == agent' = [agent EXCEPT ![AgentOf[e]] = s]

\* execute() up to the await of registerSession, which overwrites a session of
\* the same id: the clock may show the millisecond of the latest execution still.
Begin(e) ==
    /\ phase[e] = "none" /\ MayBegin(e)
    /\ Sets(e, "RUNNING")
    /\ To(e, "registering")
    /\ \E id \in {e} \cup latest[AgentOf[e]] :
          /\ sid' = [sid EXCEPT ![e] = id]
          /\ latest' = [latest EXCEPT ![AgentOf[e]] = {id}]
          /\ session' = [session EXCEPT ![id] = "READY"]
    /\ UNCHANGED <<restoring, worked, silenced, meddled, troubles>>

Writes(e, s) == session' = [session EXCEPT ![sid[e]] = s]

Sharers(e) == {f \in Executions : phase[f] # "none" /\ sid[f] = sid[e]}

\* The executions of a session may have used up its recoveries: each makes one at
\* most.
UsedUp(e) == Cardinality(Sharers(e)) > MaxRetries

\* A publish either is accepted, or refused as long as the bound allows.
Accepted == UNCHANGED <<troubles, silenced>>
Refused(e) ==
    /\ troubles < MaxTroubles
    /\ troubles' = troubles + 1
    /\ silenced' = silenced \cup {e}

\* The session goes to RUNNING, unless the event ExecutionStarted is refused, or
\* another execution has closed the session or used up its recoveries.
SessionStarts(e) ==
    /\ phase[e] = "registering"
    /\ \/ /\ Accepted
          /\ \E s \in {"RUNNING"} \cup (IF UsedUp(e) THEN {"FAILED"} ELSE {}) :
                IF session[sid[e]] \in {"COMPLETED", "FAILED"} THEN UNCHANGED session
                ELSE Writes(e, s)
       \/ Refused(e) /\ UNCHANGED session
    /\ To(e, "starting")
    /\ UNCHANGED <<agent, restoring, idVars, worked, meddled>>

\* AgentStarted is published outside the try: when it is refused, execute()
\* rejects and nothing else is written.
WorkStarts(e) ==
    /\ phase[e] = "starting"
    /\ \/ Accepted /\ To(e, "working")
       \/ Refused(e) /\ To(e, "failed")
    /\ UNCHANGED <<agent, restoring, idVars, session, worked, meddled>>

\* The catch clause, up to the publish of recordFailure.
Recording(e) == Writes(e, "FAILED") /\ To(e, "recording")

\* recordFailure reads the message of the error: of null or undefined it throws.
WorkFails(e) ==
    /\ phase[e] = "working"
    /\ Recording(e) \/ (To(e, "recovering") /\ UNCHANGED session)
    /\ UNCHANGED <<agent, restoring, idVars, worked, silenced, meddled, troubles>>

\* The work succeeds; the agent must still be one that may complete.
WorkSucceeds(e) ==
    /\ phase[e] = "working"
    /\ worked' = worked \cup {e}
    /\ IF "COMPLETED" \in Allowed(agent[AgentOf[e]])
       THEN Sets(e, "COMPLETED") /\ To(e, "finishing") /\ UNCHANGED session
       ELSE Recording(e) /\ UNCHANGED agent
    /\ UNCHANGED <<restoring, idVars, silenced, meddled, troubles>>

CloseSession_RefusesRunning(e) ==
    IF session[sid[e]] = "RUNNING" THEN UNCHANGED session ELSE Writes(e, "COMPLETED")

\* updateSessionState(COMPLETED); validateTransition refuses it of a READY one.
CloseSession(e) ==
    IF session[sid[e]] = "READY" THEN UNCHANGED session ELSE Writes(e, "COMPLETED")

\* The end of a session and the report of a failure await one more event, and
\* write nothing after it: an execution is over when it has written.
\* AgentFinished is published inside the try: when it is refused, the agent,
\* COMPLETED or already executing for somebody else, is on its way to FAILED.  So
\* it is when deepFreeze throws, of a result that cannot be frozen (a buffer).
Finishes(e) ==
    /\ phase[e] = "finishing"
    /\ \/ Accepted /\ CloseSession(e) /\ To(e, "done") /\ UNCHANGED meddled
       \/ /\ Refused(e) /\ Recording(e)
          /\ meddled' = meddled \cup {AgentOf[e]}
    /\ UNCHANGED <<agent, restoring, idVars, worked>>

\* executeRecovery: the policy's first recovery is a retry, which succeeds as long
\* as some are left.
Recovers(e) ==
    /\ phase[e] = "recording"
    /\ \/ /\ Accepted
          /\ \E s \in {"RUNNING"} \cup (IF UsedUp(e) THEN {"FAILED"} ELSE {}) :
                Writes(e, s)
       \/ Refused(e) /\ UNCHANGED session
    /\ To(e, "recovering")
    /\ UNCHANGED <<agent, restoring, idVars, worked, meddled>>

\* FAILED is written whatever the table says of it.
Fails(e) ==
    /\ phase[e] = "recovering"
    /\ Sets(e, "FAILED")
    /\ To(e, "failed")
    /\ UNCHANGED <<restoring, idVars, session, worked, silenced, meddled, troubles>>

\* What an execution does between its beginning and its end.
ExecutionStep(e) ==
    \/ SessionStarts(e) \/ WorkStarts(e) \/ Finishes(e)
    \/ Recovers(e) \/ Fails(e)

Work(e) == WorkSucceeds(e) \/ WorkFails(e)

-----------------------------------------------------------------------------
\* start, pause, resume, stop and, whatever the state, shutdown.
Meddle(a) ==
    /\ troubles < MaxTroubles
    /\ \E s \in (Allowed(agent[a]) \cap {"RUNNING", "PAUSED"}) \cup {"STOPPED", "FAILED"} :
          agent' = [agent EXCEPT ![a] = s]
    /\ meddled' = meddled \cup {a}
    /\ troubles' = troubles + 1
    /\ UNCHANGED <<restoring, phase, idVars, session, worked, silenced>>

\* initialize() awaits the agent's own initialization and then writes over
\* whatever the agent has become since.
EndInitialize(a, s) ==
    /\ agent' = [agent EXCEPT ![a] = s]
    /\ meddled' = IF agent[a] = "CREATED" THEN meddled ELSE meddled \cup {a}

\* initialize() called by a user, in a state that may become READY.
UserInitializes(a) ==
    \/ /\ troubles < MaxTroubles
       /\ a \notin restoring /\ "READY" \in Allowed(agent[a])
       /\ restoring' = restoring \cup {a}
       /\ troubles' = troubles + 1
       /\ UNCHANGED <<agent, phase, idVars, session, worked, silenced, meddled>>
    \/ /\ a \in restoring
       /\ restoring' = restoring \ {a}
       /\ \E s \in {"READY", "FAILED"} : EndInitialize(a, s)
       /\ UNCHANGED <<phase, idVars, session, worked, silenced, troubles>>

-----------------------------------------------------------------------------
\* Somebody else than the execution under way writes an agent's state in three
\* ways only: a lifecycle method is called, an initialize() ends late, and the
\* event AgentFinished is refused.  Otherwise an agent works for one caller at a
\* time, work that succeeded is delivered, and no agent is left RUNNING without
\* an execution, unless its AgentStarted was refused.
AgentKeepsFaith ==
    /\ \A e, f \in {x \in Executions : phase[x] = "working"} :
          AgentOf[e] = AgentOf[f] /\ AgentOf[e] \notin meddled => e = f
    /\ \A e \in worked : AgentOf[e] \notin meddled =>
          phase[e] \in {"finishing", "done"}
    /\ \A a \in Agents \ meddled : agent[a] = "RUNNING" =>
          \E e \in Executions : AgentOf[e] = a /\ (UnderWay(e) \/ e \in silenced)

\* No other execution has had the session of e.
Unshared(e) == \A f \in Executions \ {e} : phase[f] # "none" => sid[f] # sid[e]

\* A session is COMPLETED only if work that was delivered belongs to it, whoever
\* else has registered, failed or recovered it.  A session that one execution had
\* to itself says, once that has ended without a refused event, how it ended:
\* COMPLETED if it delivered, and RUNNING, as if recovered, if it failed.
SessionTellsOutcome ==
    /\ \A id \in Executions : session[id] = "COMPLETED" =>
          \E e \in worked : phase[e] = "done" /\ sid[e] = id
    /\ \A e \in Executions \ silenced : Unshared(e) =>
          /\ phase[e] = "done" => session[sid[e]] = "COMPLETED"
          /\ phase[e] = "failed" => session[sid[e]] = "RUNNING"

=============================================================================
