-------------------------- MODULE WorkflowRunProofs --------------------------
(***************************************************************************)
(* Proofs about workflows, agents and sessions, for any workflows, ids,    *)
(* agents and steps, and any number of refused events and lifecycle calls. *)
(***************************************************************************)
EXTENDS WorkflowRun, SequenceTheorems, FiniteSetTheorems, TLAPS

-----------------------------------------------------------------------------
(* Constants                                                                *)

\* The steps of a workflow are numbered from one, and there is one at least.
LEMMA StepsAreNumbered ==
    ASSUME NEW w \in Workflows
    PROVE  /\ Len(AgentsOf[w]) \in Nat \ {0}
           /\ Steps(w) = 1 .. Len(AgentsOf[w])
           /\ \A k \in Steps(w) : AgentsOf[w][k] \in Agents
  <1>1. AgentsOf[w] \in Seq(Agents) /\ AgentsOf[w] # <<>>
    BY WorkflowsAssumption
  <1>2. Len(AgentsOf[w]) \in Nat /\ DOMAIN AgentsOf[w] = 1 .. Len(AgentsOf[w])
    BY <1>1, LenProperties
  <1>3. Len(AgentsOf[w]) # 0
    BY <1>1, EmptySeq
  <1>4. \A k \in 1 .. Len(AgentsOf[w]) : AgentsOf[w][k] \in Agents
    BY <1>1, ElementOfSeq
  <1> QED BY <1>2, <1>3, <1>4 DEF Steps

\* Every step of every workflow may call its agent once.
LEMMA StepsAreExecutions ==
    /\ \A w \in Workflows : \A k \in Steps(w) :
          <<w, k>> \in Executions /\ AgentOf[<<w, k>>] = AgentsOf[w][k]
    /\ \A e \in Executions : e = <<e[1], e[2]>> /\ e[1] \in Workflows /\ e[2] \in Steps(e[1])
    /\ AgentOf \in [Executions -> Agents]
  <1>1. \A e \in Executions : \E w \in Workflows : e \in {w} \X DOMAIN AgentsOf[w]
    BY WorkflowsAssumption
  <1>2. \A w \in Workflows : \A k \in Steps(w) : <<w, k>> \in Executions
    BY WorkflowsAssumption DEF Steps
  <1>3. \A e \in Executions : e = <<e[1], e[2]>> /\ e[1] \in Workflows /\ e[2] \in Steps(e[1])
    BY <1>1 DEF Steps
  <1>4. \A w \in Workflows : \A k \in Steps(w) : AgentOf[<<w, k>>] = AgentsOf[w][k]
    BY <1>2, WorkflowsAssumption
  <1> QED BY <1>2, <1>3, <1>4, AgentsAssumption

-----------------------------------------------------------------------------
(* The steps of agents                                                      *)

\* Somebody's initialize() ends.
Initialization(a) ==
    /\ \E s \in {"READY", "FAILED"} : EndInitialize(a, s)
    /\ UNCHANGED <<phase, idVars, session, worked, silenced, troubles>>
    /\ restoring' \subseteq restoring

\* All that may happen to agents, executions and sessions.
AgentStep ==
    \/ \E e \in Executions : Begin(e) \/ ExecutionStep(e) \/ Work(e)
    \/ \E a \in Agents : Meddle(a) \/ UserInitializes(a) \/ Initialization(a)
    \/ UNCHANGED agentVars

LEMMA TableOfTransitions ==
    /\ "RUNNING" \notin Allowed("RUNNING") /\ "COMPLETED" \in Allowed("RUNNING")
    /\ \A s : Allowed(s) \subseteq AgentStates
  BY DEF Allowed, Transitions, AgentStates

LEMMA AgentTypeInit == AgentInit => AgentTypeOK
  <1>1. 0 \in 0..MaxTroubles
    BY AgentsAssumption
  <1>2. "CREATED" \in AgentStates /\ "none" \in Phases /\ "none" \in SessionStates
    BY DEF AgentStates, Phases, SessionStates
  <1> QED BY <1>1, <1>2 DEF AgentInit, AgentTypeOK

LEMMA AgentTypeStep == ASSUME AgentTypeOK, AgentStep PROVE AgentTypeOK'
  <1>1. MaxTroubles \in Nat /\ AgentOf \in [Executions -> Agents]
    BY AgentsAssumption
  <1>2. troubles < MaxTroubles => troubles + 1 \in 0..MaxTroubles
    BY <1>1 DEF AgentTypeOK
  <1>3. /\ {"READY", "RUNNING", "COMPLETED", "FAILED", "STOPPED", "PAUSED"} \subseteq AgentStates
        /\ {"READY", "RUNNING", "COMPLETED", "FAILED"} \subseteq SessionStates
        /\ {"registering", "starting", "working", "finishing", "recording", "recovering",
            "done", "failed"} \subseteq Phases
    BY DEF AgentStates, SessionStates, Phases
  <1>4. ASSUME NEW e \in Executions, Begin(e) \/ ExecutionStep(e) \/ Work(e)
        PROVE  AgentTypeOK'
    <2>1. AgentOf[e] \in Agents
      BY <1>1
    <2>2. agent' \in [Agents -> AgentStates] /\ restoring' = restoring
      BY <1>3, <1>4, <2>1 DEF AgentTypeOK, Begin, ExecutionStep, Work, SessionStarts, WorkStarts,
           Finishes, Recovers, Fails, WorkSucceeds, WorkFails, Sets
    <2>3. \E p \in {"registering", "starting", "working", "finishing", "recording", "recovering",
                    "done", "failed"} : phase' = [phase EXCEPT ![e] = p]
      BY <1>4 DEF Begin, ExecutionStep, Work, SessionStarts, WorkStarts,
           Finishes, Recovers, Fails, WorkSucceeds, WorkFails, To, Recording
    <2>4. phase' \in [Executions -> Phases]
      BY <1>3, <2>3 DEF AgentTypeOK
    <2>5. /\ sid' \in [Executions -> Executions] /\ latest' \in [Agents -> SUBSET Executions]
          /\ session' \in [Executions -> SessionStates]
      <3>1. CASE Begin(e)
        <4>1. PICK id \in {e} \cup latest[AgentOf[e]] :
                /\ sid' = [sid EXCEPT ![e] = id]
                /\ latest' = [latest EXCEPT ![AgentOf[e]] = {id}]
                /\ session' = [session EXCEPT ![id] = "READY"]
          BY <3>1 DEF Begin
        <4>2. id \in Executions
          BY <2>1 DEF AgentTypeOK
        <4> QED BY <1>3, <2>1, <4>1, <4>2 DEF AgentTypeOK
      <3>2. CASE ExecutionStep(e) \/ Work(e)
        <4>1. UNCHANGED idVars
          BY <3>2 DEF ExecutionStep, Work, SessionStarts, WorkStarts, Finishes, Recovers, Fails,
               WorkSucceeds, WorkFails
        <4>2. session' = session \/ \E s \in SessionStates : Writes(e, s)
          BY <1>3, <3>2 DEF ExecutionStep, Work, SessionStarts, WorkStarts, Finishes, Recovers,
               Fails, WorkSucceeds, WorkFails, Recording, CloseSession
        <4> QED BY <4>1, <4>2 DEF AgentTypeOK, idVars, Writes
      <3> QED BY <1>4, <3>1, <3>2
    <2>7. /\ worked' \subseteq Executions /\ silenced' \subseteq Executions
          /\ meddled' \subseteq Agents /\ troubles' \in 0..MaxTroubles
      BY <1>2, <1>4, <2>1 DEF AgentTypeOK, Begin, ExecutionStep, Work, SessionStarts, WorkStarts,
           Finishes, Recovers, Fails, WorkSucceeds, WorkFails, Accepted, Refused
    <2> QED BY <2>2, <2>4, <2>5, <2>7 DEF AgentTypeOK
  <1>5. ASSUME NEW a \in Agents, Meddle(a) \/ UserInitializes(a) \/ Initialization(a)
        PROVE  AgentTypeOK'
    <2>1. agent' = agent \/ \E s \in AgentStates : agent' = [agent EXCEPT ![a] = s]
      BY <1>3, <1>5 DEF Meddle, UserInitializes, Initialization, EndInitialize
    <2>2. agent' \in [Agents -> AgentStates]
      BY <2>1 DEF AgentTypeOK
    <2>3. /\ meddled' \subseteq Agents /\ troubles' \in 0..MaxTroubles
          /\ restoring' \subseteq Agents
          /\ UNCHANGED <<phase, idVars, session, worked, silenced>>
      BY <1>2, <1>5 DEF AgentTypeOK, Meddle, UserInitializes, Initialization, EndInitialize
    <2> QED BY <2>2, <2>3 DEF AgentTypeOK, idVars
  <1> QED BY <1>4, <1>5 DEF AgentStep, AgentTypeOK, agentVars, idVars


-----------------------------------------------------------------------------
(* Sessions                                                                 *)

\* What the session says at every phase of an execution that has it to itself.
SessionOf(e) == LET s == session[sid[e]] IN
    /\ phase[e] = "registering" => s = "READY"
    /\ phase[e] \in {"starting", "working", "finishing"} =>
          s = "RUNNING" \/ (s = "READY" /\ e \in silenced)
    /\ phase[e] = "recording" => s = "FAILED"
    /\ phase[e] \in {"recovering", "failed"} =>
          s = "RUNNING" \/ (s \in {"READY", "FAILED"} /\ e \in silenced)
    /\ phase[e] = "done" => s = "COMPLETED" \/ (s = "READY" /\ e \in silenced)

\* Work is delivered by executions that worked.
WorkInv ==
    \A e \in Executions :
        /\ phase[e] = "none" => e \notin worked
        /\ phase[e] \in {"finishing", "done"} => e \in worked

\* Somebody has earned every COMPLETED.
EarnedInv ==
    \A id \in Executions : session[id] = "COMPLETED" =>
        \E e \in worked : phase[e] = "done" /\ sid[e] = id

OwnInv == \A e \in Executions : phase[e] # "none" /\ Unshared(e) => SessionOf(e)

SessionInv == WorkInv /\ EarnedInv /\ OwnInv

\* An execution under way touches its own phase and session.
LEMMA OneExecutionGoesOn ==
    ASSUME AgentTypeOK, NEW e \in Executions, ExecutionStep(e) \/ Work(e)
    PROVE  /\ sid' = sid /\ phase[e] \notin {"none", "done", "failed"} /\ phase'[e] # "none"
           /\ \A f \in Executions \ {e} :
                 /\ phase'[f] = phase[f] /\ (f \in worked' <=> f \in worked)
                 /\ (f \in silenced' <=> f \in silenced)
           /\ \A id \in Executions \ {sid[e]} : session'[id] = session[id]
  <1>1. sid' = sid
    BY DEF ExecutionStep, Work, SessionStarts, WorkStarts, Finishes, Recovers, Fails,
         WorkSucceeds, WorkFails, idVars
  <1>2. session' = session \/ \E s : Writes(e, s)
    BY DEF ExecutionStep, Work, SessionStarts, WorkStarts, Finishes, Recovers, Fails,
         WorkSucceeds, WorkFails, Recording, CloseSession
  <1>3. \A id \in Executions \ {sid[e]} : session'[id] = session[id]
    BY <1>2 DEF Writes, AgentTypeOK
  <1>4. /\ phase[e] \notin {"none", "done", "failed"}
        /\ \E p \in {"starting", "working", "finishing", "recording", "recovering", "done",
                     "failed"} : To(e, p)
    BY DEF ExecutionStep, Work, SessionStarts, WorkStarts, Finishes, Recovers, Fails,
         WorkSucceeds, WorkFails, Recording
  <1>5. /\ worked' = worked \/ worked' = worked \cup {e}
        /\ silenced' = silenced \/ silenced' = silenced \cup {e}
    BY DEF ExecutionStep, Work, SessionStarts, WorkStarts, Finishes, Recovers, Fails,
         WorkSucceeds, WorkFails, Accepted, Refused
  <1> QED BY <1>1, <1>3, <1>4, <1>5 DEF To, AgentTypeOK

\* An execution that has a session to itself has not used up its recoveries.
LEMMA OneRecoveryIsLeft ==
    ASSUME NEW e \in Executions, phase[e] # "none", Unshared(e)
    PROVE  ~UsedUp(e)
  <1>1. Sharers(e) = {e}
    BY DEF Sharers, Unshared
  <1>2. Cardinality(Sharers(e)) = 1
    BY <1>1, FS_Singleton
  <1> QED BY <1>2, AgentsAssumption DEF UsedUp

\* What an execution under way makes of a session of its own.
LEMMA OwnSessionStep ==
    ASSUME AgentTypeOK, WorkInv, NEW e \in Executions, ExecutionStep(e) \/ Work(e),
           Unshared(e), SessionOf(e)
    PROVE  SessionOf(e)'
  <1>1. sid' = sid /\ phase[e] # "none" /\ sid[e] \in Executions
    BY OneExecutionGoesOn DEF AgentTypeOK
  <1>2. \A s : Writes(e, s) => session'[sid[e]] = s
    BY <1>1 DEF Writes, AgentTypeOK
  <1>3. \A p : To(e, p) => phase'[e] = p
    BY DEF To, AgentTypeOK
  <1>4. ~UsedUp(e)
    BY <1>1, OneRecoveryIsLeft
  <1>5. CASE SessionStarts(e)
    <2>1. phase[e] = "registering" /\ phase'[e] = "starting" /\ session[sid[e]] = "READY"
      BY <1>3, <1>5 DEF SessionStarts, SessionOf
    <2>2. session'[sid[e]] = "RUNNING" \/ (session' = session /\ e \in silenced')
      BY <1>2, <1>4, <1>5, <2>1 DEF SessionStarts, Refused
    <2> QED BY <1>1, <2>1, <2>2 DEF SessionOf
  <1>6. CASE WorkStarts(e)
    <2>1. /\ phase[e] = "starting" /\ session' = session
          /\ \/ phase'[e] = "working" /\ silenced' = silenced
             \/ phase'[e] = "failed" /\ e \in silenced'
      BY <1>3, <1>6 DEF WorkStarts, Accepted, Refused
    <2> QED BY <1>1, <2>1 DEF SessionOf
  <1>7. CASE Work(e)
    <2>1. /\ phase[e] = "working" /\ silenced' = silenced
          /\ \/ phase'[e] = "recording" /\ session'[sid[e]] = "FAILED"
             \/ phase'[e] \in {"recovering", "finishing"} /\ session' = session
      BY <1>2, <1>3, <1>7 DEF Work, WorkSucceeds, WorkFails, Recording
    <2> QED BY <1>1, <2>1 DEF SessionOf
  <1>8. CASE Finishes(e)
    <2>1. /\ phase[e] = "finishing"
          /\ \/ phase'[e] = "recording" /\ session'[sid[e]] = "FAILED"
             \/ phase'[e] = "done" /\ CloseSession(e) /\ silenced' = silenced
      BY <1>2, <1>3, <1>8 DEF Finishes, Recording, Accepted
    <2>2. CloseSession(e) => IF session[sid[e]] = "READY" THEN session' = session
                             ELSE session'[sid[e]] = "COMPLETED"
      BY <1>2 DEF CloseSession
    <2> QED BY <1>1, <2>1, <2>2 DEF SessionOf
  <1>9. CASE Recovers(e)
    <2>1. phase[e] = "recording" /\ phase'[e] = "recovering" /\ session[sid[e]] = "FAILED"
      BY <1>3, <1>9 DEF Recovers, SessionOf
    <2>2. session'[sid[e]] = "RUNNING" \/ (session' = session /\ e \in silenced')
      BY <1>2, <1>4, <1>9 DEF Recovers, Refused
    <2> QED BY <1>1, <2>1, <2>2 DEF SessionOf
  <1>10. CASE Fails(e)
    <2>1. phase[e] = "recovering" /\ phase'[e] = "failed" /\ UNCHANGED <<session, silenced>>
      BY <1>3, <1>10 DEF Fails
    <2> QED BY <1>1, <2>1 DEF SessionOf
  <1> QED BY <1>5, <1>6, <1>7, <1>8, <1>9, <1>10 DEF ExecutionStep

LEMMA SessionStep == ASSUME AgentTypeOK, SessionInv, AgentStep PROVE SessionInv'
  <1>1. ASSUME NEW e \in Executions, Begin(e) PROVE SessionInv'
    <2>1. PICK id \in {e} \cup latest[AgentOf[e]] :
            /\ sid' = [sid EXCEPT ![e] = id]
            /\ session' = [session EXCEPT ![id] = "READY"]
      BY <1>1 DEF Begin
    <2>2. /\ id \in Executions /\ sid'[e] = id /\ session'[id] = "READY"
          /\ phase[e] = "none" /\ phase'[e] = "registering"
          /\ UNCHANGED <<worked, silenced>>
      <3>1. AgentOf[e] \in Agents
        BY AgentsAssumption
      <3> QED BY <1>1, <2>1, <3>1 DEF Begin, To, AgentTypeOK
    <2>3. /\ \A f \in Executions \ {e} : phase'[f] = phase[f] /\ sid'[f] = sid[f]
          /\ \A i \in Executions \ {id} : session'[i] = session[i]
      BY <1>1, <2>1, <2>2 DEF Begin, To, AgentTypeOK
    <2>4. WorkInv'
      BY <2>2, <2>3 DEF SessionInv, WorkInv
    <2>5. EarnedInv'
      <3> SUFFICES ASSUME NEW i \in Executions, session'[i] = "COMPLETED"
                   PROVE  \E f \in worked' : phase'[f] = "done" /\ sid'[f] = i
        BY DEF EarnedInv
      <3>1. session[i] = "COMPLETED"
        BY <2>2, <2>3
      <3>2. PICK f \in worked : phase[f] = "done" /\ sid[f] = i
        BY <3>1 DEF SessionInv, EarnedInv
      <3>3. f \in Executions \ {e}
        BY <2>2, <3>2 DEF AgentTypeOK
      <3> QED BY <2>2, <2>3, <3>2, <3>3
    <2>6. ASSUME NEW f \in Executions, phase'[f] # "none", Unshared(f)' PROVE SessionOf(f)'
      <3>1. CASE f = e
        BY <2>2, <3>1 DEF SessionOf
      <3>2. CASE f # e
        <4>1. phase[f] # "none" /\ Unshared(f) /\ sid'[f] # id
          <5>1. \A g \in Executions \ {f} : phase'[g] # "none" => sid'[g] # sid'[f]
            BY <2>6 DEF Unshared
          <5>2. sid'[f] # id
            BY <2>2, <3>2, <5>1
          <5>3. \A g \in Executions \ {f} : phase[g] # "none" => sid[g] # sid[f]
            BY <2>2, <2>3, <3>2, <5>1
          <5> QED BY <2>3, <2>6, <3>2, <5>2, <5>3 DEF Unshared
        <4>2. SessionOf(f)
          BY <4>1 DEF SessionInv, OwnInv
        <4>3. session'[sid'[f]] = session[sid[f]] /\ phase'[f] = phase[f]
          BY <2>3, <3>2, <4>1 DEF AgentTypeOK
        <4> QED BY <2>2, <4>2, <4>3 DEF SessionOf
      <3> QED BY <3>1, <3>2
    <2> QED BY <2>4, <2>5, <2>6 DEF SessionInv, OwnInv
  <1>2. ASSUME NEW e \in Executions, ExecutionStep(e) \/ Work(e) PROVE SessionInv'
    <2>1. /\ sid' = sid /\ phase[e] \notin {"none", "done", "failed"} /\ phase'[e] # "none"
          /\ \A f \in Executions \ {e} :
                /\ phase'[f] = phase[f] /\ (f \in worked' <=> f \in worked)
                /\ (f \in silenced' <=> f \in silenced)
          /\ \A id \in Executions \ {sid[e]} : session'[id] = session[id]
          /\ sid[e] \in Executions
      BY <1>2, OneExecutionGoesOn DEF AgentTypeOK
    <2>2. phase'[e] \in {"finishing", "done"} => e \in worked'
      BY <1>2 DEF SessionInv, WorkInv, ExecutionStep, Work, SessionStarts, WorkStarts, Finishes,
           Recovers, Fails, WorkSucceeds, WorkFails, Recording, To, AgentTypeOK
    <2>3. WorkInv'
      BY <2>1, <2>2 DEF SessionInv, WorkInv
    <2>4. session'[sid[e]] = "COMPLETED" =>
             session[sid[e]] = "COMPLETED" \/ (phase'[e] = "done" /\ e \in worked')
      <3>1. CASE Finishes(e)
        <4>1. phase'[e] = "done" \/ session'[sid[e]] = "FAILED"
          BY <2>1, <3>1 DEF Finishes, Recording, Writes, To, AgentTypeOK
        <4> QED BY <2>2, <4>1
      <3>2. CASE ~Finishes(e)
        <4>1. session' = session \/ \E s \in {"RUNNING", "FAILED"} : Writes(e, s)
          BY <1>2, <3>2 DEF ExecutionStep, Work, SessionStarts, WorkStarts, Recovers, Fails,
               WorkSucceeds, WorkFails, Recording
        <4> QED BY <2>1, <4>1 DEF Writes, AgentTypeOK
      <3> QED BY <3>1, <3>2
    <2>5. EarnedInv'
      <3> SUFFICES ASSUME NEW i \in Executions, session'[i] = "COMPLETED"
                   PROVE  \E f \in worked' : phase'[f] = "done" /\ sid'[f] = i
        BY DEF EarnedInv
      <3>1. CASE i = sid[e] /\ phase'[e] = "done" /\ e \in worked'
        BY <2>1, <3>1
      <3>2. CASE session[i] = "COMPLETED"
        <4>1. PICK f \in worked : phase[f] = "done" /\ sid[f] = i
          BY <3>2 DEF SessionInv, EarnedInv
        <4>2. f \in Executions \ {e}
          BY <2>1, <4>1 DEF AgentTypeOK
        <4> QED BY <2>1, <4>1, <4>2
      <3> QED BY <2>1, <2>4, <3>1, <3>2
    <2>6. ASSUME NEW f \in Executions, phase'[f] # "none", Unshared(f)' PROVE SessionOf(f)'
      <3>1. Unshared(f) /\ phase[f] # "none"
        <4>1. \A g \in Executions : phase'[g] = "none" <=> phase[g] = "none"
          BY <2>1
        <4> QED BY <2>1, <2>6, <4>1 DEF Unshared
      <3>2. SessionOf(f)
        BY <3>1 DEF SessionInv, OwnInv
      <3>3. CASE f = e
        BY <1>2, <3>1, <3>2, <3>3, OwnSessionStep DEF SessionInv
      <3>4. CASE f # e
        <4>1. sid[f] # sid[e] /\ sid[f] \in Executions
          BY <2>1, <3>1, <3>4 DEF Unshared, AgentTypeOK
        <4>2. session'[sid'[f]] = session[sid[f]] /\ phase'[f] = phase[f]
              /\ (f \in silenced' <=> f \in silenced)
          BY <2>1, <3>4, <4>1
        <4> QED BY <3>2, <4>2 DEF SessionOf
      <3> QED BY <3>3, <3>4
    <2> QED BY <2>3, <2>5, <2>6 DEF SessionInv, OwnInv
  <1>3. CASE UNCHANGED <<phase, sid, session, worked, silenced>>
    BY <1>3 DEF SessionInv, WorkInv, EarnedInv, OwnInv, SessionOf, Unshared
  <1> QED BY <1>1, <1>2, <1>3
         DEF AgentStep, Meddle, UserInitializes, Initialization, agentVars, idVars

LEMMA SessionInvSuffices == ASSUME AgentTypeOK, SessionInv PROVE SessionTellsOutcome
  <1>1. ASSUME NEW e \in Executions \ silenced, Unshared(e)
        PROVE  /\ phase[e] = "done" => session[sid[e]] = "COMPLETED"
               /\ phase[e] = "failed" => session[sid[e]] = "RUNNING"
    <2>1. phase[e] # "none" => SessionOf(e)
      BY <1>1 DEF SessionInv, OwnInv
    <2> QED BY <1>1, <2>1 DEF SessionOf
  <1> QED BY <1>1 DEF SessionTellsOutcome, SessionInv, EarnedInv

-----------------------------------------------------------------------------
(* Agents                                                                   *)

\* An execution that believes its agent to be RUNNING for it.
Occupies(e) == phase[e] \in {"registering", "starting", "working", "recording", "recovering"}

\* AgentStarted of the execution was refused: its agent stays RUNNING.
LeftRunning(e) == phase[e] = "failed" /\ e \in silenced

FaithInv ==
    /\ \A e \in Executions : AgentOf[e] \notin meddled =>
          /\ Occupies(e) => agent[AgentOf[e]] = "RUNNING"
          /\ e \in worked => phase[e] \in {"finishing", "done"}
    /\ \A e, f \in Executions :
          Occupies(e) /\ Occupies(f) /\ AgentOf[e] = AgentOf[f] /\ AgentOf[e] \notin meddled
            => e = f
    /\ \A a \in Agents : a \notin meddled /\ agent[a] = "RUNNING" =>
          \E e \in Executions : AgentOf[e] = a /\ (Occupies(e) \/ LeftRunning(e))

LEMMA FaithStep == ASSUME AgentTypeOK, FaithInv, AgentStep PROVE FaithInv'
  <1>1. AgentOf \in [Executions -> Agents]
    BY AgentsAssumption
  <1>2. ASSUME NEW e \in Executions, Begin(e) \/ ExecutionStep(e) \/ Work(e)
        PROVE  FaithInv'
    <2> DEFINE a == AgentOf[e]
    <2>1. \A f \in Executions \ {e} :
            /\ (Occupies(f)' <=> Occupies(f)) /\ (LeftRunning(f)' <=> LeftRunning(f))
            /\ phase'[f] = phase[f] /\ (f \in worked' <=> f \in worked)
      BY <1>2 DEF AgentTypeOK, Begin, ExecutionStep, Work, SessionStarts, WorkStarts, Finishes,
           Recovers, Fails, WorkSucceeds, WorkFails, Accepted, Refused, Recording, To,
           Occupies, LeftRunning
    <2>2. /\ a \in Agents /\ meddled \subseteq meddled'
          /\ \A b \in Agents \ {a} : agent'[b] = agent[b] /\ (b \in meddled' <=> b \in meddled)
      BY <1>1, <1>2 DEF AgentTypeOK, Begin, ExecutionStep, Work, SessionStarts, WorkStarts, Finishes,
           Recovers, Fails, WorkSucceeds, WorkFails, Sets
    <2>3. CASE a \in meddled'
      BY <1>1, <2>1, <2>2, <2>3 DEF FaithInv
    <2>4. CASE a \notin meddled' /\ Begin(e)
      <3>1. agent[a] # "RUNNING" /\ agent'[a] = "RUNNING" /\ Occupies(e)' /\ e \notin worked'
        BY <2>2, <2>4, TableOfTransitions DEF Begin, MayBegin, Sets, To, AgentTypeOK, Occupies, FaithInv
      <3> QED BY <1>1, <2>1, <2>2, <2>4, <3>1 DEF FaithInv
    <2>5. CASE a \notin meddled' /\ (SessionStarts(e) \/ WorkStarts(e) \/ WorkFails(e) \/ Recovers(e))
      <3>1. /\ Occupies(e) /\ (Occupies(e)' \/ LeftRunning(e)') /\ agent' = agent
            /\ worked' = worked
        BY <2>5 DEF SessionStarts, WorkStarts, WorkFails, Recovers, Accepted, Refused, To, Recording,
             AgentTypeOK, Occupies, LeftRunning
      <3> QED BY <1>1, <2>1, <2>2, <2>5, <3>1 DEF FaithInv, Occupies
    <2>6. CASE a \notin meddled' /\ WorkSucceeds(e)
      <3>1. agent[a] = "RUNNING"
        BY <2>2, <2>6 DEF FaithInv, WorkSucceeds, Occupies
      <3>2. agent'[a] = "COMPLETED" /\ phase'[e] = "finishing" /\ Occupies(e)
        BY <2>2, <2>6, <3>1, TableOfTransitions DEF WorkSucceeds, AgentTypeOK, Occupies, Sets, To
      <3>3. \A f \in Executions : AgentOf[f] = a /\ Occupies(f) => f = e
        BY <2>2, <2>6, <3>2 DEF FaithInv
      <3>4. ~Occupies(e)'
        BY <3>2 DEF Occupies
      <3> QED BY <1>1, <2>1, <2>2, <2>6, <3>2, <3>3, <3>4 DEF FaithInv
    <2>7. CASE a \notin meddled' /\ Finishes(e)
      <3>1. phase[e] = "finishing" /\ phase'[e] = "done" /\ agent' = agent /\ worked' = worked
        BY <2>7 DEF Finishes, To, AgentTypeOK, Accepted
      <3>2. ~Occupies(e) /\ ~Occupies(e)' /\ ~LeftRunning(e)
        BY <3>1 DEF Occupies, LeftRunning
      <3> QED BY <1>1, <2>1, <2>2, <2>7, <3>1, <3>2 DEF FaithInv
    <2>8. CASE a \notin meddled' /\ Fails(e)
      <3>1. Occupies(e) /\ ~Occupies(e)' /\ agent'[a] = "FAILED" /\ worked' = worked
        BY <2>2, <2>8 DEF Fails, To, Sets, AgentTypeOK, Occupies
      <3>2. \A f \in Executions : AgentOf[f] = a /\ Occupies(f) => f = e
        BY <2>2, <2>8, <3>1 DEF FaithInv
      <3>3. e \notin worked
        BY <2>2, <2>8 DEF FaithInv, Fails
      <3> QED BY <1>1, <2>1, <2>2, <2>8, <3>1, <3>2, <3>3 DEF FaithInv
    <2> QED BY <1>2, <2>3, <2>4, <2>5, <2>6, <2>7, <2>8 DEF ExecutionStep, Work
  <1>3. ASSUME NEW a \in Agents, Meddle(a) \/ UserInitializes(a) \/ Initialization(a)
        PROVE  FaithInv'
    <2>1. /\ UNCHANGED <<phase, worked, silenced>> /\ meddled \subseteq meddled'
          /\ \A b \in Agents \ {a} : agent'[b] = agent[b]
          /\ \/ a \in meddled' \/ agent'[a] = agent[a]
             \/ agent[a] = "CREATED" /\ agent'[a] \in {"READY", "FAILED"}
      BY <1>3 DEF Meddle, UserInitializes, Initialization, EndInitialize, AgentTypeOK
    <2>2. \A f \in Executions :
            /\ (Occupies(f)' <=> Occupies(f)) /\ (LeftRunning(f)' <=> LeftRunning(f))
      BY <2>1 DEF Occupies, LeftRunning
    <2> QED BY <1>1, <2>1, <2>2 DEF FaithInv
  <1>4. CASE UNCHANGED agentVars
    BY <1>4 DEF agentVars, FaithInv, Occupies, LeftRunning
  <1> QED BY <1>2, <1>3, <1>4 DEF AgentStep

LEMMA FaithInvSuffices == ASSUME AgentTypeOK, FaithInv PROVE AgentKeepsFaith
  <1>1. \A e \in Executions : AgentOf[e] \in Agents
    BY AgentsAssumption
  <1>2. \A e \in Executions : Occupies(e) => UnderWay(e)
    BY DEF Occupies, UnderWay, Ends
  <1>3. \A e \in {x \in Executions : phase[x] = "working"} : e \in Executions /\ Occupies(e)
    BY DEF Occupies
  <1>4. \A e \in worked : AgentOf[e] \notin meddled => phase[e] \in {"finishing", "done"}
    BY DEF FaithInv, AgentTypeOK
  <1>5. \A a \in Agents \ meddled : agent[a] = "RUNNING" =>
            \E e \in Executions : AgentOf[e] = a /\ (UnderWay(e) \/ e \in silenced)
    BY <1>2 DEF FaithInv, LeftRunning
  <1> QED BY <1>3, <1>4, <1>5 DEF AgentKeepsFaith, FaithInv


-----------------------------------------------------------------------------
(* Types                                                                    *)

LEMMA TypeInit == Init => TypeOK
  <1> SUFFICES ASSUME Init PROVE TypeOK
    OBVIOUS
  <1>1. AgentTypeOK
    BY AgentTypeInit DEF Init
  <1>2. 0 \in 0..MaxCalls
    BY WorkflowsAssumption
  <1>3. "CREATED" \in WorkflowStates /\ "PENDING" \in StepStates /\ "idle" \in Waits
    BY DEF WorkflowStates, StepStates, Waits, Catches
  <1>4. DOMAIN step = Workflows /\ \A w \in Workflows : step[w] \in [Steps(w) -> StepStates]
    BY <1>3 DEF Init
  <1> QED BY <1>1, <1>2, <1>3, <1>4 DEF Init, TypeOK

\* Whatever a workflow does, agents see one of their own steps.
LEMMA StepsOfAgents == ASSUME TypeOK, [Next]_vars PROVE AgentStep
  <1>1. ASSUME NEW w \in Workflows,
               Register(w) \/ Execute(w) \/ ExecuteFinal(w) \/ StepDone(w) \/ StepFails(w)
                 \/ Caught(w) \/ Settles(w)
        PROVE  UNCHANGED agentVars
    BY <1>1 DEF Register, Execute, ExecuteFinal, StepDone, StepFails, Caught, Settles
  <1>2. ASSUME NEW i \in Ids, Cancel(i) \/ Unregister(i) \/ ThrowsFinal(i)
        PROVE  UNCHANGED agentVars
    BY <1>2 DEF Cancel, Unregister, ThrowsFinal
  <1>3. ASSUME NEW w \in Workflows, pc[w] # "idle", CallAgent(w) PROVE AgentStep
    <2>1. <<w, cur[w]>> \in Executions
      BY <1>3, StepsAreExecutions DEF TypeOK
    <2>2. Begin(<<w, cur[w]>>) \/ UNCHANGED agentVars
      BY <1>3 DEF CallAgent
    <2> QED BY <2>1, <2>2 DEF AgentStep
  <1>4. ASSUME NEW w \in Workflows, AfterCheckpoint(w) \/ AfterInitialize(w) PROVE AgentStep
    BY <1>3, <1>4 DEF AfterCheckpoint, AfterInitialize, AgentStep
  <1>5. ASSUME NEW w \in Workflows, InitializesAgent(w) PROVE AgentStep
    <2>1. AgentsOf[w][cur[w]] \in Agents
      BY <1>5, StepsAreNumbered DEF InitializesAgent, TypeOK
    <2>2. Initialization(AgentsOf[w][cur[w]])
      BY <1>5 DEF InitializesAgent, Initialization
    <2> QED BY <2>1, <2>2 DEF AgentStep
  <1>6. CASE UNCHANGED vars
    BY <1>6 DEF vars, AgentStep
  <1> QED BY <1>1, <1>2, <1>4, <1>5, <1>6 DEF Next, Continues, AgentStep

\* The engine's and the executor's steps, variable by variable.
LEMMA TypeStep == ASSUME TypeOK, [Next]_vars PROVE TypeOK'
  <1> DEFINE
        StepsTyped == /\ DOMAIN step = Workflows
                      /\ \A w \in Workflows : step[w] \in [Steps(w) -> StepStates]
        MapsTyped == /\ registered \in [Ids -> Workflows \cup {None}]
                     /\ controllers \in [Ids -> Workflows \cup {None, Spent}]
                     /\ spent \subseteq Ids
        PlaceTyped == /\ pc \in [Workflows -> Waits] /\ cur \in [Workflows -> Nat]
                      /\ \A w \in Workflows :
                            IF pc[w] = "idle" THEN cur[w] = 0 ELSE cur[w] \in Steps(w)
        RestTyped == /\ wstate \in [Workflows -> WorkflowStates]
                     /\ aborted \in [Workflows -> BOOLEAN]
                     /\ calls \in 0..MaxCalls
  <1>1. AgentTypeOK'
    BY StepsOfAgents, AgentTypeStep DEF TypeOK
  <1>2. StepsTyped /\ MapsTyped /\ PlaceTyped /\ RestTyped
    BY DEF TypeOK
  <1>3. SUFFICES StepsTyped' /\ MapsTyped' /\ PlaceTyped' /\ RestTyped'
    BY <1>1 DEF TypeOK
  <1>4. /\ IdOf \in [Workflows -> Ids] /\ MaxCalls \in Nat
        /\ (calls < MaxCalls => calls + 1 \in 0..MaxCalls)
    BY <1>2, WorkflowsAssumption
  <1>5. /\ {"RUNNING", "COMPLETED", "FAILED", "CANCELLED"} \subseteq WorkflowStates
        /\ {"PENDING", "RUNNING", "COMPLETED", "FAILED", "CANCELLED"} \subseteq StepStates
    BY DEF WorkflowStates, StepStates
  <1>6. {"checkpoint", "initializing", "initialized", "racing", "refused", "catching",
         "catchingCancelled", "catchingUnreadable", "resolving", "rejecting", "resolved",
         "rejected"} \subseteq Waits
    BY DEF Waits, Catches
  <1>7. ASSUME NEW w \in Workflows, CancelWorkflow(w) PROVE StepsTyped' /\ wstate' \in [Workflows -> WorkflowStates]
    <2>1. CancelSteps(w) \in [Steps(w) -> StepStates]
      BY <1>2, <1>5 DEF CancelSteps
    <2> QED BY <1>2, <1>5, <1>7, <2>1 DEF CancelWorkflow, Becomes
  <1>8. ASSUME NEW w \in Workflows, Register(w) \/ ExecuteFinal(w)
        PROVE  StepsTyped' /\ MapsTyped' /\ PlaceTyped' /\ RestTyped'
    <2>0. IdOf[w] \in Ids
      BY <1>4
    <2>1. MapsTyped' /\ calls' \in 0..MaxCalls
      <3>1. CASE Register(w)
        BY <1>2, <2>0, <3>1 DEF Register
      <3>2. CASE ExecuteFinal(w)
        BY <1>2, <1>4, <2>0, <3>2 DEF ExecuteFinal
      <3> QED BY <1>8, <3>1, <3>2
    <2>2. UNCHANGED <<wstate, step, pc, cur, aborted>>
      BY <1>8 DEF Register, ExecuteFinal
    <2> QED BY <1>2, <2>1, <2>2
  <1>9. ASSUME NEW w \in Workflows, NEW k \in Steps(w), EnterStep(w, k)
        PROVE  StepsTyped' /\ PlaceTyped'
    <2>1. k \in Nat
      BY StepsAreNumbered
    <2>2. [j \in Steps(w) |-> IF j = k THEN "RUNNING" ELSE
             IF j = k - 1 THEN "COMPLETED" ELSE step[w][j]] \in [Steps(w) -> StepStates]
      BY <1>2, <1>5
    <2>3. StepsTyped'
      BY <1>2, <1>9, <2>2 DEF EnterStep
    <2> QED BY <1>2, <1>6, <1>9, <2>1, <2>3 DEF EnterStep, GoesTo
  <1>10. ASSUME NEW w \in Workflows, Execute(w)
         PROVE  StepsTyped' /\ MapsTyped' /\ PlaceTyped' /\ RestTyped'
    <2>1. 1 \in Steps(w)
      BY StepsAreNumbered
    <2>2. StepsTyped' /\ PlaceTyped'
      BY <1>9, <1>10, <2>1 DEF Execute
    <2> QED BY <1>2, <1>4, <1>5, <1>10, <2>2 DEF Execute, Becomes
  <1>11. ASSUME NEW w \in Workflows, pc[w] # "idle", NEW p \in Waits \ {"idle"}, GoesTo(w, p),
                cur' = cur
         PROVE  PlaceTyped'
    BY <1>2, <1>11 DEF GoesTo
  <1>12. ASSUME NEW w \in Workflows,
                AfterCheckpoint(w) \/ InitializesAgent(w) \/ AfterInitialize(w) \/ StepFails(w)
         PROVE  StepsTyped' /\ MapsTyped' /\ PlaceTyped' /\ RestTyped'
    <2>1. /\ pc[w] # "idle" /\ cur' = cur
          /\ \E p \in {"initializing", "initialized", "racing", "refused", "catching",
                     "catchingCancelled", "catchingUnreadable"} : GoesTo(w, p)
      BY <1>12 DEF AfterCheckpoint, InitializesAgent, AfterInitialize, CallAgent, StepFails,
           Throws, Catches
    <2>2. PlaceTyped'
      BY <1>6, <1>11, <2>1
    <2> QED BY <1>2, <1>12, <2>2 DEF AfterCheckpoint, InitializesAgent, AfterInitialize, StepFails
  <1>13. ASSUME NEW w \in Workflows, StepDone(w)
         PROVE  StepsTyped' /\ MapsTyped' /\ PlaceTyped' /\ RestTyped'
    <2>1. pc[w] # "idle" /\ cur[w] \in Steps(w)
      BY <1>2, <1>13 DEF StepDone
    <2>2. ASSUME NEW p \in {"catching", "catchingCancelled", "catchingUnreadable", "resolving"},
                 GoesTo(w, p), cur' = cur
          PROVE  PlaceTyped'
      BY <1>6, <1>11, <2>1, <2>2
    <2>3. ASSUME StepBecomes(w, "COMPLETED") PROVE StepsTyped'
      BY <1>2, <1>5, <2>1, <2>3 DEF StepBecomes
    <2>4. UNCHANGED <<registered, controllers, spent, aborted, calls>>
      BY <1>13 DEF StepDone
    <2>5. CASE GoesTo(w, "catching") /\ UNCHANGED <<wstate, step, cur>>
      BY <1>2, <2>2, <2>4, <2>5
    <2>6. CASE StepBecomes(w, "COMPLETED") /\ Throws(w) /\ UNCHANGED <<wstate, cur>>
      <3>1. \E p \in {"catching", "catchingCancelled", "catchingUnreadable"} : GoesTo(w, p)
        BY <2>6 DEF Throws, Catches
      <3> QED BY <1>2, <2>2, <2>3, <2>4, <2>6, <3>1
    <2>7. CASE MoreSteps(w) /\ EnterStep(w, cur[w] + 1) /\ UNCHANGED wstate
      <3>1. cur[w] + 1 \in Steps(w)
        BY <2>1, <2>7, StepsAreNumbered DEF MoreSteps
      <3> QED BY <1>2, <1>9, <2>4, <2>7, <3>1
    <2>8. CASE /\ StepBecomes(w, "COMPLETED") /\ Becomes(w, "COMPLETED")
               /\ GoesTo(w, "resolving") /\ UNCHANGED cur
      BY <1>2, <1>5, <2>2, <2>3, <2>4, <2>8 DEF Becomes
    <2> QED BY <1>13, <2>5, <2>6, <2>7, <2>8 DEF StepDone
  <1>14. ASSUME NEW w \in Workflows, Caught(w)
         PROVE  StepsTyped' /\ MapsTyped' /\ PlaceTyped' /\ RestTyped'
    <2>1. /\ pc[w] # "idle" /\ cur' = cur /\ cur[w] \in Steps(w)
          /\ \E p \in {"resolving", "rejecting"} : GoesTo(w, p)
          /\ UNCHANGED <<registered, controllers, spent, aborted, calls>>
      BY <1>2, <1>14 DEF Caught, Catches
    <2>2. PlaceTyped'
      BY <1>6, <1>11, <2>1
    <2>3. \/ CancelWorkflow(w) \/ UNCHANGED <<wstate, step>>
          \/ step' = [step EXCEPT ![w][cur[w]] = "FAILED"] /\ Becomes(w, "FAILED")
      BY <1>14 DEF Caught, StepBecomes
    <2>4. ASSUME step' = [step EXCEPT ![w][cur[w]] = "FAILED"], Becomes(w, "FAILED")
          PROVE  StepsTyped' /\ wstate' \in [Workflows -> WorkflowStates]
      BY <1>2, <1>5, <2>1, <2>4 DEF Becomes
    <2>5. StepsTyped' /\ wstate' \in [Workflows -> WorkflowStates]
      BY <1>2, <1>7, <2>3, <2>4
    <2> QED BY <1>2, <2>1, <2>2, <2>5
  <1>15. ASSUME NEW w \in Workflows, Settles(w)
         PROVE  StepsTyped' /\ MapsTyped' /\ PlaceTyped' /\ RestTyped'
    <2>1. PlaceTyped'
      BY <1>6, <1>11, <1>15 DEF Settles
    <2> QED BY <1>2, <1>4, <1>15, <2>1 DEF Settles
  <1>16. ASSUME NEW i \in Ids, Cancel(i) \/ Unregister(i)
         PROVE  StepsTyped' /\ MapsTyped' /\ PlaceTyped' /\ RestTyped'
    <2>1. /\ CancelId(i) /\ UNCHANGED <<controllers, spent, pc, cur>>
          /\ registered' \in [Ids -> Workflows \cup {None}] /\ calls' \in 0..MaxCalls
      BY <1>2, <1>4, <1>16 DEF Cancel, Unregister
    <2>2. aborted' \in [Workflows -> BOOLEAN]
      BY <1>2, <2>1 DEF CancelId
    <2>3. UNCHANGED <<wstate, step>> \/ \E w \in Workflows : CancelWorkflow(w)
      BY <1>2, <2>1 DEF CancelId
    <2>4. StepsTyped' /\ wstate' \in [Workflows -> WorkflowStates]
      BY <1>2, <1>7, <2>3
    <2> QED BY <1>2, <2>1, <2>2, <2>4
  <1>17. ASSUME NEW i \in Ids, ThrowsFinal(i)
         PROVE  StepsTyped' /\ MapsTyped' /\ PlaceTyped' /\ RestTyped'
    BY <1>2, <1>17 DEF ThrowsFinal
  <1>18. CASE UNCHANGED wfVars
    BY <1>2, <1>18 DEF wfVars
  <1> QED BY <1>8, <1>10, <1>12, <1>13, <1>14, <1>15, <1>16, <1>17, <1>18
         DEF Next, Continues, vars


-----------------------------------------------------------------------------
(* Steps and runs                                                           *)

Phase(w, k) == phase[<<w, k>>]

\* Where a workflow is, what it and its steps say, and what its agents did.
RunOf(w) ==
    /\ wstate[w] = "CREATED" =>
          pc[w] = "idle" /\ \A k \in Steps(w) : step[w][k] = "PENDING"
    /\ pc[w] = "idle" =>
          /\ wstate[w] \in {"CREATED", "CANCELLED"}
          /\ \A k \in Steps(w) :
                Phase(w, k) = "none" /\ step[w][k] \in {"PENDING", "CANCELLED"}
    /\ pc[w] # "idle" =>
          /\ \A k \in Steps(w) : k < cur[w] => step[w][k] = "COMPLETED"
          /\ \A k \in Steps(w) : k > cur[w] =>
                Phase(w, k) = "none" /\ step[w][k] \in {"PENDING", "CANCELLED"}
    /\ pc[w] \in {"checkpoint", "initializing", "initialized"} => Phase(w, cur[w]) = "none"
    /\ pc[w] \in {"checkpoint", "initializing", "initialized", "racing", "refused"} =>
          step[w][cur[w]] # "COMPLETED"
    /\ pc[w] \in {"resolving", "resolved"} => Final(w)
    /\ wstate[w] = "RUNNING" =>
          /\ pc[w] # "idle" /\ step[w][cur[w]] \in {"RUNNING", "COMPLETED"}
          /\ \A k \in Steps(w) : k > cur[w] => step[w][k] = "PENDING"
    /\ wstate[w] = "COMPLETED" => \A k \in Steps(w) : step[w][k] = "COMPLETED"
    /\ wstate[w] = "CANCELLED" => \A k \in Steps(w) : step[w][k] \notin {"PENDING", "RUNNING"}
    /\ wstate[w] = "FAILED" =>
          /\ \E k \in Steps(w) : step[w][k] = "FAILED"
          /\ \A k \in Steps(w) : step[w][k] # "RUNNING"
    /\ \A k \in Steps(w) : step[w][k] = "COMPLETED" => Phase(w, k) = "done"

RunInv == \A w \in Workflows : RunOf(w)

\* Nothing of w is written.
Same(w) == /\ wstate'[w] = wstate[w] /\ step'[w] = step[w]
           /\ pc'[w] = pc[w] /\ cur'[w] = cur[w]

\* No agent is called for w; those that were go on.
NoCall(w) == \A k \in Steps(w) :
    \/ Phase(w, k)' = Phase(w, k)
    \/ Phase(w, k) \notin {"none", "done", "failed"} /\ Phase(w, k)' # "none"

\* Calls go on by themselves; only an executor makes one, at its own step.
LEMMA CallsGoOn ==
    ASSUME TypeOK, NEW e \in Executions, ExecutionStep(e) \/ Work(e)
    PROVE  \A w \in Workflows : NoCall(w)
  <1>1. /\ \A f \in Executions \ {e} : phase'[f] = phase[f]
        /\ phase[e] \notin {"none", "done", "failed"} /\ phase'[e] # "none"
    BY DEF TypeOK, AgentTypeOK, ExecutionStep, Work, SessionStarts, WorkStarts, Finishes,
         Recovers, Fails, WorkSucceeds, WorkFails, Recording, To
  <1> QED BY <1>1, StepsAreExecutions DEF NoCall, Phase

LEMMA OwnCallsOnly ==
    ASSUME TypeOK, NEW w \in Workflows, AfterCheckpoint(w) \/ AfterInitialize(w)
    PROVE  /\ \A v \in Workflows \ {w} : NoCall(v)
           /\ \A k \in Steps(w) \ {cur[w]} : Phase(w, k)' = Phase(w, k)
  <1>1. <<w, cur[w]>> \in Executions
    BY StepsAreExecutions DEF AfterCheckpoint, AfterInitialize, TypeOK
  <1>2. \A f \in Executions \ {<<w, cur[w]>>} : phase'[f] = phase[f]
    BY <1>1 DEF AfterCheckpoint, AfterInitialize, CallAgent, Begin, To, TypeOK, AgentTypeOK, agentVars
  <1> QED BY <1>2, StepsAreExecutions DEF NoCall, Phase

LEMMA OthersRunOn ==
    ASSUME TypeOK, NEW w \in Workflows, RunOf(w), Same(w), NoCall(w)
    PROVE  RunOf(w)'
  <1>1. pc[w] # "idle" => cur[w] \in Steps(w)
    BY DEF TypeOK
  <1>2. Final(w)' <=> Final(w)
    BY DEF Final, Same
  <1> QED BY <1>1, <1>2 DEF RunOf, Same, NoCall

LEMMA RunStep == ASSUME TypeOK, RunInv, [Next]_vars PROVE RunInv'
  <1>1. ASSUME NEW w \in Workflows, UNCHANGED agentVars PROVE NoCall(w)
    BY <1>1 DEF NoCall, Phase, agentVars
  <1>2. ASSUME NEW w \in Workflows, NEW e \in Executions, ExecutionStep(e) \/ Work(e)
        PROVE  NoCall(w)
    BY <1>2, CallsGoOn
  <1>3. CASE \E e \in Executions : (ExecutionStep(e) \/ Work(e)) /\ UNCHANGED wfVars
    BY <1>2, <1>3, OthersRunOn DEF RunInv, Same, wfVars
  <1>4. CASE \E a \in Agents : (Meddle(a) \/ UserInitializes(a)) /\ UNCHANGED wfVars
    <2>1. phase' = phase
      BY <1>4 DEF Meddle, UserInitializes
    <2>2. \A w \in Workflows : NoCall(w)
      BY <2>1 DEF NoCall, Phase
    <2> QED BY <1>4, <2>2, OthersRunOn DEF RunInv, Same, wfVars
  <1>5. CASE UNCHANGED vars
    BY <1>1, <1>5, OthersRunOn DEF RunInv, Same, vars, wfVars
  <1>6. ASSUME NEW w \in Workflows, Register(w) \/ ExecuteFinal(w) PROVE RunInv'
    BY <1>1, <1>6, OthersRunOn DEF RunInv, Same, Register, ExecuteFinal
  <1>7. ASSUME NEW i \in Ids, ThrowsFinal(i) PROVE RunInv'
    BY <1>1, <1>7, OthersRunOn DEF RunInv, Same, ThrowsFinal
  <1>8. ASSUME NEW w \in Workflows, CancelWorkflow(w), NoCall(w), pc'[w] = pc[w], cur' = cur
        PROVE  RunOf(w)'
    <2>1. RunOf(w) /\ (pc[w] # "idle" => cur[w] \in Steps(w))
      BY DEF RunInv, TypeOK
    <2>2. CASE Final(w)
      BY <1>8, <2>1, <2>2, OthersRunOn DEF CancelWorkflow, Same
    <2>3. CASE ~Final(w)
      <3>1. wstate'[w] = "CANCELLED" /\ step'[w] = CancelSteps(w)
        BY <1>8, <2>3 DEF CancelWorkflow, Becomes, TypeOK
      <3>2. \A k \in Steps(w) : step'[w][k] =
              IF step[w][k] \in {"PENDING", "RUNNING"} THEN "CANCELLED" ELSE step[w][k]
        BY <3>1 DEF CancelSteps
      <3>3. \A k \in Steps(w) : step[w][k] = "COMPLETED" => Phase(w, k)' = Phase(w, k)
        BY <1>8, <2>1 DEF NoCall, RunOf
      <3>4. \A k \in Steps(w) : Phase(w, k) = "none" => Phase(w, k)' = "none"
        BY <1>8 DEF NoCall
      <3>5. Final(w)'
        BY <3>1 DEF Final
      <3>6. wstate[w] \in {"CREATED", "RUNNING"}
        BY <2>3 DEF TypeOK, WorkflowStates, Final
      <3> QED BY <1>8, <2>1, <3>1, <3>2, <3>3, <3>4, <3>5, <3>6 DEF RunOf
    <2> QED BY <2>2, <2>3
  <1>9. ASSUME NEW w \in Workflows, CancelWorkflow(w), NEW v \in Workflows \ {w}
        PROVE  wstate'[v] = wstate[v] /\ step'[v] = step[v]
    BY <1>9 DEF CancelWorkflow, Becomes, TypeOK
  <1>10. ASSUME NEW i \in Ids, Cancel(i) \/ Unregister(i) PROVE RunInv'
    <2>1. CancelId(i) /\ UNCHANGED agentVars /\ pc' = pc /\ cur' = cur
      BY <1>10 DEF Cancel, Unregister
    <2>2. UNCHANGED <<wstate, step>> \/ \E w \in Workflows : CancelWorkflow(w)
      BY <2>1 DEF CancelId, TypeOK
    <2>3. CASE UNCHANGED <<wstate, step>>
      BY <1>1, <2>1, <2>3, OthersRunOn DEF RunInv, Same
    <2>4. ASSUME NEW w \in Workflows, CancelWorkflow(w) PROVE RunInv'
      <3>1. RunOf(w)'
        BY <1>1, <1>8, <2>1, <2>4
      <3>2. ASSUME NEW v \in Workflows \ {w} PROVE RunOf(v)'
        BY <1>1, <1>9, <2>1, <2>4, <3>2, OthersRunOn DEF RunInv, Same
      <3> QED BY <3>1, <3>2 DEF RunInv
    <2> QED BY <2>2, <2>3, <2>4
  <1>11. ASSUME NEW w \in Workflows, NEW p, pc' = [pc EXCEPT ![w] = p]
         PROVE  pc'[w] = p /\ \A v \in Workflows \ {w} : pc'[v] = pc[v]
    BY <1>11 DEF TypeOK
  <1>12. ASSUME NEW w \in Workflows, Execute(w) PROVE RunInv'
    <2>1. /\ wstate[w] = "CREATED" /\ wstate'[w] = "RUNNING"
          /\ pc'[w] = "checkpoint" /\ cur'[w] = 1
          /\ UNCHANGED agentVars
          /\ \A v \in Workflows \ {w} : Same(v)
      BY <1>12 DEF Execute, EnterStep, GoesTo, Becomes, TypeOK, Same
    <2>2. RunOf(w) /\ pc[w] = "idle" /\ 1 \in Steps(w) /\ Steps(w) \subseteq Nat \ {0}
      BY <2>1, StepsAreNumbered DEF RunInv, RunOf
    <2>3. \A k \in Steps(w) : step'[w][k] = IF k = 1 THEN "RUNNING" ELSE "PENDING"
      <3>1. step'[w] = [j \in Steps(w) |-> IF j = 1 THEN "RUNNING" ELSE
                          IF j = 1 - 1 THEN "COMPLETED" ELSE step[w][j]]
        BY <1>12 DEF Execute, EnterStep, TypeOK
      <3> QED BY <2>1, <2>2, <3>1 DEF RunOf
    <2>4. \A k \in Steps(w) : Phase(w, k)' = "none"
      BY <2>1, <2>2 DEF RunOf, Phase, agentVars
    <2>5. RunOf(w)'
      BY <2>1, <2>2, <2>3, <2>4 DEF RunOf
    <2> QED BY <1>1, <2>1, <2>5, OthersRunOn DEF RunInv
  <1>13. ASSUME NEW w \in Workflows, AfterCheckpoint(w) \/ AfterInitialize(w) PROVE RunInv'
    <2> DEFINE e == <<w, cur[w]>>
    <2>1. /\ pc[w] \in {"checkpoint", "initialized"} /\ UNCHANGED <<wstate, step, cur>>
          /\ \E p \in {"initializing", "racing", "refused"} \cup Catches :
                pc' = [pc EXCEPT ![w] = p]
          /\ UNCHANGED agentVars \/ (pc' = [pc EXCEPT ![w] = "racing"] /\ Begin(e))
      BY <1>13 DEF AfterCheckpoint, AfterInitialize, CallAgent, GoesTo, Throws
    <2>2. RunOf(w) /\ cur[w] \in Steps(w) /\ Phase(w, cur[w]) = "none" /\ e \in Executions
      BY <2>1, StepsAreExecutions DEF RunInv, RunOf, TypeOK
    <2>4. /\ pc'[w] \in {"initializing", "racing", "refused", "catching", "catchingCancelled",
                         "catchingUnreadable"}
          /\ \A v \in Workflows \ {w} : pc'[v] = pc[v]
      BY <1>11, <2>1 DEF Catches
    <2>5. \A v \in Workflows \ {w} : Same(v) /\ NoCall(v)
      BY <1>13, <2>1, <2>4, OwnCallsOnly DEF Same
    <2>6. \A k \in Steps(w) \ {cur[w]} : Phase(w, k)' = Phase(w, k)
      BY <1>13, OwnCallsOnly
    <2>7. step[w][cur[w]] # "COMPLETED" /\ wstate[w] # "COMPLETED"
      BY <2>2 DEF RunOf
    <2>8. pc'[w] = "initializing" => Phase(w, cur[w])' = "none"
      BY <1>11, <2>1, <2>2 DEF Phase, agentVars
    <2>9. RunOf(w)'
      BY <2>1, <2>2, <2>4, <2>6, <2>7, <2>8 DEF RunOf, Final
    <2> QED BY <2>5, <2>9, OthersRunOn DEF RunInv
  <1>14. ASSUME NEW w \in Workflows, InitializesAgent(w) \/ StepFails(w) \/ Settles(w)
         PROVE  RunInv'
    <2>1. /\ phase' = phase /\ UNCHANGED <<wstate, step, cur>> /\ pc[w] # "idle"
          /\ \/ pc' = [pc EXCEPT ![w] = "initialized"] /\ pc[w] = "initializing"
             \/ \E p \in Catches : pc' = [pc EXCEPT ![w] = p]
             \/ /\ pc[w] = "resolving"
                /\ \E p \in {"resolved", "rejected"} : pc' = [pc EXCEPT ![w] = p]
             \/ pc' = [pc EXCEPT ![w] = "rejected"]
      BY <1>14 DEF InitializesAgent, StepFails, Settles, GoesTo, agentVars, Throws, Catches
    <2>2. /\ \/ pc'[w] = "initialized" /\ pc[w] = "initializing"
             \/ pc'[w] \in {"catching", "catchingCancelled", "catchingUnreadable", "rejected"}
             \/ pc[w] = "resolving" /\ pc'[w] = "resolved"
          /\ \A v \in Workflows \ {w} : pc'[v] = pc[v]
      BY <1>11, <2>1 DEF Catches
    <2>3. \A v \in Workflows : NoCall(v)
      BY <2>1 DEF NoCall, Phase
    <2>4. RunOf(w)'
      BY <2>1, <2>2 DEF RunInv, RunOf, Final, Phase
    <2> QED BY <2>1, <2>2, <2>3, <2>4, OthersRunOn DEF RunInv, Same
  <1>15. ASSUME NEW w \in Workflows, StepDone(w) PROVE RunInv'
    <2>1. /\ pc[w] = "racing" /\ Phase(w, cur[w]) = "done" /\ UNCHANGED agentVars
          /\ cur[w] \in Steps(w) /\ RunOf(w) /\ \A k \in Steps(w) : Phase(w, k)' = Phase(w, k)
      BY <1>15 DEF StepDone, Phase, TypeOK, RunInv, agentVars
    <2>2. \A v \in Workflows \ {w} : Same(v)
      BY <1>15 DEF StepDone, EnterStep, StepBecomes, Becomes, Throws, GoesTo, Same, TypeOK
    <2>3. CASE GoesTo(w, "catching") /\ UNCHANGED <<wstate, step, cur>>
      <3>1. pc'[w] = "catching"
        BY <2>3 DEF GoesTo, TypeOK
      <3>2. RunOf(w)'
        BY <2>1, <2>3, <3>1 DEF RunOf, Final
      <3> QED BY <1>1, <2>1, <2>2, <3>2, OthersRunOn DEF RunInv
    <2>4. CASE ~Final(w)
      <3>1. wstate[w] = "RUNNING" /\ step[w][cur[w]] = "RUNNING"
        BY <2>1, <2>4 DEF TypeOK, WorkflowStates, Final, RunOf
      <3>2. Steps(w) = 1 .. Len(AgentsOf[w]) /\ Len(AgentsOf[w]) \in Nat
        BY StepsAreNumbered
      <3>5. CASE StepBecomes(w, "COMPLETED") /\ Throws(w) /\ UNCHANGED <<wstate, cur>>
        <4>1. pc'[w] \in {"catching", "catchingCancelled", "catchingUnreadable"}
          BY <3>5 DEF Throws, Catches, GoesTo, TypeOK
        <4>2. \A k \in Steps(w) : step'[w][k] = IF k = cur[w] THEN "COMPLETED" ELSE step[w][k]
          BY <2>1, <3>5 DEF StepBecomes, TypeOK
        <4>3. \A k \in Steps(w) : /\ k < cur[w] => step'[w][k] = "COMPLETED"
                                  /\ k > cur[w] => step'[w][k] = "PENDING" /\ Phase(w, k) = "none"
          <5>1. \A k \in Steps(w) : k < cur[w] \/ k > cur[w] => k # cur[w]
            BY <2>1, <3>2
          <5> QED BY <2>1, <3>1, <4>2, <5>1 DEF RunOf
        <4>4. \A k \in Steps(w) : step'[w][k] = "COMPLETED" => Phase(w, k)' = "done"
          BY <2>1, <4>2 DEF RunOf
        <4>5. RunOf(w)'
          BY <2>1, <3>1, <3>5, <4>1, <4>2, <4>3, <4>4 DEF RunOf, Final
        <4> QED BY <1>1, <2>1, <2>2, <4>5, OthersRunOn DEF RunInv
      <3>3. CASE MoreSteps(w) /\ EnterStep(w, cur[w] + 1) /\ UNCHANGED wstate
        <4>1. EnterStep(w, cur[w] + 1) /\ wstate' = wstate
          BY <3>3
        <4>2. pc'[w] = "checkpoint" /\ cur'[w] = cur[w] + 1 /\ cur[w] + 1 \in Steps(w)
          BY <2>1, <3>2, <3>3, <4>1 DEF EnterStep, GoesTo, TypeOK, MoreSteps
        <4>3. step'[w] = [j \in Steps(w) |-> IF j = cur[w] + 1 THEN "RUNNING" ELSE
                          IF j = (cur[w] + 1) - 1 THEN "COMPLETED" ELSE step[w][j]]
          BY <4>1 DEF EnterStep, TypeOK
        <4>4. \A k \in Steps(w) : step'[w][k] =
                IF k = cur[w] + 1 THEN "RUNNING" ELSE IF k = cur[w] THEN "COMPLETED" ELSE step[w][k]
          BY <2>1, <3>2, <4>3
        <4>5. \A k \in Steps(w) : /\ (k < cur[w] + 1) <=> (k < cur[w] \/ k = cur[w])
                                  /\ (k > cur[w] + 1) => (k > cur[w])
                                  /\ (k = cur[w] + 1) => (k > cur[w])
          BY <2>1, <3>2
        <4>6. /\ \A k \in Steps(w) : k < cur'[w] => step'[w][k] = "COMPLETED"
              /\ \A k \in Steps(w) : k > cur'[w] => Phase(w, k)' = "none" /\ step'[w][k] = "PENDING"
              /\ step'[w][cur'[w]] = "RUNNING" /\ Phase(w, cur[w] + 1) = "none"
              /\ wstate'[w] = "RUNNING"
          <5>1. \A k \in Steps(w) : (k > cur[w] + 1) => k # cur[w] /\ k # cur[w] + 1
            BY <2>1, <3>2
          <5> QED BY <2>1, <3>1, <4>1, <4>2, <4>4, <4>5, <5>1 DEF RunOf
        <4>7. \A k \in Steps(w) : step'[w][k] = "COMPLETED" => Phase(w, k)' = "done"
          BY <2>1, <4>2, <4>4 DEF RunOf
        <4>8. Phase(w, cur[w])' = "none"
          <5>1. \A k \in Steps(w) : k = cur[w] + 1 => Phase(w, k)' = "none"
            BY <2>1, <4>6
          <5> QED BY <4>2, <5>1
        <4>9. RunOf(w)'
          BY <4>2, <4>6, <4>7, <4>8 DEF RunOf, Final
        <4> QED BY <1>1, <2>1, <2>2, <4>9, OthersRunOn DEF RunInv
      <3>4. CASE /\ ~MoreSteps(w) /\ StepBecomes(w, "COMPLETED") /\ Becomes(w, "COMPLETED")
                 /\ GoesTo(w, "resolving") /\ UNCHANGED cur
        <4>1. /\ step' = [step EXCEPT ![w][cur[w]] = "COMPLETED"] /\ Becomes(w, "COMPLETED")
              /\ GoesTo(w, "resolving") /\ cur' = cur
          BY <3>4 DEF StepBecomes
        <4>2. pc'[w] = "resolving" /\ wstate'[w] = "COMPLETED"
          BY <4>1 DEF GoesTo, Becomes, TypeOK
        <4>3. \A k \in Steps(w) : step'[w][k] = IF k = cur[w] THEN "COMPLETED" ELSE step[w][k]
          BY <2>1, <4>1 DEF TypeOK
        <4>4. \A k \in Steps(w) : k = cur[w] \/ k < cur[w]
          BY <2>1, <3>2, <3>4 DEF MoreSteps
        <4>5. \A k \in Steps(w) : step'[w][k] = "COMPLETED"
          BY <2>1, <4>3, <4>4 DEF RunOf
        <4>6. RunOf(w)'
          BY <2>1, <4>1, <4>2, <4>3, <4>4, <4>5 DEF RunOf, Final
        <4> QED BY <1>1, <2>1, <2>2, <4>6, OthersRunOn DEF RunInv
      <3> QED BY <1>15, <2>4, <3>3, <3>4, <3>5 DEF StepDone
    <2> QED BY <1>15, <2>3, <2>4 DEF StepDone
  <1>16. ASSUME NEW w \in Workflows, Caught(w) PROVE RunInv'
    <2>1. /\ pc[w] \in Catches /\ pc[w] # "idle" /\ UNCHANGED agentVars /\ cur' = cur
          /\ cur[w] \in Steps(w) /\ RunOf(w) /\ \A k \in Steps(w) : Phase(w, k)' = Phase(w, k)
      BY <1>16 DEF Caught, Phase, TypeOK, RunInv, agentVars, Catches
    <2>2. pc'[w] \in {"resolving", "rejecting"} /\ \A v \in Workflows \ {w} : pc'[v] = pc[v]
      <3>1. \E p \in {"resolving", "rejecting"} : pc' = [pc EXCEPT ![w] = p]
        BY <1>16 DEF Caught, GoesTo
      <3> QED BY <1>11, <3>1
    <2>3. \A v \in Workflows \ {w} : Same(v)
      BY <1>9, <1>16, <2>1, <2>2 DEF Caught, StepBecomes, Becomes, Same, TypeOK
    <2>4. CASE UNCHANGED <<wstate, step>>
      <3>1. pc'[w] \in {"resolving", "resolved"} => Final(w)
        BY <1>16, <2>1, <2>2, <2>4 DEF Caught, CancelWorkflow, Becomes, GoesTo, Final, TypeOK
      <3>2. RunOf(w)'
        BY <2>1, <2>2, <2>4, <3>1 DEF RunOf, Final
      <3> QED BY <1>1, <2>1, <2>3, <3>2, OthersRunOn DEF RunInv
    <2>5. CASE ~Final(w) /\ ~UNCHANGED <<wstate, step>>
      <3>1. wstate[w] = "RUNNING" /\ step[w][cur[w]] \in {"RUNNING", "COMPLETED"}
        BY <2>1, <2>5 DEF TypeOK, WorkflowStates, Final, RunOf
      <3>2. \A k \in Steps(w) : k < cur[w] \/ k = cur[w] \/ k > cur[w]
        BY <2>1, StepsAreNumbered
      <3>3. \/ wstate'[w] = "CANCELLED" /\ step'[w] = CancelSteps(w)
            \/ /\ wstate'[w] = "FAILED"
               /\ \A k \in Steps(w) : step'[w][k] = IF k = cur[w] THEN "FAILED" ELSE step[w][k]
        BY <1>16, <2>1, <2>5 DEF Caught, CancelWorkflow, StepBecomes, Becomes, TypeOK
      <3>4. CASE wstate'[w] = "CANCELLED" /\ step'[w] = CancelSteps(w)
        <4>1. \A k \in Steps(w) : step'[w][k] =
                IF step[w][k] \in {"PENDING", "RUNNING"} THEN "CANCELLED" ELSE step[w][k]
          BY <3>4 DEF CancelSteps
        <4>2. RunOf(w)'
          BY <2>1, <2>2, <3>1, <3>2, <3>4, <4>1 DEF RunOf, Final
        <4> QED BY <1>1, <2>1, <2>3, <4>2, OthersRunOn DEF RunInv
      <3>5. CASE /\ wstate'[w] = "FAILED"
                 /\ \A k \in Steps(w) : step'[w][k] = IF k = cur[w] THEN "FAILED" ELSE step[w][k]
        <4>1. RunOf(w)'
          BY <2>1, <2>2, <3>1, <3>2, <3>5 DEF RunOf, Final
        <4> QED BY <1>1, <2>1, <2>3, <4>1, OthersRunOn DEF RunInv
      <3> QED BY <3>3, <3>4, <3>5
    <2> QED BY <1>16, <2>4, <2>5 DEF Caught, CancelWorkflow
  <1> QED BY <1>3, <1>4, <1>5, <1>6, <1>7, <1>10, <1>12, <1>13, <1>14, <1>15, <1>16
         DEF Next, Continues

LEMMA RunInvSuffices == ASSUME TypeOK, RunInv PROVE StepsTellTheRun
  <1> SUFFICES ASSUME NEW w \in Workflows
               PROVE  /\ \A k \in Steps(w) : Phase(w, k) # "none" =>
                            \A j \in Steps(w) : j < k => step[w][j] = "COMPLETED"
                      /\ \A k \in Steps(w) : step[w][k] = "COMPLETED" => Phase(w, k) = "done"
                      /\ wstate[w] = "COMPLETED" => \A k \in Steps(w) : step[w][k] = "COMPLETED"
                      /\ Final(w) => \A k \in Steps(w) : step[w][k] # "RUNNING"
                      /\ wstate[w] = "FAILED" => \E k \in Steps(w) : step[w][k] = "FAILED"
                      /\ wstate[w] = "CANCELLED" => \A k \in Steps(w) : step[w][k] # "PENDING"
    BY DEF StepsTellTheRun, Phase
  <1>1. RunOf(w) /\ (pc[w] # "idle" => cur[w] \in Steps(w)) /\ Steps(w) \subseteq Nat
    BY StepsAreNumbered DEF RunInv, TypeOK
  <1>2. ASSUME NEW k \in Steps(w), Phase(w, k) # "none", NEW j \in Steps(w), j < k
        PROVE  step[w][j] = "COMPLETED"
    <2>1. pc[w] # "idle" /\ ~(k > cur[w])
      BY <1>1, <1>2 DEF RunOf
    <2>2. j < cur[w]
      BY <1>1, <1>2, <2>1
    <2> QED BY <1>1, <2>1, <2>2 DEF RunOf
  <1> QED BY <1>1, <1>2 DEF RunOf, Final


-----------------------------------------------------------------------------
(* Controllers                                                              *)

\* A running workflow whose controller is in the map is the registered one:
\* unregister() cancels it with its id.
ReachInv ==
    \A w \in Workflows : wstate[w] = "RUNNING" /\ controllers[IdOf[w]] = w =>
        registered[IdOf[w]] = w

LEMMA ReachStep == ASSUME TypeOK, ReachInv, [Next]_vars PROVE ReachInv'
  <1>1. /\ IdOf \in [Workflows -> Ids] /\ None \notin Workflows /\ Spent \notin Workflows
    BY WorkflowsAssumption
  <1>2. CASE UNCHANGED <<wstate, controllers, registered>>
    BY <1>2 DEF ReachInv
  <1>3. CASE \E e \in Executions : (ExecutionStep(e) \/ Work(e)) /\ UNCHANGED wfVars
    BY <1>2, <1>3 DEF wfVars
  <1>4. CASE (\E a \in Agents : (Meddle(a) \/ UserInitializes(a)) /\ UNCHANGED wfVars) \/ UNCHANGED vars
    BY <1>2, <1>4 DEF wfVars, vars
  <1>5. ASSUME NEW w \in Workflows, Register(w) PROVE ReachInv'
    <2>1. \A v \in Workflows : registered[IdOf[v]] = v => IdOf[v] # IdOf[w]
      BY <1>1, <1>5 DEF Register
    <2> QED BY <1>1, <1>5, <2>1 DEF Register, ReachInv, TypeOK
  <1>6. ASSUME NEW w \in Workflows, Execute(w) \/ ExecuteFinal(w) PROVE ReachInv'
    <2>1. /\ registered' = registered /\ registered[IdOf[w]] = w
          /\ \A v \in Workflows : IdOf[v] # IdOf[w] => controllers'[IdOf[v]] = controllers[IdOf[v]]
          /\ controllers'[IdOf[w]] \in {w, Spent}
          /\ \A v \in Workflows \ {w} : wstate'[v] = wstate[v]
      BY <1>1, <1>6 DEF Execute, ExecuteFinal, Becomes, TypeOK
    <2> QED BY <1>1, <2>1 DEF ReachInv
  <1>7. ASSUME NEW w \in Workflows,
               \/ AfterCheckpoint(w) \/ InitializesAgent(w) \/ AfterInitialize(w) \/ StepFails(w)
        PROVE  ReachInv'
    BY <1>2, <1>7 DEF AfterCheckpoint, InitializesAgent, AfterInitialize, StepFails
  <1>8. CASE /\ UNCHANGED <<controllers, registered>>
             /\ \A v \in Workflows : wstate'[v] = "RUNNING" => wstate[v] = "RUNNING"
    BY <1>8 DEF ReachInv
  <1>9. ASSUME NEW w \in Workflows, CancelWorkflow(w), NEW v \in Workflows
        PROVE  /\ wstate'[v] = "RUNNING" => wstate[v] = "RUNNING"
               /\ v = w => wstate'[v] # "RUNNING"
    BY <1>9 DEF CancelWorkflow, Becomes, Final, TypeOK
  <1>10. ASSUME NEW w \in Workflows, StepDone(w) \/ Caught(w) PROVE ReachInv'
    <2>1. CASE CancelWorkflow(w)
      BY <1>8, <1>9, <1>10, <2>1 DEF StepDone, Caught
    <2>2. CASE wstate' = wstate \/ Becomes(w, "COMPLETED") \/ Becomes(w, "FAILED")
      <3>1. \A v \in Workflows : wstate'[v] = "RUNNING" => wstate[v] = "RUNNING"
        BY <2>2 DEF Becomes, TypeOK
      <3> QED BY <1>8, <1>10, <3>1 DEF StepDone, Caught
    <2> QED BY <1>10, <2>1, <2>2 DEF StepDone, Caught
  <1>11. ASSUME NEW i \in Ids, controllers' = [controllers EXCEPT ![i] = None],
                UNCHANGED <<wstate, registered>>
         PROVE  ReachInv'
    BY <1>1, <1>11 DEF ReachInv, TypeOK
  <1>12. ASSUME NEW w \in Workflows, Settles(w) PROVE ReachInv'
    BY <1>1, <1>11, <1>12 DEF Settles
  <1>13. ASSUME NEW i \in Ids, ThrowsFinal(i) PROVE ReachInv'
    BY <1>11, <1>13 DEF ThrowsFinal
  <1>14. ASSUME NEW i \in Ids, Cancel(i) \/ Unregister(i) PROVE ReachInv'
    <2>1. CancelId(i) /\ UNCHANGED controllers
      BY <1>14 DEF Cancel, Unregister
    <2>2. registered' = registered \/ registered' = [registered EXCEPT ![i] = None]
      BY <1>14 DEF Cancel, Unregister
    <2>3. CASE controllers[i] = None \/ registered[i] = None
      <3>1. wstate' = wstate
        BY <2>1, <2>3 DEF CancelId
      <3>2. \A w \in Workflows : wstate[w] = "RUNNING" /\ controllers[IdOf[w]] = w => IdOf[w] # i
        BY <1>1, <2>3 DEF ReachInv
      <3> QED BY <1>1, <2>1, <2>2, <3>1, <3>2 DEF ReachInv, TypeOK
    <2>4. CASE controllers[i] # None /\ registered[i] # None
      <3>1. registered[i] \in Workflows /\ CancelWorkflow(registered[i])
        BY <2>1, <2>4 DEF CancelId, TypeOK
      <3>2. /\ \A v \in Workflows : wstate'[v] = "RUNNING" => wstate[v] = "RUNNING"
            /\ \A v \in Workflows : v = registered[i] => wstate'[v] # "RUNNING"
        BY <1>9, <3>1
      <3>3. ASSUME NEW w \in Workflows, wstate'[w] = "RUNNING", controllers'[IdOf[w]] = w
            PROVE  registered'[IdOf[w]] = w
        <4>1. registered[IdOf[w]] = w
          BY <2>1, <3>2, <3>3 DEF ReachInv
        <4>2. IdOf[w] # i
          BY <3>2, <3>3, <4>1
        <4> QED BY <1>1, <2>2, <4>1, <4>2 DEF TypeOK
      <3> QED BY <3>3 DEF ReachInv
    <2> QED BY <2>3, <2>4
  <1> QED BY <1>3, <1>4, <1>5, <1>6, <1>7, <1>10, <1>12, <1>13, <1>14 DEF Next, Continues

\* Who may take the controller of a running workflow out of the map.
Reaches(w) == LET i == IdOf[w] IN
    wstate[w] = "RUNNING" /\ controllers[i] = w /\ controllers'[i] # w =>
        \/ pc[w] = "rejecting"
        \/ i \in spent
        \/ \E v \in Workflows \ {w} : IdOf[v] = i /\ pc[v] \in {"resolving", "rejecting"}

LEMMA ReachesStep ==
    ASSUME TypeOK, ReachInv, RunInv, [Next]_vars, NEW w \in Workflows
    PROVE  Reaches(w)
  <1> DEFINE i == IdOf[w]
  <1>1. IdOf \in [Workflows -> Ids]
    BY WorkflowsAssumption
  <1>2. SUFFICES ASSUME wstate[w] = "RUNNING", controllers[i] = w, controllers'[i] # w,
                        pc[w] # "rejecting"
                 PROVE  i \in spent \/ \E v \in Workflows \ {w} :
                           IdOf[v] = i /\ pc[v] \in {"resolving", "rejecting"}
    BY DEF Reaches
  <1>3. registered[i] = w /\ pc[w] \notin {"resolving", "rejecting"}
    BY <1>2 DEF ReachInv, RunInv, RunOf, Final
  <1>4. ASSUME NEW v \in Workflows, Execute(v) \/ ExecuteFinal(v) PROVE FALSE
    <2>1. IdOf[v] = i
      BY <1>1, <1>2, <1>4 DEF Execute, ExecuteFinal, TypeOK
    <2>2. v = w
      BY <1>3, <1>4, <2>1 DEF Execute, ExecuteFinal
    <2> QED BY <1>2, <1>4, <2>2 DEF Execute, ExecuteFinal, ThrowsLate, Final
  <1>5. ASSUME NEW j \in Ids, ThrowsFinal(j) PROVE i \in spent
    BY <1>1, <1>2, <1>5 DEF ThrowsFinal, TypeOK
  <1>6. ASSUME NEW v \in Workflows, Settles(v)
        PROVE  v # w /\ IdOf[v] = i /\ pc[v] \in {"resolving", "rejecting"}
    <2>1. pc[v] \in {"resolving", "rejecting"}
      BY <1>6 DEF Settles
    <2>2. IdOf[v] = i
      BY <1>1, <1>2, <1>6 DEF Settles, TypeOK
    <2> QED BY <1>3, <2>1, <2>2
  <1>7. controllers' # controllers
    BY <1>2
  <1>8. ASSUME NEW v \in Workflows,
               Register(v) \/ AfterCheckpoint(v) \/ InitializesAgent(v) \/ AfterInitialize(v)
                 \/ StepDone(v) \/ StepFails(v) \/ Caught(v)
        PROVE  FALSE
    BY <1>7, <1>8 DEF Register, AfterCheckpoint, InitializesAgent, AfterInitialize, StepDone,
         StepFails, Caught
  <1>9. ASSUME NEW j \in Ids, Cancel(j) \/ Unregister(j) PROVE FALSE
    BY <1>7, <1>9 DEF Cancel, Unregister
  <1> QED BY <1>4, <1>5, <1>6, <1>7, <1>8, <1>9 DEF Next, Continues, wfVars, vars

-----------------------------------------------------------------------------
(* The race of an agent against the abort                                   *)

Pending(w) == Promise(pc[w]) = "pending"

\* What an execution that has not ended says, why it is about to fail, and that
\* whatever was aborted is final.
RaceOf(w) ==
    /\ Pending(w) => wstate[w] \in {"RUNNING", "CANCELLED"}
    /\ pc[w] = "refused" => Phase(w, cur[w]) = "none"
    /\ pc[w] \in Catches => Final(w) \/ Phase(w, cur[w]) \in {"none", "failed", "done"}
    /\ aborted[w] => Final(w)

RaceInv ==
    /\ \A w \in Workflows : RaceOf(w)
    /\ \A i \in Ids : controllers[i] \in Workflows =>
          IdOf[controllers[i]] = i /\ wstate[controllers[i]] # "CREATED"

\* Where an execution waits that has not ended.
LEMMA PendingPlaces ==
    ASSUME TypeOK, NEW w \in Workflows
    PROVE  Pending(w) <=> pc[w] \in {"checkpoint", "initializing", "initialized", "racing",
                                     "refused"} \cup Catches
  BY DEF Pending, Promise, TypeOK, Waits, Catches

LEMMA OthersRaceOn ==
    ASSUME TypeOK, NEW w \in Workflows, RaceOf(w), Same(w), NoCall(w), aborted'[w] = aborted[w]
    PROVE  RaceOf(w)'
  <1>1. cur[w] \in Steps(w) \/ pc[w] = "idle"
    BY DEF TypeOK
  <1>2. (Final(w)' <=> Final(w)) /\ (Pending(w)' <=> Pending(w))
    BY DEF Final, Pending, Same
  <1>3. pc[w] # "idle" /\ Phase(w, cur[w]) \in {"none", "failed", "done"} =>
           Phase(w, cur[w])' = Phase(w, cur[w])
    BY <1>1 DEF NoCall, Same, Phase
  <1> QED BY <1>2, <1>3 DEF RaceOf, Same, Catches

\* A controller in the map is that of an execution of its id that has begun.
LEMMA ControllersStep ==
    ASSUME TypeOK, RaceInv, [Next]_vars
    PROVE  \A i \in Ids : controllers'[i] \in Workflows =>
              IdOf[controllers'[i]] = i /\ wstate'[controllers'[i]] # "CREATED"
  <1>1. IdOf \in [Workflows -> Ids] /\ None \notin Workflows /\ Spent \notin Workflows
    BY WorkflowsAssumption
  <1> DEFINE Begun == {"RUNNING", "COMPLETED", "FAILED", "CANCELLED"}
  <1>2. ASSUME NEW v \in Workflows, wstate[v] # "CREATED" PROVE wstate'[v] # "CREATED"
    <2>1. wstate' = wstate \/ \E u \in Workflows : \E s \in Begun : Becomes(u, s)
      <3>1. CASE \E u \in Workflows : Register(u) \/ ExecuteFinal(u) \/ AfterCheckpoint(u)
                   \/ InitializesAgent(u) \/ AfterInitialize(u) \/ StepFails(u) \/ Settles(u)
        BY <3>1 DEF Register, ExecuteFinal, AfterCheckpoint, InitializesAgent, AfterInitialize,
             StepFails, Settles
      <3>2. ASSUME NEW u \in Workflows, Execute(u) \/ StepDone(u) \/ Caught(u)
            PROVE  wstate' = wstate \/ \E s \in Begun : Becomes(u, s)
        BY <3>2 DEF Execute, StepDone, Caught, CancelWorkflow
      <3>3. ASSUME NEW i \in Ids, Cancel(i) \/ Unregister(i) \/ ThrowsFinal(i)
            PROVE  wstate' = wstate \/ \E u \in Workflows : \E s \in Begun : Becomes(u, s)
        BY <3>3 DEF Cancel, Unregister, ThrowsFinal, CancelId, CancelWorkflow, TypeOK
      <3>4. CASE UNCHANGED wfVars
        BY <3>4 DEF wfVars
      <3> QED BY <3>1, <3>2, <3>3, <3>4 DEF Next, Continues, vars
    <2> QED BY <1>2, <2>1 DEF Becomes, TypeOK
  <1>3. \/ controllers' = controllers
        \/ \E w \in Workflows : Execute(w)
        \/ \E i \in Ids : \E x \in {None, Spent} : controllers' = [controllers EXCEPT ![i] = x]
    <2>1. ASSUME NEW w \in Workflows, ExecuteFinal(w) \/ Settles(w)
          PROVE  \E i \in Ids : \E x \in {None, Spent} : controllers' = [controllers EXCEPT ![i] = x]
      BY <1>1, <2>1 DEF ExecuteFinal, Settles
    <2>2. ASSUME NEW w \in Workflows,
                 Register(w) \/ AfterCheckpoint(w) \/ InitializesAgent(w) \/ AfterInitialize(w)
                   \/ StepDone(w) \/ StepFails(w) \/ Caught(w)
          PROVE  controllers' = controllers
      BY <2>2 DEF Register, AfterCheckpoint, InitializesAgent, AfterInitialize, StepDone,
           StepFails, Caught
    <2>3. ASSUME NEW i \in Ids, Cancel(i) \/ Unregister(i) PROVE controllers' = controllers
      BY <2>3 DEF Cancel, Unregister
    <2>4. ASSUME NEW i \in Ids, ThrowsFinal(i)
          PROVE  controllers' = [controllers EXCEPT ![i] = None]
      BY <2>4 DEF ThrowsFinal
    <2>5. CASE UNCHANGED wfVars
      BY <2>5 DEF wfVars
    <2> QED BY <2>1, <2>2, <2>3, <2>4, <2>5 DEF Next, Continues, vars
  <1>4. ASSUME NEW w \in Workflows, Execute(w), NEW i \in Ids, controllers'[i] \in Workflows
        PROVE  IdOf[controllers'[i]] = i /\ wstate'[controllers'[i]] # "CREATED"
    <2>1. controllers'[i] = IF i = IdOf[w] THEN w ELSE controllers[i]
      BY <1>1, <1>4 DEF Execute, TypeOK
    <2>2. wstate'[w] = "RUNNING"
      BY <1>4 DEF Execute, Becomes, TypeOK
    <2> QED BY <1>2, <1>4, <2>1, <2>2 DEF RaceInv
  <1>5. ASSUME \/ controllers' = controllers
               \/ \E j \in Ids : \E x \in {None, Spent} : controllers' = [controllers EXCEPT ![j] = x],
               NEW i \in Ids, controllers'[i] \in Workflows
        PROVE  IdOf[controllers'[i]] = i /\ wstate'[controllers'[i]] # "CREATED"
    <2>1. controllers'[i] = controllers[i]
      BY <1>1, <1>5 DEF TypeOK
    <2> QED BY <1>2, <1>5, <2>1 DEF RaceInv
  <1> QED BY <1>3, <1>4, <1>5

LEMMA RaceStep == ASSUME TypeOK, RunInv, ReachInv, RaceInv, [Next]_vars PROVE RaceInv'
  <1> SUFFICES \A w \in Workflows : RaceOf(w)'
    BY ControllersStep DEF RaceInv
  <1>0. /\ \A w \in Workflows : RaceOf(w) /\ RunOf(w)
        /\ \A w \in Workflows : pc[w] # "idle" => cur[w] \in Steps(w)
    BY DEF RaceInv, RunInv, TypeOK
  <1>1. ASSUME NEW w \in Workflows, UNCHANGED phase PROVE NoCall(w)
    BY <1>1 DEF NoCall, Phase
  <1>2. ASSUME NEW v \in Workflows, UNCHANGED <<wfVars, phase>> PROVE RaceOf(v)'
    BY <1>0, <1>1, <1>2, OthersRaceOn DEF Same, wfVars
  <1>3. ASSUME NEW e \in Executions, ExecutionStep(e) \/ Work(e), UNCHANGED wfVars,
               NEW v \in Workflows
        PROVE  RaceOf(v)'
    BY <1>0, <1>3, CallsGoOn, OthersRaceOn DEF Same, wfVars
  <1>4. CASE \E a \in Agents : (Meddle(a) \/ UserInitializes(a)) /\ UNCHANGED wfVars
    BY <1>2, <1>4 DEF Meddle, UserInitializes
  <1>5. CASE UNCHANGED vars
    BY <1>2, <1>5 DEF vars, agentVars
  <1>6. ASSUME UNCHANGED <<wstate, step, pc, cur, aborted, phase>>, NEW v \in Workflows
        PROVE  RaceOf(v)'
    BY <1>0, <1>1, <1>6, OthersRaceOn DEF Same
  <1>7. ASSUME NEW w \in Workflows, Register(w) \/ ExecuteFinal(w), NEW v \in Workflows
        PROVE  RaceOf(v)'
    BY <1>6, <1>7 DEF Register, ExecuteFinal, agentVars
  <1>8. ASSUME NEW i \in Ids, ThrowsFinal(i), NEW v \in Workflows PROVE RaceOf(v)'
    BY <1>6, <1>8 DEF ThrowsFinal, agentVars
  <1>9. ASSUME NEW w \in Workflows,
               Execute(w) \/ InitializesAgent(w) \/ StepFails(w) \/ StepDone(w) \/ Caught(w) \/ Settles(w)
        PROVE  /\ aborted' = aborted /\ \A v \in Workflows \ {w} : RaceOf(v)'
               /\ phase' = phase
    <2>1. phase' = phase /\ aborted' = aborted
      BY <1>9 DEF Execute, InitializesAgent, StepFails, StepDone, Caught, Settles, agentVars
    <2>2. \A v \in Workflows \ {w} : Same(v)
      BY <1>9 DEF Execute, InitializesAgent, StepFails, StepDone, Caught, Settles, EnterStep,
           CancelWorkflow, Throws, StepBecomes, GoesTo, Becomes, Same, TypeOK
    <2> QED BY <1>0, <1>1, <2>1, <2>2, OthersRaceOn
  <1>10. ASSUME NEW w \in Workflows, NEW p, GoesTo(w, p) PROVE pc'[w] = p
    BY <1>10 DEF GoesTo, TypeOK
  <1>11. ASSUME NEW w \in Workflows, Execute(w) PROVE RaceOf(w)'
    <2>1. wstate[w] = "CREATED" /\ wstate'[w] = "RUNNING" /\ pc'[w] = "checkpoint"
      BY <1>10, <1>11 DEF Execute, EnterStep, Becomes, TypeOK
    <2> QED BY <1>0, <1>9, <1>11, <2>1 DEF RaceOf, Final, Catches
  <1>12. ASSUME NEW w \in Workflows, AfterCheckpoint(w) \/ AfterInitialize(w)
         PROVE  \A v \in Workflows : RaceOf(v)'
    <2>1. /\ pc[w] \in {"checkpoint", "initialized"} /\ UNCHANGED <<wstate, step, cur, aborted>>
          /\ \/ pc' = [pc EXCEPT ![w] = "racing"]
             \/ /\ phase' = phase
                /\ \E p \in {"initializing", "refused"} \cup Catches : pc' = [pc EXCEPT ![w] = p]
      BY <1>12 DEF AfterCheckpoint, AfterInitialize, CallAgent, Throws, GoesTo, agentVars
    <2>2. /\ \A v \in Workflows \ {w} : pc'[v] = pc[v]
          /\ pc'[w] \in {"racing", "initializing", "refused"} \cup Catches
          /\ pc'[w] \in {"refused"} \cup Catches => phase' = phase
      BY <2>1 DEF TypeOK, Catches
    <2>3. ASSUME NEW v \in Workflows \ {w} PROVE RaceOf(v)'
      <3>1. Same(v) /\ NoCall(v)
        BY <1>12, <2>1, <2>2, OwnCallsOnly DEF Same
      <3> QED BY <1>0, <2>1, <3>1, OthersRaceOn
    <2>4. RaceOf(w)'
      <3>1. Pending(w) /\ Phase(w, cur[w]) = "none"
        BY <1>0, <2>1, PendingPlaces DEF RunOf
      <3>2. pc'[w] \in {"refused"} \cup Catches => Phase(w, cur[w])' = "none"
        BY <2>1, <2>2, <3>1 DEF Phase
      <3> QED BY <1>0, <2>1, <2>2, <3>1, <3>2 DEF RaceOf, Final
    <2> QED BY <2>3, <2>4
  <1>13. ASSUME NEW w \in Workflows, InitializesAgent(w) PROVE RaceOf(w)'
    <2>1. /\ pc[w] = "initializing" /\ pc'[w] \in {"initialized"} \cup Catches
          /\ UNCHANGED <<wstate, cur>>
      BY <1>10, <1>13 DEF InitializesAgent, Throws
    <2>2. Pending(w) /\ Phase(w, cur[w]) = "none" /\ Phase(w, cur[w])' = Phase(w, cur[w])
      BY <1>0, <1>9, <1>13, <2>1, PendingPlaces DEF RunOf, Phase
    <2> QED BY <1>0, <1>9, <1>13, <2>1, <2>2 DEF RaceOf, Final, Catches
  <1>14. ASSUME NEW w \in Workflows, StepFails(w) PROVE RaceOf(w)'
    <2>1. /\ pc[w] \in {"racing", "refused"} /\ pc'[w] \in Catches
          /\ UNCHANGED <<wstate, cur>>
          /\ aborted[w] \/ Phase(w, cur[w]) = "failed" \/ pc[w] = "refused"
      BY <1>10, <1>14 DEF StepFails, Aborts, Phase, Throws, Catches
    <2>2. Pending(w) /\ Phase(w, cur[w])' = Phase(w, cur[w])
      BY <1>9, <1>14, <2>1, PendingPlaces DEF Phase
    <2> QED BY <1>0, <1>9, <1>14, <2>1, <2>2 DEF RaceOf, Final, Catches
  <1>15. ASSUME NEW w \in Workflows, StepDone(w) PROVE RaceOf(w)'
    <2>1. pc[w] = "racing" /\ Pending(w) /\ Phase(w, cur[w]) = "done"
      BY <1>15, PendingPlaces DEF StepDone, Phase
    <2>2. CASE wstate' = wstate /\ cur' = cur /\ pc'[w] \in Catches
      <3>1. Phase(w, cur[w])' = "done"
        BY <1>9, <1>15, <2>1, <2>2 DEF Phase
      <3> QED BY <1>0, <1>9, <1>15, <2>1, <2>2, <3>1 DEF RaceOf, Final, Catches
    <2>3. CASE /\ ~Final(w)
               /\ \/ pc'[w] = "checkpoint" /\ wstate' = wstate
                  \/ pc'[w] = "resolving" /\ wstate'[w] = "COMPLETED"
      <3>1. pc'[w] = "resolving" => ~Pending(w)'
        BY DEF Pending, Promise
      <3> QED BY <1>0, <1>9, <1>15, <2>1, <2>3, <3>1 DEF RaceOf, Final, Catches
    <2>4. \/ wstate' = wstate /\ cur' = cur /\ pc'[w] \in Catches
          \/ /\ ~Final(w)
             /\ \/ pc'[w] = "checkpoint" /\ wstate' = wstate
                \/ pc'[w] = "resolving" /\ wstate'[w] = "COMPLETED"
      BY <1>10, <1>15 DEF StepDone, Throws, Catches, EnterStep, Becomes, TypeOK
    <2> QED BY <2>2, <2>3, <2>4
  <1>16. ASSUME NEW w \in Workflows, Caught(w) \/ Settles(w) PROVE RaceOf(w)'
    <2>1. pc'[w] \in {"resolving", "rejecting", "resolved", "rejected"}
      BY <1>10, <1>16 DEF Caught, Settles
    <2>2. ~Pending(w)'
      BY <2>1 DEF Pending, Promise
    <2>3. Final(w) => Final(w)'
      BY <1>16 DEF Caught, Settles, CancelWorkflow, Final
    <2> QED BY <1>0, <1>9, <1>16, <2>1, <2>2, <2>3 DEF RaceOf, Catches
  <1>17. ASSUME NEW i \in Ids, Cancel(i) \/ Unregister(i), NEW v \in Workflows PROVE RaceOf(v)'
    <2>1. CancelId(i) /\ UNCHANGED <<phase, pc, cur>>
      BY <1>17 DEF Cancel, Unregister, agentVars
    <2>2. wstate'[v] = wstate[v] \/ (~Final(v) /\ wstate'[v] = "CANCELLED")
      BY <2>1 DEF CancelId, CancelWorkflow, Becomes, TypeOK
    <2>3. aborted'[v] => aborted[v] \/ (controllers[i] = v /\ controllers[i] # None)
      BY <2>1 DEF CancelId, TypeOK
    <2>4. ASSUME controllers[i] = v, controllers[i] # None PROVE Final(v)'
      <3>1. IdOf[v] = i /\ wstate[v] # "CREATED"
        BY <2>4 DEF RaceInv
      <3>2. CASE Final(v)
        BY <2>2, <3>2 DEF Final
      <3>3. CASE ~Final(v)
        <4>1. wstate[v] = "RUNNING"
          BY <3>1, <3>3 DEF TypeOK, WorkflowStates, Final
        <4>2. registered[i] = v
          BY <2>4, <3>1, <4>1 DEF ReachInv
        <4>3. registered[i] # None
          BY <4>2, WorkflowsAssumption
        <4>4. wstate'[v] = "CANCELLED"
          BY <2>1, <2>4, <3>3, <4>2, <4>3 DEF CancelId, CancelWorkflow, Becomes, TypeOK
        <4> QED BY <4>4 DEF Final
      <3> QED BY <3>2, <3>3
    <2>5. Pending(v)' <=> Pending(v)
      BY <2>1 DEF Pending
    <2>6. Phase(v, cur[v])' = Phase(v, cur[v])
      BY <2>1 DEF Phase
    <2> QED BY <1>0, <2>1, <2>2, <2>3, <2>4, <2>5, <2>6 DEF RaceOf, Final
  <1> QED BY <1>3, <1>4, <1>5, <1>7, <1>8, <1>9, <1>11, <1>12, <1>13, <1>14, <1>15, <1>16, <1>17
         DEF Next, Continues

-----------------------------------------------------------------------------
(* The engine is a WorkflowService                                          *)

Promises == [w \in Workflows |-> Promise(pc[w])]
CallsMade == [e \in Executions |-> Call(phase[e])]

LEMMA CallOfPhase ==
    ASSUME TypeOK, NEW e \in Executions
    PROVE  Call(phase[e]) = "holding" => Occupies(e)
  BY DEF Call, Occupies, TypeOK, AgentTypeOK, Phases

\* Changing the phase of one execution changes its call only.
LEMMA OneCallChanges ==
    ASSUME TypeOK, NEW e \in Executions, NEW p, phase' = [phase EXCEPT ![e] = p]
    PROVE  /\ CallsMade[e] = Call(phase[e])
           /\ CallsMade' = [CallsMade EXCEPT ![e] = Call(p)]
  BY DEF CallsMade, TypeOK, AgentTypeOK

\* A workflow that goes to another place gives another promise, and no other does.
LEMMA OnePromiseChanges ==
    ASSUME TypeOK, NEW w \in Workflows, NEW p, GoesTo(w, p)
    PROVE  /\ Promises[w] = Promise(pc[w])
           /\ Promises' = [Promises EXCEPT ![w] = Promise(p)]
  BY DEF Promises, GoesTo, TypeOK

\* A step of an agent is a step of its call.
LEMMA AgentServiceStep ==
    ASSUME TypeOK, NEW e \in Executions, ExecutionStep(e) \/ Work(e), UNCHANGED wfVars
    PROVE  [Service!Next]_Service!vars
  <1>1. Promises' = Promises /\ UNCHANGED <<wstate, cur>>
    BY DEF wfVars, Promises
  <1>2. AgentOf[e] \in Agents
    BY AgentsAssumption
  <1> DEFINE From(p, q) == phase[e] = p /\ phase' = [phase EXCEPT ![e] = q]
  <1>3. ASSUME NEW p, NEW q, From(p, q), Call(q) = Call(p), meddled' = meddled
        PROVE  UNCHANGED Service!vars
    <2>1. CallsMade' = CallsMade
      BY <1>3, OneCallChanges DEF CallsMade
    <2> QED BY <1>1, <1>3, <2>1 DEF Service!vars, Promises, CallsMade
  <1>4. ASSUME NEW p, From(p, "failed"), Call(p) = "holding", meddled' = meddled
        PROVE  Service!Fail(e)
    <2>1. CallsMade[e] = "holding" /\ CallsMade' = [CallsMade EXCEPT ![e] = "failed"]
      BY <1>4, OneCallChanges DEF Call
    <2> QED BY <1>1, <1>4, <2>1 DEF Service!Fail, Service!Calls, Promises, CallsMade
  <1>5. CASE SessionStarts(e)
    BY <1>3, <1>5 DEF SessionStarts, To, Call
  <1>6. CASE WorkStarts(e)
    <2>1. meddled' = meddled /\ (From("starting", "working") \/ From("starting", "failed"))
      BY <1>6 DEF WorkStarts, To
    <2> QED BY <1>3, <1>4, <2>1 DEF Call, Service!Next
  <1>7. CASE Recovers(e)
    BY <1>3, <1>7 DEF Recovers, To, Call
  <1>8. CASE Fails(e)
    <2>1. From("recovering", "failed") /\ meddled' = meddled
      BY <1>8 DEF Fails, To
    <2> QED BY <1>4, <2>1 DEF Call, Service!Next
  <1>9. CASE Work(e)
    <2>1. /\ meddled' = meddled
          /\ \/ From("working", "finishing") \/ From("working", "recording")
             \/ From("working", "recovering")
      BY <1>9 DEF Work, WorkSucceeds, WorkFails, Recording, To
    <2>2. CASE From("working", "recording") \/ From("working", "recovering")
      BY <1>3, <2>1, <2>2 DEF Call
    <2>3. CASE From("working", "finishing")
      <3>1. CallsMade[e] = "holding" /\ CallsMade' = [CallsMade EXCEPT ![e] = "reporting"]
        BY <2>3, OneCallChanges DEF Call
      <3>2. Service!Report(e)
        BY <1>1, <2>1, <3>1 DEF Service!Report, Service!Calls, Promises, CallsMade
      <3> QED BY <3>2 DEF Service!Next
    <2> QED BY <2>1, <2>2, <2>3
  <1>10. CASE Finishes(e)
    <2>1. \/ From("finishing", "done") /\ meddled' = meddled
          \/ From("finishing", "recording") /\ meddled' = meddled \cup {AgentOf[e]}
      BY <1>10 DEF Finishes, Recording, To
    <2>2. CASE From("finishing", "done") /\ meddled' = meddled
      <3>1. CallsMade[e] = "reporting" /\ CallsMade' = [CallsMade EXCEPT ![e] = "delivered"]
        BY <2>2, OneCallChanges DEF Call
      <3>2. Service!Deliver(e)
        BY <1>1, <2>2, <3>1 DEF Service!Deliver, Service!Calls, Promises, CallsMade
      <3> QED BY <3>2 DEF Service!Next
    <2>3. CASE From("finishing", "recording") /\ meddled' = meddled \cup {AgentOf[e]}
      <3>1. CallsMade[e] = "reporting" /\ CallsMade' = [CallsMade EXCEPT ![e] = "holding"]
        <4>1. Call("finishing") = "reporting" /\ Call("recording") = "holding"
          BY DEF Call
        <4> QED BY <2>3, <4>1, OneCallChanges
      <3>2. Service!Retract(e)
        BY <1>1, <2>3, <3>1 DEF Service!Retract, Service!Calls, Promises, CallsMade
      <3> QED BY <3>2 DEF Service!Next
    <2> QED BY <2>1, <2>2, <2>3
  <1> QED BY <1>5, <1>6, <1>7, <1>8, <1>9, <1>10 DEF ExecutionStep

LEMMA ServiceStep ==
    ASSUME TypeOK, FaithInv, RunInv, RaceInv, [Next]_vars
    PROVE  [Service!Next]_Service!vars
  <1>0. /\ \A w \in Workflows : RaceOf(w) /\ RunOf(w)
        /\ \A w \in Workflows : pc[w] # "idle" => cur[w] \in Steps(w)
    BY DEF RaceInv, RunInv, TypeOK
  <1>1. ASSUME UNCHANGED <<wstate, pc, cur, phase, meddled>>
        PROVE  UNCHANGED Service!vars
    BY <1>1 DEF Service!vars
  <1>2. ASSUME UNCHANGED <<wstate, pc, cur, phase>>, meddled \subseteq meddled'
        PROVE  Service!Next
    <2>1. Service!Meddle
      BY <1>2 DEF Service!Meddle
    <2> QED BY <2>1 DEF Service!Next
  <1>3. CASE \E a \in Agents : (Meddle(a) \/ UserInitializes(a)) /\ UNCHANGED wfVars
    <2>1. UNCHANGED <<wstate, pc, cur, phase>> /\ meddled \subseteq meddled'
      BY <1>3 DEF Meddle, UserInitializes, EndInitialize, wfVars
    <2> QED BY <1>2, <2>1
  <1>4. CASE UNCHANGED vars
    BY <1>1, <1>4 DEF vars, wfVars, agentVars
  <1>5. ASSUME NEW w \in Workflows, Register(w) \/ ExecuteFinal(w) PROVE UNCHANGED Service!vars
    BY <1>1, <1>5 DEF Register, ExecuteFinal, agentVars
  <1>6. ASSUME NEW i \in Ids, ThrowsFinal(i) PROVE UNCHANGED Service!vars
    BY <1>1, <1>6 DEF ThrowsFinal, agentVars
  \* An execution goes from one place to another that gives the same promise.
  <1>7. ASSUME NEW w \in Workflows, NEW p, GoesTo(w, p), Promise(p) = Promise(pc[w]),
               UNCHANGED <<wstate, cur, phase>>, meddled \subseteq meddled'
        PROVE  [Service!Next]_Service!vars
    <2>1. Promises' = Promises
      BY <1>7, OnePromiseChanges DEF Promises
    <2>2. Service!Meddle
      BY <1>7, <2>1 DEF Service!Meddle, Promises
    <2> QED BY <2>2 DEF Service!Next
  <1>8. ASSUME NEW w \in Workflows, InitializesAgent(w) \/ StepFails(w) \/ Settles(w)
        PROVE  [Service!Next]_Service!vars
    <2>1. UNCHANGED <<wstate, cur, phase>> /\ meddled \subseteq meddled'
      BY <1>8 DEF InitializesAgent, StepFails, Settles, EndInitialize, agentVars
    <2>2. \/ \E p \in Waits : GoesTo(w, p) /\ Promise(p) = Promise(pc[w])
          \/ /\ pc[w] = "resolving" /\ meddled' = meddled
             /\ \E p \in {"resolved", "rejected"} : GoesTo(w, p)
      BY <1>8 DEF InitializesAgent, StepFails, Settles, Throws, Promise, Waits, Catches, agentVars
    <2>3. ASSUME pc[w] = "resolving", meddled' = meddled, NEW p \in {"resolved", "rejected"},
                 GoesTo(w, p)
          PROVE  Service!Next
      <3>1. Promises[w] = "resolving" /\ Promises' = [Promises EXCEPT ![w] = p]
        BY <2>3, OnePromiseChanges DEF Promise
      <3>2. Service!Settle(w)
        BY <2>1, <2>3, <3>1 DEF Service!Settle, Service!Gives, Promises, CallsMade
      <3> QED BY <3>2 DEF Service!Next
    <2> QED BY <1>7, <2>1, <2>2, <2>3
  <1>9. ASSUME NEW w \in Workflows, AfterCheckpoint(w) \/ AfterInitialize(w)
        PROVE  [Service!Next]_Service!vars
    <2> DEFINE e == <<w, cur[w]>>
    <2>1. /\ pc[w] \in {"checkpoint", "initialized"} /\ UNCHANGED <<wstate, cur>>
          /\ \/ Begin(e) /\ GoesTo(w, "racing")
             \/ /\ UNCHANGED agentVars
                /\ \E p \in {"initializing", "refused"} \cup Catches : GoesTo(w, p)
      BY <1>9 DEF AfterCheckpoint, AfterInitialize, CallAgent, Throws
    <2>2. Promise(pc[w]) = "pending" /\ e \in Executions
      BY <1>0, <2>1, StepsAreExecutions DEF Promise
    <2>3. CASE /\ UNCHANGED agentVars
               /\ \E p \in {"initializing", "refused"} \cup Catches : GoesTo(w, p)
      BY <1>7, <2>1, <2>2, <2>3 DEF Promise, Catches, agentVars
    <2>4. CASE Begin(e) /\ GoesTo(w, "racing")
      <3>1. Promises' = Promises /\ Promises[w] = "pending"
        <4>1. Promise("racing") = Promise(pc[w])
          BY <2>2 DEF Promise
        <4> QED BY <2>2, <2>4, <4>1, OnePromiseChanges DEF Promises
      <3>2. CallsMade[e] = "none" /\ CallsMade' = [CallsMade EXCEPT ![e] = "holding"]
        <4>1. phase[e] = "none" /\ phase' = [phase EXCEPT ![e] = "registering"]
          BY <2>4 DEF Begin, To
        <4>2. Call("none") = "none" /\ Call("registering") = "holding"
          BY DEF Call
        <4> QED BY <2>2, <4>1, <4>2, OneCallChanges
      <3>3. agent[AgentOf[e]] # "RUNNING" /\ meddled' = meddled
        BY <2>4, TableOfTransitions DEF Begin, MayBegin
      <3>4. ASSUME NEW f \in Executions, CallsMade[f] = "holding", AgentOf[f] = AgentOf[e]
            PROVE  AgentOf[e] \in meddled
        <4>1. Occupies(f)
          BY <3>4, CallOfPhase DEF CallsMade
        <4> QED BY <3>3, <3>4, <4>1 DEF FaithInv
      <3>5. Service!Call(w)
        BY <2>1, <3>1, <3>2, <3>3, <3>4 DEF Service!Call, Service!Calls, Promises, CallsMade
      <3> QED BY <3>5 DEF Service!Next
    <2> QED BY <2>1, <2>3, <2>4
  <1>10. ASSUME NEW w \in Workflows, Execute(w) PROVE Service!Next
    <2>1. wstate[w] = "CREATED" /\ pc[w] = "idle" /\ UNCHANGED <<phase, meddled>>
      BY <1>0, <1>10 DEF Execute, RunOf, agentVars
    <2>2. Promises' = [Promises EXCEPT ![w] = "pending"]
      BY <1>10, OnePromiseChanges DEF Execute, EnterStep, Promise
    <2>3. wstate' = [wstate EXCEPT ![w] = "RUNNING"] /\ cur' = [cur EXCEPT ![w] = 1]
      BY <1>10 DEF Execute, EnterStep, Becomes
    <2>4. Service!Start(w)
      BY <2>1, <2>2, <2>3 DEF Service!Start, Service!Is, Service!Gives, Promises, CallsMade
    <2> QED BY <2>4 DEF Service!Next
  <1>11. ASSUME NEW i \in Ids, Cancel(i) \/ Unregister(i) PROVE [Service!Next]_Service!vars
    <2>1. CancelId(i) /\ UNCHANGED <<pc, cur, phase, meddled>>
      BY <1>11 DEF Cancel, Unregister, agentVars
    <2>2. wstate' = wstate \/ \E w \in Workflows : ~Final(w) /\ Becomes(w, "CANCELLED")
      BY <2>1 DEF CancelId, CancelWorkflow, TypeOK
    <2>3. ASSUME NEW w \in Workflows, ~Final(w), Becomes(w, "CANCELLED") PROVE Service!Cancel(w)
      <3>1. wstate[w] \in {"CREATED", "RUNNING"}
        BY <2>3 DEF TypeOK, WorkflowStates, Final
      <3> QED BY <2>1, <2>3, <3>1 DEF Service!Cancel, Service!Is, Becomes
    <2> QED BY <1>1, <2>1, <2>2, <2>3 DEF Service!Next
  <1>12. ASSUME NEW w \in Workflows, StepDone(w) PROVE [Service!Next]_Service!vars
    <2> DEFINE e == <<w, cur[w]>>
    <2>1. /\ pc[w] = "racing" /\ phase[e] = "done" /\ UNCHANGED <<phase, meddled>>
          /\ e \in Executions /\ cur[w] \in 1 .. Len(AgentsOf[w]) /\ Len(AgentsOf[w]) \in Nat
      BY <1>0, <1>12, StepsAreExecutions, StepsAreNumbered DEF StepDone, agentVars
    <2>2. CallsMade[e] = "delivered"
      BY <2>1 DEF CallsMade, Call
    <2>3. CASE wstate' = wstate /\ cur' = cur /\ \E p \in Catches : GoesTo(w, p)
      BY <1>7, <2>1, <2>3 DEF Promise, Catches
    <2>4. CASE ~Final(w) /\ MoreSteps(w) /\ EnterStep(w, cur[w] + 1) /\ UNCHANGED wstate
      <3>1. wstate[w] = "RUNNING"
        BY <1>0, <2>1, <2>4, PendingPlaces DEF RaceOf, Final
      <3>2. GoesTo(w, "checkpoint") /\ wstate' = wstate /\ cur' = [cur EXCEPT ![w] = cur[w] + 1]
        BY <2>4 DEF EnterStep
      <3>3. Promises' = Promises /\ Promises[w] = "pending"
        <4>1. Promise("checkpoint") = Promise(pc[w]) /\ Promise(pc[w]) = "pending"
          BY <2>1 DEF Promise
        <4> QED BY <3>2, <4>1, OnePromiseChanges DEF Promises
      <3>4. Service!Advance(w)
        BY <2>1, <2>2, <2>4, <3>1, <3>2, <3>3
           DEF Service!Advance, Service!CallOf, MoreSteps, Promises, CallsMade
      <3> QED BY <3>4 DEF Service!Next
    <2>5. CASE /\ ~Final(w) /\ ~MoreSteps(w) /\ GoesTo(w, "resolving")
               /\ Becomes(w, "COMPLETED") /\ cur' = cur
      <3>1. wstate[w] = "RUNNING"
        BY <1>0, <2>1, <2>5, PendingPlaces DEF RaceOf, Final
      <3>2. Promises[w] = "pending" /\ Promises' = [Promises EXCEPT ![w] = "resolving"]
        BY <2>1, <2>5, OnePromiseChanges DEF Promise
      <3>3. cur[w] = Len(AgentsOf[w])
        BY <2>1, <2>5 DEF MoreSteps
      <3>4. Service!Complete(w)
        BY <2>1, <2>2, <2>5, <3>1, <3>2, <3>3
           DEF Service!Complete, Service!CallOf, Service!Is, Service!Gives, Becomes,
               Promises, CallsMade
      <3> QED BY <3>4 DEF Service!Next
    <2> QED BY <1>12, <2>3, <2>4, <2>5 DEF StepDone, Throws, Catches
  <1>13. ASSUME NEW w \in Workflows, Caught(w) PROVE [Service!Next]_Service!vars
    <2> DEFINE e == <<w, cur[w]>>
    <2>1. /\ pc[w] \in Catches /\ pc[w] # "idle" /\ UNCHANGED <<phase, meddled, cur>>
          /\ e \in Executions
      BY <1>0, <1>13, StepsAreExecutions DEF Caught, Catches, agentVars
    <2>2. Promise(pc[w]) = "pending" /\ wstate[w] \in {"RUNNING", "CANCELLED"}
      BY <1>0, <2>1, PendingPlaces DEF RaceOf, Promise, Catches
    <2>3. CASE Final(w)
      <3>1. GoesTo(w, "rejecting") /\ wstate' = wstate /\ wstate[w] = "CANCELLED"
        BY <1>13, <2>2, <2>3 DEF Caught, CancelWorkflow, Final
      <3>2. Promises[w] = "pending" /\ Promises' = [Promises EXCEPT ![w] = "rejected"]
        BY <2>2, <3>1, OnePromiseChanges DEF Promise
      <3>3. Service!Reject(w)
        BY <2>1, <3>1, <3>2 DEF Service!Reject, Service!Gives, Promises, CallsMade
      <3> QED BY <3>3 DEF Service!Next
    <2>4. CASE ~Final(w)
      <3>1. wstate[w] = "RUNNING" /\ CallsMade[e] \in {"none", "failed", "delivered"}
        BY <1>0, <2>1, <2>2, <2>4 DEF RaceOf, Final, Phase, CallsMade, Call
      <3>2. \/ Becomes(w, "FAILED") /\ GoesTo(w, "rejecting")
            \/ Becomes(w, "CANCELLED") /\ GoesTo(w, "resolving")
            \/ wstate' = wstate /\ GoesTo(w, "rejecting")
        BY <1>13, <2>4 DEF Caught, CancelWorkflow
      <3>3. /\ Promises[w] = "pending"
            /\ \/ Becomes(w, "FAILED") /\ Promises' = [Promises EXCEPT ![w] = "rejected"]
               \/ Becomes(w, "CANCELLED") /\ Promises' = [Promises EXCEPT ![w] = "resolving"]
               \/ wstate' = wstate /\ Promises' = [Promises EXCEPT ![w] = "rejected"]
        BY <2>2, <3>2, OnePromiseChanges DEF Promise
      <3>4. Service!Break(w)
        BY <2>1, <3>1, <3>3 DEF Service!Break, Service!CallOf, Service!Is, Service!Gives,
           Becomes, Promises, CallsMade
      <3> QED BY <3>4 DEF Service!Next
    <2> QED BY <2>3, <2>4
  <1> QED BY <1>3, <1>4, <1>5, <1>6, <1>8, <1>9, <1>10, <1>11, <1>12, <1>13, AgentServiceStep
         DEF Next, Continues

-----------------------------------------------------------------------------
(* The theorems                                                             *)

IInv == TypeOK /\ SessionInv /\ FaithInv /\ RunInv /\ ReachInv /\ RaceInv

LEMMA InvInit == Init => IInv
  <1> SUFFICES ASSUME Init PROVE IInv
    OBVIOUS
  <1>1. TypeOK
    BY TypeInit
  <1>2. \A e \in Executions : phase[e] = "none" /\ session[e] = "none" /\ e \notin worked
    BY DEF Init, AgentInit
  <1>3. SessionInv
    BY <1>2 DEF SessionInv, WorkInv, EarnedInv, OwnInv
  <1>4. \A a \in Agents : agent[a] = "CREATED"
    BY DEF Init, AgentInit
  <1>5. FaithInv
    BY <1>2, <1>4, AgentsAssumption DEF FaithInv, Occupies
  <1>6. RunInv
    <2> SUFFICES ASSUME NEW w \in Workflows PROVE RunOf(w)
      BY DEF RunInv
    <2>1. /\ wstate[w] = "CREATED" /\ pc[w] = "idle"
          /\ \A k \in Steps(w) : step[w][k] = "PENDING"
      BY DEF Init
    <2>2. \A k \in Steps(w) : Phase(w, k) = "none"
      BY <1>2, StepsAreExecutions DEF Phase
    <2> QED BY <2>1, <2>2 DEF RunOf
  <1>7. ReachInv
    BY DEF ReachInv, Init
  <1>8. RaceInv
    BY WorkflowsAssumption DEF RaceInv, RaceOf, Pending, Promise, Catches, Init
  <1> QED BY <1>1, <1>3, <1>5, <1>6, <1>7, <1>8 DEF IInv

LEMMA InvStep == ASSUME IInv, [Next]_vars PROVE IInv'
  <1>1. TypeOK /\ AgentTypeOK /\ AgentStep
    BY StepsOfAgents DEF IInv, TypeOK
  <1>2. TypeOK'
    BY <1>1, TypeStep
  <1>3. SessionInv' /\ FaithInv'
    BY <1>1, SessionStep, FaithStep DEF IInv
  <1>4. RunInv' /\ ReachInv' /\ RaceInv'
    BY <1>1, RunStep, ReachStep, RaceStep DEF IInv
  <1> QED BY <1>2, <1>3, <1>4 DEF IInv

\* Every variable keeps its type, and an execution that has begun is at one of
\* the steps of its workflow (WorkflowExecutor.execute).
THEOREM TypeCorrect == Spec => []TypeOK
  <1>1. IInv => TypeOK
    BY DEF IInv
  <1> QED BY <1>1, InvInit, InvStep, PTL DEF Spec

\* An agent works for one caller at a time, delivers the work that succeeded and
\* is not left RUNNING, unless lifecycle calls, a late initialize() or a refused
\* event interfere (Agent.execute).
THEOREM AgentsKeepFaith == Spec => []AgentKeepsFaith
  <1>1. IInv => AgentKeepsFaith
    BY FaithInvSuffices DEF IInv, TypeOK
  <1> QED BY <1>1, InvInit, InvStep, PTL DEF Spec

\* A COMPLETED session is that of work that was delivered, also when executions of
\* one millisecond share it; one that an execution has to itself tells how that
\* ended (ExecutionSupervisor as Agent.execute calls it).
THEOREM SessionsTellOutcomes == Spec => []SessionTellsOutcome
  <1>1. IInv => SessionTellsOutcome
    BY SessionInvSuffices DEF IInv, TypeOK
  <1> QED BY <1>1, InvInit, InvStep, PTL DEF Spec

\* Steps run in order and on results, and what a workflow and its steps say agrees
\* with what the agents did (WorkflowExecutor.execute, Workflow.cancel).
THEOREM StepsTellTheTruth == Spec => []StepsTellTheRun
  <1>1. IInv => StepsTellTheRun
    BY RunInvSuffices DEF IInv
  <1> QED BY <1>1, InvInit, InvStep, PTL DEF Spec

\* cancel() reaches a running workflow, unless its own execute() is over, having
\* thrown an error that could not be read, or a finally clause of an earlier
\* execute() of its id takes its controller out of the map (WorkflowEngine).
THEOREM RunningIsReached == Spec => CancelReaches
  <1>1. ASSUME IInv, [Next]_vars PROVE \A w \in Workflows : Reaches(w)
    BY <1>1, ReachesStep DEF IInv
  <1>2. IInv /\ [Next]_vars => [\A w \in Workflows : Reaches(w)]_vars
    BY <1>1
  <1> QED BY <1>2, InvInit, InvStep, PTL DEF Spec, CancelReaches, Reaches

\* A workflow whose signal has been aborted is in a final state: the abort never
\* meets one that could still be completed (WorkflowEngine.cancel, unregister).
THEOREM AbortedIsFinal == Spec => [](\A w \in Workflows : aborted[w] => Final(w))
  <1>1. IInv => \A w \in Workflows : aborted[w] => Final(w)
    BY DEF IInv, RaceInv, RaceOf
  <1> QED BY <1>1, InvInit, InvStep, PTL DEF Spec

\* The engine is a WorkflowService, for any workflows, steps, agents and ids, whatever
\* throws: a missing agent, an initialize(), the copy of a result
\* (WorkflowEngine, WorkflowExecutor, Workflow, Agent.execute).
THEOREM EngineImplementsService == Spec => ImplementsService
  <1>1. Init => Service!Init
    <2> SUFFICES ASSUME Init PROVE Service!Init
      OBVIOUS
    <2>1. phase = [e \in Executions |-> "none"] /\ meddled = {}
      BY DEF Init, AgentInit
    <2>2. CallsMade = [e \in Executions |-> "none"] /\ Promises = [w \in Workflows |-> "none"]
      BY <2>1 DEF CallsMade, Promises, Call, Promise, Init
    <2> QED BY <2>1, <2>2 DEF Init, Service!Init, CallsMade, Promises
  <1>2. IInv /\ [Next]_vars => [Service!Next]_Service!vars
    BY ServiceStep DEF IInv
  <1> QED BY <1>1, <1>2, InvInit, InvStep, PTL DEF Spec, ImplementsService, Service!Spec

===============================================================================
