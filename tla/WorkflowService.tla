--------------------------- MODULE WorkflowService ---------------------------
(***************************************************************************)
(* What the workflow engine promises to those who execute workflows and to *)
(* those who own agents, without controllers, sessions or the order of     *)
(* callbacks.  The agents of a workflow are called one step at a time,     *)
(* each once and each after its predecessors have delivered; a cancelled   *)
(* workflow goes to no further step.  An agent is held by one call at a    *)
(* time, unless somebody has meddled with it.  A workflow ends in one      *)
(* final state at most.  The promise of execute() resolves only for one    *)
(* that has completed or that has been cancelled by an agent's error; a    *)
(* workflow that was cancelled from outside rejects, and so does one that  *)
(* has failed.  An error that cannot be read rejects and ends nothing.     *)
(***************************************************************************)
EXTENDS Naturals, Sequences

CONSTANTS Workflows, Executions, AgentOf, AgentsOf

VARIABLES
    state,   \* of every workflow
    promise, \* what execute() returned for it: none, pending, resolving as long
             \* as the result is copied, resolved, rejected
    at,      \* the step it has come to
    call,    \* of every step's agent: none, holding the agent, reporting, over
    meddled  \* agents whose state somebody else has written

vars == <<state, promise, at, call, meddled>>

Init ==
    /\ state = [w \in Workflows |-> "CREATED"]
    /\ promise = [w \in Workflows |-> "none"]
    /\ at = [w \in Workflows |-> 0]
    /\ call = [e \in Executions |-> "none"]
    /\ meddled = {}

CallOf(w) == call[<<w, at[w]>>]
Is(w, s)  == state' = [state EXCEPT ![w] = s]
Gives(w, p) == promise' = [promise EXCEPT ![w] = p]
Calls(e, s) == call' = [call EXCEPT ![e] = s]

-----------------------------------------------------------------------------
Start(w) ==
    /\ state[w] = "CREATED"
    /\ Is(w, "RUNNING") /\ Gives(w, "pending")
    /\ at' = [at EXCEPT ![w] = 1]
    /\ UNCHANGED <<call, meddled>>

\* The agent of the step a workflow has come to is called, even when the
\* workflow has been cancelled since.
Call(w) ==
    LET e == <<w, at[w]>>
    IN  /\ promise[w] = "pending" /\ call[e] = "none"
        /\ \A f \in Executions :
              call[f] = "holding" /\ AgentOf[f] = AgentOf[e] => AgentOf[e] \in meddled
        /\ Calls(e, "holding")
        /\ UNCHANGED <<state, promise, at, meddled>>

Report(e) ==
    /\ call[e] = "holding" /\ Calls(e, "reporting")
    /\ UNCHANGED <<state, promise, at, meddled>>

Deliver(e) ==
    /\ call[e] = "reporting" /\ Calls(e, "delivered")
    /\ UNCHANGED <<state, promise, at, meddled>>

\* The report is refused: the call takes its agent back to fail it.
Retract(e) ==
    /\ call[e] = "reporting" /\ Calls(e, "holding")
    /\ meddled' = meddled \cup {AgentOf[e]}
    /\ UNCHANGED <<state, promise, at>>

Fail(e) ==
    /\ call[e] = "holding" /\ Calls(e, "failed")
    /\ UNCHANGED <<state, promise, at, meddled>>

Meddle ==
    /\ meddled \subseteq meddled'
    /\ UNCHANGED <<state, promise, at, call>>

-----------------------------------------------------------------------------
Advance(w) ==
    /\ state[w] = "RUNNING" /\ promise[w] = "pending" /\ CallOf(w) = "delivered"
    /\ at[w] < Len(AgentsOf[w])
    /\ at' = [at EXCEPT ![w] = @ + 1]
    /\ UNCHANGED <<state, promise, call, meddled>>

Complete(w) ==
    /\ state[w] = "RUNNING" /\ promise[w] = "pending" /\ CallOf(w) = "delivered"
    /\ at[w] = Len(AgentsOf[w])
    /\ Is(w, "COMPLETED") /\ Gives(w, "resolving")
    /\ UNCHANGED <<at, call, meddled>>

Cancel(w) ==
    /\ state[w] \in {"CREATED", "RUNNING"}
    /\ Is(w, "CANCELLED")
    /\ UNCHANGED <<promise, at, call, meddled>>

\* The agent of the step could not be called or has failed, or its result could
\* not be stored.  An error that says "cancelled" is taken for a cancellation, and
\* one that cannot be read leaves the workflow as it is.
Break(w) ==
    /\ state[w] = "RUNNING" /\ promise[w] = "pending"
    /\ CallOf(w) \in {"none", "failed", "delivered"}
    /\ \/ Is(w, "FAILED") /\ Gives(w, "rejected")
       \/ Is(w, "CANCELLED") /\ Gives(w, "resolving")
       \/ UNCHANGED state /\ Gives(w, "rejected")
    /\ UNCHANGED <<at, call, meddled>>

\* The result is copied for the caller, or cannot be.
Settle(w) ==
    /\ promise[w] = "resolving"
    /\ \E p \in {"resolved", "rejected"} : Gives(w, p)
    /\ UNCHANGED <<state, at, call, meddled>>

\* What was cancelled from outside rejects.
Reject(w) ==
    /\ promise[w] = "pending" /\ state[w] = "CANCELLED"
    /\ Gives(w, "rejected")
    /\ UNCHANGED <<state, at, call, meddled>>

Next ==
    \/ \E w \in Workflows :
          \/ Start(w) \/ Call(w) \/ Advance(w) \/ Complete(w)
          \/ Cancel(w) \/ Break(w) \/ Settle(w) \/ Reject(w)
    \/ \E e \in Executions : Report(e) \/ Deliver(e) \/ Retract(e) \/ Fail(e)
    \/ Meddle

Spec == Init /\ [][Next]_vars
=============================================================================
