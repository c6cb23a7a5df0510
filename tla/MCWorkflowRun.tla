--------------------------- MODULE MCWorkflowRun ---------------------------
(* Values for the model checker: two workflows that share an agent, either  *)
(* with an id and one step each, or of one id, the first calling it twice.  *)
EXTENDS WorkflowRun

CONSTANTS w1, w2, a1, i1, i2

MCOneStep  == [w \in Workflows |-> <<a1>>]
MCTwoSteps == [w \in Workflows |-> IF w = w1 THEN <<a1, a1>> ELSE <<a1>>]

MCExecutions == UNION {{w} \X DOMAIN AgentsOf[w] : w \in Workflows}

MCAgentOf == [e \in Executions |-> AgentsOf[e[1]][e[2]]]

MCOwnId == [w \in Workflows |-> IF w = w1 THEN i1 ELSE i2]
MCOneId == [w \in Workflows |-> i1]
=============================================================================
