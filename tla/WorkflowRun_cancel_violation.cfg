\* A cancelled execution that rejects.
CONSTANTS
    w1 = w1
    w2 = w2
    a1 = a1
    i1 = i1
    i2 = i2
    None = None
    Spent = Spent
    Workflows = {w1}
    Ids = {i1}
    IdOf <- MCOneId
    Agents = {a1}
    AgentsOf <- MCOneStep
    Executions <- MCExecutions
    AgentOf <- MCAgentOf
    MaxRetries = 1
    MaxTroubles = 0
    MaxCalls = 0
SPECIFICATION Spec
INVARIANTS
    CancelledResolves
CHECK_DEADLOCK FALSE
