\* Two workflows that share an agent, refused events and lifecycle calls.
CONSTANTS
    w1 = w1
    w2 = w2
    a1 = a1
    i1 = i1
    i2 = i2
    None = None
    Spent = Spent
    Workflows = {w1, w2}
    Ids = {i1, i2}
    IdOf <- MCOwnId
    Agents = {a1}
    AgentsOf <- MCOneStep
    Executions <- MCExecutions
    AgentOf <- MCAgentOf
    MaxRetries = 1
    MaxTroubles = 1
    MaxCalls = 0
SPECIFICATION Spec
INVARIANTS
    TypeOK
    AgentKeepsFaith
    SessionTellsOutcome
CHECK_DEADLOCK FALSE
