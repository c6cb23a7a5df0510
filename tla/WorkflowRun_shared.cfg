\* Two workflows that share an agent, registered one after the other under one id.
CONSTANTS
    w1 = w1
    w2 = w2
    a1 = a1
    i1 = i1
    i2 = i2
    None = None
    Spent = Spent
    Workflows = {w1, w2}
    Ids = {i1}
    IdOf <- MCOneId
    Agents = {a1}
    AgentsOf <- MCTwoSteps
    Executions <- MCExecutions
    AgentOf <- MCAgentOf
    MaxRetries = 1
    MaxTroubles = 0
    MaxCalls = 1
SPECIFICATION FairSpec
INVARIANTS
    StepsTellTheRun
PROPERTIES
    CancelReaches
    ImplementsService
    CancelledSettles
CHECK_DEADLOCK FALSE
