SPECIFICATION PlannedSpec
CONSTANTS
    a = a
    b = b
    c = c
    x = x
    y = y
    Tasks = {a}
    Deps <- NoDeps
    Agents = {x, y}
    AgentOf <- YTakesB
    Priority <- FlatPriority
    MaxRetries <- OneRetry
    MaxParallelPerRun = 3
    MaxParallelPerAgent = 1
    Procs = {p1}
    NoTask = NoTask
    Outcomes = {"succeeded"}
    MaxAttempts = 4
    MaxCrashes = 0
    MaxAborts = 0
    MaxInsertErrors = 0
    MaxOverdue = 1
    MaxCancels = 0
INVARIANTS
    RetryBudget
CHECK_DEADLOCK FALSE
