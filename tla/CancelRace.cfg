SPECIFICATION PlannedSpec
CONSTANTS
    a = a
    b = b
    c = c
    x = x
    y = y
    Tasks = {a}
    Deps <- NoDeps
    Agents = {x, y}
    AgentOf <- YTakesB
    Priority <- FlatPriority
    MaxRetries <- OneRetry
    MaxParallelPerRun = 3
    MaxParallelPerAgent = 1
    Procs = {p1, p2}
    NoTask = NoTask
    Outcomes = {"retryable"}
    MaxAttempts = 3
    MaxCrashes = 0
    MaxAborts = 0
    MaxInsertErrors = 0
    MaxOverdue = 0
    MaxCancels = 1
SYMMETRY Symmetry
INVARIANTS
    CancelledRunIsClear
CHECK_DEADLOCK FALSE
