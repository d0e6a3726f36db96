SPECIFICATION FairSpec
CONSTANTS
    a = a
    b = b
    c = c
    x = x
    y = y
    Tasks = {a}
    Deps <- NoDeps
    Agents = {x, y}
    AgentOf <- YTakesB
    Priority <- FlatPriority
    MaxRetries <- NoRetry
    MaxParallelPerRun = 3
    MaxParallelPerAgent = 1
    Procs = {p1}
    NoTask = NoTask
    Outcomes = {"succeeded"}
    MaxAttempts = 2
    MaxCrashes = 1
    MaxAborts = 0
    MaxInsertErrors = 0
    MaxOverdue = 0
    MaxCancels = 0
PROPERTIES
    EveryRunFinishes
CHECK_DEADLOCK FALSE
