SPECIFICATION FairStartSpec
CONSTANTS
    a = a
    b = b
    c = c
    x = x
    y = y
    Tasks = {a, b, c}
    Deps <- ForkDeps
    Agents = {x, y}
    AgentOf <- YTakesA
    Priority <- FlatPriority
    MaxRetries <- NoRetry
    MaxParallelPerRun = 3
    MaxParallelPerAgent = 1
    Procs = {p1}
    NoTask = NoTask
    Outcomes = {"succeeded", "fatal"}
    MaxAttempts = 2
    MaxCrashes = 0
    MaxAborts = 0
    MaxInsertErrors = 1
    MaxOverdue = 0
    MaxCancels = 0
INVARIANTS
    DependenciesRespected
    PlanIsWhole
    
PROPERTIES
    RunFinishes
