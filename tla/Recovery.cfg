SPECIFICATION FairSpec
CONSTANTS
    a = a
    b = b
    c = c
    x = x
    y = y
    Tasks = {a, b, c}
    Deps <- ForkDeps
    Agents = {x, y}
    AgentOf <- YTakesA
    Priority <- FlatPriority
    MaxRetries <- OneRetry
    MaxParallelPerRun = 2
    MaxParallelPerAgent = 1
    Procs = {p1}
    NoTask = NoTask
    Outcomes = {"succeeded", "retryable", "fatal"}
    MaxAttempts = 4
    MaxCrashes = 1
    MaxAborts = 1
    MaxInsertErrors = 0
    MaxOverdue = 0
    MaxCancels = 1
INVARIANTS
    RetryBudget
    OneCallPerTask
    TerminalRunIsQuiet
PROPERTIES
    AttemptResultsKept
    RunFinishes
    InterruptedTasksRecovered
