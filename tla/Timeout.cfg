SPECIFICATION PlannedSpec
CONSTANTS
    a = a
    b = b
    c = c
    x = x
    y = y
    Tasks = {a, b}
    Deps <- ChainDeps
    Agents = {x, y}
    AgentOf <- YTakesB
    Priority <- FlatPriority
    MaxRetries <- RetryFirst
    MaxParallelPerRun = 3
    MaxParallelPerAgent = 1
    Procs = {p1, p2}
    NoTask = NoTask
    Outcomes = {"succeeded"}
    MaxAttempts = 2
    MaxCrashes = 0
    MaxAborts = 0
    MaxInsertErrors = 0
    MaxOverdue = 1
    MaxCancels = 0
SYMMETRY Symmetry
INVARIANTS
    NoOrphan
PROPERTIES
    PromiseKept
\* Both processes may wait at the bound MaxAttempts.
CHECK_DEADLOCK FALSE
