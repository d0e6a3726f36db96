SPECIFICATION PlannedSpec
CONSTANTS
    a = a
    b = b
    c = c
    x = x
    y = y
    Tasks = {a, b}
    Deps <- ChainDeps
    Agents = {x, y}
    AgentOf <- YTakesB
    Priority <- FlatPriority
    MaxRetries <- NoRetry
    MaxParallelPerRun = 3
    MaxParallelPerAgent = 1
    Procs = {p1, p2}
    NoTask = NoTask
    Outcomes = {"succeeded", "fatal"}
    MaxAttempts = 2
    MaxCrashes = 0
    MaxAborts = 0
    MaxInsertErrors = 0
    MaxOverdue = 0
    MaxCancels = 1
SYMMETRY Symmetry
INVARIANTS
    TypeOK
    DagInv
    DependenciesRespected
    CompletedRunIsDone
    SucceededTaskHasOutput
    SuccessEventsBacked
PROPERTIES
    LegalSteps
    PromiseKept
