----------------------------- MODULE Orchestrator -----------------------------
(***************************************************************************)
(* One run of AgentHub's orchestrator (orchestrator/service.go over        *)
(* orchestrator/sql_store.go) as the server runs it: DispatchAsync, every  *)
(* row in a SQL database, and no lock and no transaction around a handler. *)
(* A process is a goroutine inside the service's code: an HTTP handler     *)
(* (StartRun, ReconcileRun, CancelRun) or the goroutine of an attempt whose*)
(* provider has returned.  A step is one statement on the database; what   *)
(* the process does up to its next statement belongs to the same step.     *)
(* Between two statements of a process any other process may run.          *)
(*                                                                         *)
(* Three things are abstracted.                                            *)
(*   - All tasks of a run have the same created_at, so the order in which  *)
(*     ListTasks returns them is the database's: loops take any order.     *)
(*   - The registry always has a fallback provider (NewOrchestratorService *)
(*     registers four), so ErrProviderNotFound does not occur.             *)
(*   - UpdateTaskStatus and UpdateRunStatus re-read the row after writing, *)
(*     or after losing the compare-and-set; that read is part of the write.*)
(*     appendEvent follows the write it reports in the same step, and the  *)
(*     log keeps which events exist, not their sequence numbers.           *)
(***************************************************************************)
EXTENDS Integers, FiniteSets, OrchestratorStates

CONSTANTS
    Tasks,                \* the tasks of the plan
    Deps,                 \* its dependency rows <<task, task it depends on>>
    Agents,
    AgentOf,              \* agentKey of each task
    Priority,
    MaxRetries,           \* per task
    MaxParallelPerRun,
    MaxParallelPerAgent,
    Procs,                \* goroutines that can be in service code at once
    NoTask,
    Outcomes,             \* how a provider call may end before its deadline
    MaxAttempts,          \* bound: rows of the attempts table per task
    MaxCrashes,           \* bound: server restarts
    MaxAborts,            \* bound: requests cut short by their client
    MaxInsertErrors,      \* bound: failed inserts of the plan
    MaxOverdue,           \* bound: attempts that reach their timeout
    MaxCancels            \* bound: calls of CancelRun

ASSUME TasksAssumption ==
    /\ IsFiniteSet(Tasks)
    /\ Tasks # {}
    /\ NoTask \notin Tasks
    /\ Deps \subseteq Tasks \X Tasks

ASSUME PlanAssumption ==
    /\ AgentOf \in [Tasks -> Agents]
    /\ Priority \in [Tasks -> Int]
    /\ MaxRetries \in [Tasks -> Nat]

ASSUME ConfigAssumption ==
    /\ MaxParallelPerRun \in Nat \ {0}
    /\ MaxParallelPerAgent \in Nat \ {0}
    /\ Outcomes \subseteq {"succeeded", "retryable", "fatal"}

ASSUME BoundsAssumption ==
    /\ MaxAttempts \in Nat \ {0}
    /\ MaxCrashes \in Nat
    /\ MaxAborts \in Nat
    /\ MaxInsertErrors \in Nat
    /\ MaxOverdue \in Nat
    /\ MaxCancels \in Nat

VARIABLES
    runStatus,    \* agent_hub_runs.status
    status,       \* agent_hub_tasks.status, per task
    count,        \* agent_hub_tasks.attempt_count, per task
    depRows,      \* agent_hub_task_deps
    attempt,      \* agent_hub_task_attempts.status, per task and attempt_no
    events,       \* agent_hub_run_events: <<type, task or run status>>
    calls,        \* goroutines waiting in provider.Execute: <<task, attempt_no>>
    overdue,      \* attempts started at least their timeout ago
    interrupted,  \* attempts left running by an earlier server process
    faults,       \* what is left of the bounds
    loc           \* control point and local variables of each process

rows == <<runStatus, status, count, depRows, attempt, events>>
env  == <<calls, overdue, interrupted, faults>>
vars == <<rows, env, loc>>
-----------------------------------------------------------------------------
AttemptNos == 1 .. MaxAttempts

PCs == {"idle", "createTasks", "getRun", "listForTimeout", "listAttempts",
        "timeouts", "listForMark", "listDeps", "mark", "readRun", "casRun",
        "listForDispatch", "dispatch", "increment", "reread", "createAttempt",
        "cancelList", "cancel", "readTask", "casTask"}

Local == [pc      : PCs,
          op      : {"none", "start", "reconcile", "exec", "cancel"},
          http    : BOOLEAN,             \* runs under a request's context
          run     : RunStatus,           \* status in the caller's copy of the run
          seen    : [Tasks -> TaskStatus],  \* a ListTasks result
          latest  : [Tasks -> 0 .. MaxAttempts],
          spare   : SUBSET Tasks,        \* listed with retry budget left
          todo    : SUBSET Tasks,        \* tasks a loop has still to visit
          block   : SUBSET Tasks,        \* those of them to be blocked
          busy    : SUBSET Tasks,        \* listed running, or dispatched since
          task    : Tasks \cup {NoTask}, \* argument of UpdateTaskStatus
          no      : 0 .. MaxAttempts,    \* attempt being created or completed
          to      : TaskStatus \cup RunStatus,
          old     : TaskStatus \cup RunStatus,
          site    : {"none", "mark", "dispatch", "complete", "retry", "cancel"},
          retry   : BOOLEAN,             \* completeTaskAttempt goes on to retry
          outcome : AttemptStatus]

Idle == [pc |-> "idle", op |-> "none", http |-> FALSE, run |-> "absent",
         seen |-> [t \in Tasks |-> "absent"], latest |-> [t \in Tasks |-> 0],
         spare |-> {}, todo |-> {}, block |-> {}, busy |-> {},
         task |-> NoTask, no |-> 0, to |-> "absent", old |-> "absent",
         site |-> "none", retry |-> FALSE, outcome |-> "absent"]

TypeOK ==
    /\ runStatus \in RunStatus
    /\ status \in [Tasks -> TaskStatus]
    /\ count \in [Tasks -> 0 .. MaxAttempts]
    /\ depRows \subseteq Deps
    /\ attempt \in [Tasks -> [AttemptNos -> AttemptStatus]]
    /\ calls \subseteq Tasks \X AttemptNos
    /\ overdue \subseteq Tasks \X AttemptNos
    /\ interrupted \subseteq Tasks \X AttemptNos
    /\ faults \in [crash : Nat, abort : Nat, insert : Nat, overdue : Nat, cancel : Nat]
    /\ loc \in [Procs -> Local]

\* Nothing has gone wrong yet.
NoFaults == [crash |-> MaxCrashes, abort |-> MaxAborts, insert |-> MaxInsertErrors,
             overdue |-> MaxOverdue, cancel |-> MaxCancels]

\* Nothing of the run exists yet.
Init ==
    /\ runStatus = "absent"
    /\ status = [t \in Tasks |-> "absent"]
    /\ count = [t \in Tasks |-> 0]
    /\ depRows = {}
    /\ attempt = [t \in Tasks |-> [n \in AttemptNos |-> "absent"]]
    /\ events = {}
    /\ calls = {}
    /\ overdue = {}
    /\ interrupted = {}
    /\ faults = NoFaults
    /\ loc = [p \in Procs |-> Idle]
-----------------------------------------------------------------------------
Become(p, l) == loc' = [loc EXCEPT ![p] = l]

\* The task's local variables are dead once its update has returned.
Clear(l) == [l EXCEPT !.task = NoTask, !.no = 0, !.to = "absent", !.old = "absent",
                      !.site = "none", !.retry = FALSE, !.outcome = "absent"]

ParentsIn(deps, t) == {d[2] : d \in {e \in deps : e[1] = t}}

Parents(t) == ParentsIn(Deps, t)

Running(stat) == {t \in Tasks : stat[t] = "running"}

\* agentKey's limit: no room left for another task of t's agent.
AgentFull(t, busy) ==
    Cardinality({u \in busy : AgentOf[u] = AgentOf[t]}) >= MaxParallelPerAgent

\* What the dispatch loop can still start: it stops at the run's capacity and
\* skips a task whose agent is full.
Dispatchable(l) ==
    {t \in l.todo : /\ Cardinality(l.busy) < MaxParallelPerRun
                    /\ ~AgentFull(t, l.busy)}

\* dispatchReadyTasks returns when no task is left to start; in async mode
\* ReconcileRun then returns too.
Dispatching(l) == IF Dispatchable(l) = {} THEN Idle ELSE [l EXCEPT !.pc = "dispatch"]

\* An attempt's goroutine reconciles the run after executeAttempt; a caller of
\* failTimedOutTasks goes on with its loop.
AfterComplete(l) ==
    IF l.op = "exec" THEN [Idle EXCEPT !.pc = "getRun", !.op = "reconcile"]
                     ELSE [Clear(l) EXCEPT !.pc = "timeouts"]

\* UpdateTaskStatus returned no error.
TaskUpdated(l) ==
    CASE l.site = "mark"     -> [Clear(l) EXCEPT !.pc = "mark"]
      [] l.site = "dispatch" -> [l EXCEPT !.pc = "increment"]
      [] l.site = "complete" ->
            IF l.retry THEN [l EXCEPT !.pc = "readTask", !.to = "ready",
                                      !.old = "absent", !.site = "retry"]
                       ELSE AfterComplete(l)
      [] l.site = "retry"    -> AfterComplete(l)
      [] l.site = "cancel"   ->
            IF l.todo = {} THEN [Clear(l) EXCEPT !.pc = "readRun", !.to = "cancelled"]
                           ELSE [Clear(l) EXCEPT !.pc = "cancel"]
      [] OTHER -> Idle

\* UpdateTaskStatus returned ErrInvalidTransition: the dispatch loop goes on to
\* its next task, an attempt's goroutine ignores the error, and every other
\* caller gives the handler up.
TaskRefused(l) ==
    CASE l.site = "dispatch" -> Dispatching(Clear(l))
      [] l.site \in {"complete", "retry"} /\ l.op = "exec" -> AfterComplete(l)
      [] OTHER -> Idle

\* Mutated CompletionEvent: every failure is reported as a success.
CompletionEventUnlessTimedOut(l) ==
    IF ~l.retry /\ l.outcome = "timed_out" THEN "task_timed_out" ELSE "task_succeeded"

CompletionEvent(l) ==
    IF l.to = "succeeded" THEN "task_succeeded"
    ELSE IF ~l.retry /\ l.outcome = "timed_out" THEN "task_timed_out"
    ELSE "task_failed"

\* The event appended once UpdateTaskStatus has returned; task_dispatched comes
\* later, with the attempt's row.
TaskEvents(l) ==
    CASE l.site = "mark"     -> {<<IF l.to = "ready" THEN "task_ready" ELSE "task_blocked", l.task>>}
      [] l.site = "complete" -> {<<CompletionEvent(l), l.task>>}
      [] l.site = "retry"    -> {<<"task_retried", l.task>>}
      [] l.site = "cancel"   -> {<<"task_cancelled", l.task>>}
      [] OTHER -> {}

\* First half of UpdateTaskStatus(l.task, l.to): read the row and check the
\* table; a status that is already there counts as updated.
ReadTask(p, l) ==
    LET cur == status[l.task] IN
    \/ /\ ~CanTransitionTask(cur, l.to)
       /\ Become(p, TaskRefused(l))
       /\ UNCHANGED events
    \/ /\ cur = l.to
       /\ Become(p, TaskUpdated(l))
       /\ events' = events \cup TaskEvents(l)
    \/ /\ cur # l.to
       /\ CanTransitionTask(cur, l.to)
       /\ Become(p, [l EXCEPT !.pc = "casTask", !.old = cur])
       /\ UNCHANGED events

\* Mutated TaskRowAsRead and RunRowAsRead: the UPDATE without its AND status=.
AnyTaskRow(l) == TRUE
AnyRunRow(l) == TRUE

TaskRowAsRead(l) == status[l.task] = l.old
RunRowAsRead(l) == runStatus = l.old

\* Second half: UPDATE ... WHERE status = old.  When another process got there
\* first the update still succeeds if the row is where the caller wants it, or
\* in any terminal status.
CasTask(p) ==
    LET l == loc[p] IN
    /\ l.pc = "casTask"
    /\ \/ /\ TaskRowAsRead(l)
          /\ status' = [status EXCEPT ![l.task] = l.to]
          /\ Become(p, TaskUpdated(l))
          /\ events' = events \cup TaskEvents(l)
       \/ /\ ~TaskRowAsRead(l)
          /\ status[l.task] = l.to \/ TerminalTask(status[l.task])
          /\ Become(p, TaskUpdated(l))
          /\ events' = events \cup TaskEvents(l)
          /\ UNCHANGED status
       \/ /\ ~TaskRowAsRead(l)
          /\ status[l.task] # l.to
          /\ ~TerminalTask(status[l.task])
          /\ Become(p, TaskRefused(l))
          /\ UNCHANGED <<status, events>>
    /\ UNCHANGED <<runStatus, count, depRows, attempt, env>>

\* transitionRun(run, to) returned the run in status cur.
RunUpdated(l, cur) ==
    IF l.op = "start" /\ l.to = "dispatching"
    THEN [Idle EXCEPT !.pc = "listForMark", !.op = "start", !.http = l.http]
    ELSE IF l.op = "reconcile" /\ ~TerminalRun(cur)
    THEN [Idle EXCEPT !.pc = "listForDispatch", !.op = "reconcile", !.http = l.http]
    ELSE Idle

\* transitionRun's own check, on the caller's copy of the run, before the store
\* is asked anything.
Transition(l, to) ==
    IF ~CanTransitionRun(l.run, to) THEN Idle
    ELSE IF l.run = to THEN RunUpdated([l EXCEPT !.to = to], l.run)
    ELSE [l EXCEPT !.pc = "readRun", !.to = to]

RunEvents(to) == {<<"run_status_changed", to>>}

\* UpdateRunStatus, in the same two halves.
ReadRun(p) ==
    LET l == loc[p] IN
    /\ l.pc = "readRun"
    /\ \/ /\ ~CanTransitionRun(runStatus, l.to)
          /\ Become(p, Idle)
          /\ UNCHANGED events
       \/ /\ runStatus = l.to
          /\ Become(p, RunUpdated(l, runStatus))
          /\ events' = events \cup RunEvents(l.to)
       \/ /\ runStatus # l.to
          /\ CanTransitionRun(runStatus, l.to)
          /\ Become(p, [l EXCEPT !.pc = "casRun", !.old = runStatus])
          /\ UNCHANGED events
    /\ UNCHANGED <<runStatus, status, count, depRows, attempt, env>>

CasRun(p) ==
    LET l == loc[p] IN
    /\ l.pc = "casRun"
    /\ \/ /\ RunRowAsRead(l)
          /\ runStatus' = l.to
          /\ Become(p, RunUpdated(l, l.to))
          /\ events' = events \cup RunEvents(l.to)
       \/ /\ ~RunRowAsRead(l)
          /\ runStatus = l.to \/ TerminalRun(runStatus)
          /\ Become(p, RunUpdated(l, runStatus))
          /\ events' = events \cup RunEvents(l.to)
          /\ UNCHANGED runStatus
       \/ /\ ~RunRowAsRead(l)
          /\ runStatus # l.to
          /\ ~TerminalRun(runStatus)
          /\ Become(p, Idle)
          /\ UNCHANGED <<runStatus, events>>
    /\ UNCHANGED <<status, count, depRows, attempt, env>>
-----------------------------------------------------------------------------
(***************************************************************************)
(* StartRun                                                                *)
(***************************************************************************)
StartRun(p) ==
    /\ loc[p] = Idle
    /\ runStatus = "absent"
    /\ runStatus' = "planning"
    /\ events' = events \cup {<<"run_created", "planning">>}
    /\ Become(p, [Idle EXCEPT !.pc = "createTasks", !.op = "start", !.http = TRUE,
                              !.run = "planning", !.todo = Tasks])
    /\ UNCHANGED <<status, count, depRows, attempt, env>>

\* CreateTasks: every task row, then every dependency row, each in a statement
\* of its own.
InsertTask(p) ==
    LET l == loc[p] IN
    /\ l.pc = "createTasks"
    /\ \E t \in l.todo :
        /\ status' = [status EXCEPT ![t] = "pending"]
        /\ Become(p, [l EXCEPT !.todo = @ \ {t}])
    /\ UNCHANGED <<runStatus, count, depRows, attempt, events, env>>

InsertDep(p) ==
    LET l == loc[p] IN
    /\ l.pc = "createTasks"
    /\ l.todo = {}
    /\ \E d \in Deps \ depRows : depRows' = depRows \cup {d}
    /\ UNCHANGED <<runStatus, status, count, attempt, events, env, loc>>

\* Mutated PlanInserted: the dependency rows, or all rows but one, are forgotten.
TasksInserted(l) == l.todo = {}
FirstTaskInserted(l) == l.todo # Tasks

PlanInserted(l) == l.todo = {} /\ depRows = Deps

\* CreateTasks failed half-way: the run is moved to failed.
CreateTasksFails(p) ==
    LET l == loc[p] IN
    /\ l.pc = "createTasks"
    /\ ~PlanInserted(l)
    /\ faults.insert > 0
    /\ faults' = [faults EXCEPT !.insert = @ - 1]
    /\ Become(p, Transition([l EXCEPT !.todo = {}], "failed"))
    /\ UNCHANGED <<rows, calls, overdue, interrupted>>

\* The plan is stored: append its events and move the run to dispatching.
PlanStored(p) ==
    LET l == loc[p] IN
    /\ l.pc = "createTasks"
    /\ PlanInserted(l)
    /\ events' = events \cup {<<"task_created", t>> : t \in Tasks}
                        \cup {<<"run_planned", "planning">>}
    /\ Become(p, Transition(l, "dispatching"))
    /\ UNCHANGED <<runStatus, status, count, depRows, attempt, env>>

\* AutoDispatch is off: StartRun returns after marking the first tasks ready.
FinishStart(p) ==
    LET l == loc[p] IN
    /\ l.pc = "mark"
    /\ l.todo = {}
    /\ l.op = "start"
    /\ Become(p, Idle)
    /\ UNCHANGED <<rows, env>>
-----------------------------------------------------------------------------
(***************************************************************************)
(* ReconcileRun: called by a polling client, by StartRun when AutoDispatch *)
(* is on, and by an attempt's goroutine once the attempt is complete.      *)
(***************************************************************************)
Reconciling(http) ==
    IF TerminalRun(runStatus) THEN Idle
    ELSE [Idle EXCEPT !.pc = "listForTimeout", !.op = "reconcile", !.http = http,
                      !.run = runStatus]

Poll(p) ==
    /\ loc[p] = Idle
    /\ runStatus # "absent"
    /\ Become(p, Reconciling(TRUE))
    /\ UNCHANGED <<rows, env>>

GetRun(p) ==
    LET l == loc[p] IN
    /\ \/ l.pc = "getRun"
       \/ l.pc = "mark" /\ l.todo = {} /\ l.op = "start"
    /\ Become(p, Reconciling(l.http))
    /\ UNCHANGED <<rows, env>>

\* Mutated MayRetry: off by one.
MayRetryOnceMore(t, attempts) == attempts <= MaxRetries[t] + 1

\* MaxRetries is the number of extra attempts after the first.
MayRetry(t, attempts) == attempts <= MaxRetries[t]

\* failTimedOutTasks: ListTasks, then ListAttempts.
ListForTimeout(p) ==
    LET l == loc[p] IN
    /\ l.pc = "listForTimeout"
    /\ Become(p, [l EXCEPT !.pc = "listAttempts", !.busy = Running(status),
                           !.spare = {t \in Running(status) : MayRetry(t, count[t])}])
    /\ UNCHANGED <<rows, env>>

RunningAttempts(t) == {n \in AttemptNos : attempt[t][n] = "running"}

\* n is the running attempt of t with the highest number, 0 when there is none.
LatestRunning(t, n) ==
    /\ \A m \in RunningAttempts(t) : m <= n
    /\ n \in RunningAttempts(t) \/ (n = 0 /\ RunningAttempts(t) = {})

ListAttempts(p) ==
    LET l == loc[p] IN
    /\ l.pc = "listAttempts"
    /\ \E latest \in [Tasks -> 0 .. MaxAttempts] :
        /\ \A t \in Tasks : IF t \in l.busy THEN LatestRunning(t, latest[t])
                                            ELSE latest[t] = 0
        /\ Become(p, [l EXCEPT !.pc = "timeouts", !.busy = {}, !.latest = latest,
                               !.todo = {t \in l.busy : latest[t] # 0}])
    /\ UNCHANGED <<rows, env>>

\* Mutated Due: without the clock; without the check for a restart.
DueAtOnce(t, n) == TRUE
OverdueOnly(t, n) == <<t, n>> \in overdue

\* Started before this server process did, or longer ago than its timeout.
Due(t, n) == <<t, n>> \in interrupted \cup overdue

\* The two halves of completeTaskAttempt: the attempt's row is overwritten
\* whatever it says, then the task's status is updated.
CompleteAttempt(t, n, outcome) ==
    attempt' = [attempt EXCEPT ![t][n] = outcome]

\* Mutated CompletedTo: a provider's error is ignored; a retry skips "failed".
SucceededUnlessTimedOut(outcome) == IF outcome = "timed_out" THEN "failed" ELSE "succeeded"
ReadyUnlessSucceeded(outcome) == IF outcome = "succeeded" THEN "succeeded" ELSE "ready"

CompletedTo(outcome) == IF outcome = "succeeded" THEN "succeeded" ELSE "failed"

Completing(l, t, n, outcome, retry) ==
    [l EXCEPT !.pc = "readTask", !.task = t, !.no = n, !.outcome = outcome,
              !.site = "complete", !.retry = retry,
              !.to = CompletedTo(outcome)]

\* The loop completes one attempt that is due; passed are tasks it visited
\* before and found not due.
TimeOut(p) ==
    LET l == loc[p] IN
    /\ l.pc = "timeouts"
    /\ \E t \in l.todo, passed \in SUBSET l.todo :
        /\ Due(t, l.latest[t])
        /\ \A u \in passed : ~Due(u, l.latest[u])
        /\ CompleteAttempt(t, l.latest[t], "timed_out")
        /\ Become(p, Completing([l EXCEPT !.todo = @ \ (passed \cup {t})],
                                t, l.latest[t], "timed_out", t \in l.spare))
    /\ UNCHANGED <<runStatus, status, count, depRows, events, env>>

\* markRunnableTasks: ListTasks, then ListDependencies, then the updates.
ListForMark(p) ==
    LET l == loc[p] IN
    /\ \/ l.pc = "listForMark"
       \/ l.pc = "timeouts" /\ \A t \in l.todo : ~Due(t, l.latest[t])
    /\ Become(p, [Idle EXCEPT !.pc = "listDeps", !.op = l.op, !.http = l.http,
                              !.run = l.run, !.seen = status])
    /\ UNCHANGED <<rows, env>>

\* Mutated Runnable: it is enough that the parents have left "pending".
RunnableOnceStarted(seen, parents) == \A u \in parents : seen[u] # "pending"

Runnable(seen, parents) == \A u \in parents : seen[u] = "succeeded"

\* Mutated Blocked: failures do not spread.
NeverBlocked(seen, parents) == FALSE

Blocked(seen, parents) ==
    \E u \in parents : seen[u] \in {"failed", "blocked", "cancelled"}

ListDeps(p) ==
    LET l       == loc[p]
        waiting == {t \in Tasks : l.seen[t] \in {"pending", "blocked"}}
        ready   == {t \in waiting : Runnable(l.seen, ParentsIn(depRows, t))}
        block   == {t \in waiting : /\ l.seen[t] = "pending"
                                    /\ Blocked(l.seen, ParentsIn(depRows, t))}
    IN
    /\ l.pc = "listDeps"
    /\ Become(p, [l EXCEPT !.pc = "mark", !.seen = Idle.seen,
                           !.todo = ready \cup block, !.block = block])
    /\ UNCHANGED <<rows, env>>

Mark(p) ==
    LET l == loc[p] IN
    /\ l.pc = "mark"
    /\ \E t \in l.todo :
        ReadTask(p, [l EXCEPT !.task = t, !.site = "mark", !.todo = @ \ {t},
                              !.block = @ \ {t},
                              !.to = IF t \in l.block THEN "blocked" ELSE "ready"])
    /\ UNCHANGED <<runStatus, status, count, depRows, attempt, env>>

\* Mutated Listed: cancelled tasks do not count.
ListedUncancelled(stat) == {t \in Tasks : stat[t] \notin {"absent", "cancelled"}}

Listed(stat) == {t \in Tasks : stat[t] # "absent"}

\* Mutated Unsettled: only the running tasks are waited for.
OnlyRunning == {"running"}

Unsettled == {"running", "ready", "pending"}

\* The run status recomputeRunStatus derives from a list of task statuses.
DerivedRunStatus(stat) ==
    LET Any(S) == \E t \in Listed(stat) : stat[t] \in S
    IN
    IF Listed(stat) = {} THEN "failed"
    ELSE IF \A t \in Listed(stat) : stat[t] = "succeeded" THEN "completed"
    ELSE IF Any({"failed", "blocked", "cancelled"}) /\ ~Any(Unsettled) THEN "failed"
    ELSE IF Any({"running"}) THEN "collecting"
    ELSE "dispatching"

Recompute(p) ==
    LET l == loc[p] IN
    /\ l.pc = "mark"
    /\ l.todo = {}
    /\ l.op = "reconcile"
    /\ Become(p, Transition(l, DerivedRunStatus(status)))
    /\ UNCHANGED <<rows, env>>

\* dispatchReadyTasks: one ListTasks fixes the ready tasks and the load.
ListForDispatch(p) ==
    LET l == loc[p] IN
    /\ l.pc = "listForDispatch"
    /\ Become(p, Dispatching([l EXCEPT !.todo = {t \in Tasks : status[t] = "ready"},
                                       !.busy = Running(status)]))
    /\ UNCHANGED <<rows, env>>

Dispatch(p) ==
    LET l == loc[p] IN
    /\ l.pc = "dispatch"
    /\ \E t \in Dispatchable(l) :
        /\ \A u \in Dispatchable(l) : Priority[u] <= Priority[t]
        /\ ReadTask(p, [l EXCEPT !.task = t, !.to = "running", !.site = "dispatch",
                                 !.todo = @ \ {t}])
    /\ UNCHANGED <<runStatus, status, count, depRows, attempt, env>>

\* IncrementTaskAttempt: an UPDATE, then a read of the row.  The guard on
\* MaxAttempts is a bound of the model.
Increment(p) ==
    LET l == loc[p] IN
    /\ l.pc = "increment"
    /\ count[l.task] < MaxAttempts
    /\ count' = [count EXCEPT ![l.task] = @ + 1]
    /\ Become(p, [l EXCEPT !.pc = "reread"])
    /\ UNCHANGED <<runStatus, status, depRows, attempt, events, env>>

Reread(p) ==
    LET l == loc[p] IN
    /\ l.pc = "reread"
    /\ Become(p, [l EXCEPT !.pc = "createAttempt",
                           !.no = IF count[l.task] = 0 THEN 1 ELSE count[l.task]])
    /\ UNCHANGED <<rows, env>>

\* CreateAttempt under UNIQUE (task_id, attempt_no), and the goroutine that
\* calls the provider.
CreateAttempt(p) ==
    LET l == loc[p] IN
    /\ l.pc = "createAttempt"
    /\ attempt[l.task][l.no] = "absent"
    /\ attempt' = [attempt EXCEPT ![l.task][l.no] = "running"]
    /\ events' = events \cup {<<"task_dispatched", l.task>>}
    /\ calls' = calls \cup {<<l.task, l.no>>}
    /\ Become(p, Dispatching(Clear([l EXCEPT !.busy = @ \cup {l.task}])))
    /\ UNCHANGED <<runStatus, status, count, depRows, overdue, interrupted, faults>>

AttemptExists(p) ==
    LET l == loc[p] IN
    /\ l.pc = "createAttempt"
    /\ attempt[l.task][l.no] # "absent"
    /\ Become(p, Idle)
    /\ UNCHANGED <<rows, env>>
-----------------------------------------------------------------------------
(***************************************************************************)
(* executeAttempt: the provider returns and the attempt is completed.      *)
(* Before the attempt is overdue its context has not expired; after, the   *)
(* provider may still answer, the context having been created later.       *)
(***************************************************************************)
\* Mutated AttemptResult: the provider's own verdict is stored.
RawResult(o) == o

AttemptResult(o) == IF o \in {"retryable", "fatal"} THEN "failed" ELSE o

OutcomesOf(c) == Outcomes \cup (IF c \in overdue THEN {"timed_out"} ELSE {})

ExecutorReturns(p, c) ==
    /\ loc[p] = Idle
    /\ calls' = calls \ {c}
    /\ \E o \in OutcomesOf(c) :
        LET result == AttemptResult(o)
            retry  == o \in {"retryable", "timed_out"} /\ MayRetry(c[1], c[2])
        IN  /\ CompleteAttempt(c[1], c[2], result)
            /\ Become(p, Completing([Idle EXCEPT !.op = "exec"], c[1], c[2], result, retry))
    /\ UNCHANGED <<runStatus, status, count, depRows, events, overdue, interrupted, faults>>

\* UpdateTaskStatus called by completeTaskAttempt.
UpdateCompleted(p) ==
    /\ loc[p].pc = "readTask"
    /\ ReadTask(p, loc[p])
    /\ UNCHANGED <<runStatus, status, count, depRows, attempt, env>>
-----------------------------------------------------------------------------
(***************************************************************************)
(* CancelRun                                                               *)
(***************************************************************************)
CancelRun(p) ==
    /\ loc[p] = Idle
    /\ runStatus # "absent"
    /\ ~TerminalRun(runStatus)
    /\ faults.cancel > 0
    /\ faults' = [faults EXCEPT !.cancel = @ - 1]
    /\ Become(p, [Idle EXCEPT !.pc = "cancelList", !.op = "cancel", !.http = TRUE,
                              !.run = runStatus])
    /\ UNCHANGED <<rows, calls, overdue, interrupted>>

CancelList(p) ==
    LET l    == loc[p]
        todo == {t \in Tasks : /\ status[t] # "cancelled"
                               /\ CanTransitionTask(status[t], "cancelled")}
    IN
    /\ l.pc = "cancelList"
    /\ Become(p, IF todo = {} THEN Transition(l, "cancelled")
                              ELSE [l EXCEPT !.pc = "cancel", !.todo = todo])
    /\ UNCHANGED <<rows, env>>

CancelTask(p) ==
    LET l == loc[p] IN
    /\ l.pc = "cancel"
    /\ \E t \in l.todo :
        ReadTask(p, [l EXCEPT !.task = t, !.to = "cancelled", !.site = "cancel",
                              !.todo = @ \ {t}])
    /\ UNCHANGED <<runStatus, status, count, depRows, attempt, env>>
-----------------------------------------------------------------------------
(***************************************************************************)
(* The environment                                                         *)
(***************************************************************************)
\* The client of an HTTP request goes away, its context is cancelled and the
\* next statement fails: the handler returns where it is.
Abort(p) ==
    /\ loc[p].http
    /\ faults.abort > 0
    /\ faults' = [faults EXCEPT !.abort = @ - 1]
    /\ Become(p, Idle)
    /\ UNCHANGED <<rows, calls, overdue, interrupted>>

\* The server stops and a new one starts: only the rows survive.
Crash ==
    /\ faults.crash > 0
    /\ faults' = [faults EXCEPT !.crash = @ - 1]
    /\ loc' = [p \in Procs |-> Idle]
    /\ calls' = {}
    /\ interrupted' = {c \in Tasks \X AttemptNos : attempt[c[1]][c[2]] = "running"}
    /\ UNCHANGED <<rows, overdue>>

\* A running attempt reaches its timeout.
Elapse(c) ==
    /\ attempt[c[1]][c[2]] = "running"
    /\ c \notin overdue
    /\ faults.overdue > 0
    /\ faults' = [faults EXCEPT !.overdue = @ - 1]
    /\ overdue' = overdue \cup {c}
    /\ UNCHANGED <<rows, calls, interrupted, loc>>
-----------------------------------------------------------------------------
\* What a process does once it is inside the service's code.
Proceed(p) ==
    \/ InsertTask(p)   \/ InsertDep(p)       \/ PlanStored(p)
    \/ FinishStart(p)  \/ GetRun(p)
    \/ ListForTimeout(p) \/ ListAttempts(p)  \/ TimeOut(p)
    \/ ListForMark(p)  \/ ListDeps(p)        \/ Mark(p)
    \/ Recompute(p)    \/ ReadRun(p)         \/ CasRun(p)
    \/ ListForDispatch(p) \/ Dispatch(p)
    \/ Increment(p)    \/ Reread(p)
    \/ CreateAttempt(p) \/ AttemptExists(p)
    \/ UpdateCompleted(p) \/ CasTask(p)
    \/ CancelList(p)   \/ CancelTask(p)

Next ==
    \/ \E p \in Procs : \/ StartRun(p)
                        \/ Poll(p)
                        \/ CancelRun(p)
                        \/ \E c \in calls : ExecutorReturns(p, c)
                        \/ Proceed(p)
                        \/ CreateTasksFails(p)
                        \/ Abort(p)
    \/ Crash
    \/ \E c \in Tasks \X AttemptNos : Elapse(c)

Spec == Init /\ [][Next]_vars

\* StartRun(p) has just stored the whole plan, and no other process has touched
\* the run before that.
PlannedInit ==
    /\ runStatus = "planning"
    /\ status = [t \in Tasks |-> "pending"]
    /\ count = [t \in Tasks |-> 0]
    /\ depRows = Deps
    /\ attempt = [t \in Tasks |-> [n \in AttemptNos |-> "absent"]]
    /\ events = {<<"run_created", "planning">>, <<"run_planned", "planning">>}
                  \cup {<<"task_created", t>> : t \in Tasks}
    /\ calls = {}
    /\ overdue = {}
    /\ interrupted = {}
    /\ faults = NoFaults
    /\ \E p \in Procs :
        loc = [q \in Procs |-> IF q = p
                 THEN [Idle EXCEPT !.pc = "readRun", !.op = "start", !.http = TRUE,
                                   !.run = "planning", !.to = "dispatching"]
                 ELSE Idle]

PlannedSpec == PlannedInit /\ [][Next]_vars

-----------------------------------------------------------------------------
(***************************************************************************)
(* Fairness.  A goroutine inside the service runs on: its statements       *)
(* return.  As long as providers are at work one of them returns, at its   *)
(* deadline at the latest, and the room's page polls the run as long as it *)
(* is open.  The last two are strong only because Procs bounds how many    *)
(* goroutines are modelled at once: the real ones do not wait for one      *)
(* another.                                                                *)
(***************************************************************************)
Fairness ==
    /\ \A p \in Procs : WF_vars(Proceed(p))
    /\ SF_vars(\E p \in Procs, c \in calls : ExecutorReturns(p, c))
    /\ SF_vars(\E p \in Procs : Poll(p))

FairSpec == PlannedSpec /\ Fairness

FairStartSpec == Spec /\ Fairness
-----------------------------------------------------------------------------
(***************************************************************************)
(* Properties                                                              *)
(***************************************************************************)
\* The run and its tasks move only along the transition tables, also when two
\* processes write the same row: UpdateTaskStatus and UpdateRunStatus check the
\* table on a status they read a statement earlier.
LegalSteps ==
    [][/\ CanTransitionRun(runStatus, runStatus')
       /\ \A t \in Tasks : CanTransitionTask(status[t], status'[t])]_vars

\* A task is attempted only after every task it depends on has succeeded, and
\* those stay succeeded: markRunnableTasks decides from a list of tasks that any
\* number of other writes may have overtaken.
DependenciesRespected ==
    \A t \in Tasks, n \in AttemptNos :
        attempt[t][n] # "absent" => \A u \in Parents(t) : status[u] = "succeeded"

\* A run is completed only when all its tasks have succeeded, though
\* recomputeRunStatus counts the tasks two statements before it writes the run.
CompletedRunIsDone ==
    runStatus = "completed" => \A t \in Tasks : status[t] = "succeeded"

\* A task is attempted at most once more than its MaxRetries: failTimedOutTasks
\* and executeAttempt both count the attempts of a task they may both retry.
RetryBudget ==
    \A t \in Tasks :
        Cardinality({n \in AttemptNos : attempt[t][n] # "absent"}) <= MaxRetries[t] + 1

\* No task is being worked on by two providers at a time.
OneCallPerTask ==
    \A c, d \in calls : c[1] = d[1] => c = d

\* A run that has ended, and is therefore never reconciled again, leaves no task
\* waiting for a reconcile.
TerminalRunIsQuiet ==
    TerminalRun(runStatus) =>
        \A t \in Tasks : status[t] \notin {"pending", "ready", "running"}

\* A cancelled run has no task that is still to end: CancelRun cancels the tasks
\* it has listed one by one, then the run.
CancelledRunIsClear ==
    runStatus = "cancelled" =>
        \A t \in Tasks : status[t] \notin {"pending", "ready", "running"}

\* The dependents of a succeeded task find its output: successfulAttempts-
\* ForDependencies takes it from an attempt that has succeeded.
SucceededTaskHasOutput ==
    \A t \in Tasks : status[t] = "succeeded" =>
        \E n \in AttemptNos : attempt[t][n] = "succeeded"

\* As long as no attempt reaches its timeout, the log reports the success of a task
\* only if an attempt of it has succeeded.  The task itself may be in another status:
\* completeTaskAttempt logs the event also after a compare-and-set that it has lost
\* to a cancellation, and two attempts of a task may end one after the other.
SuccessEventsBacked ==
    overdue = {} =>
        \A t \in Tasks : <<"task_succeeded", t>> \in events =>
            \E n \in AttemptNos : attempt[t][n] = "succeeded"

\* As long as no attempt reaches its timeout, the result of an attempt is final:
\* CompleteAttempt overwrites whatever it finds, and is called by the goroutine of
\* the attempt and by any reconcile that takes the attempt for an interrupted one.
AttemptResultsKept ==
    [][overdue' = {} =>
        \A t \in Tasks, n \in AttemptNos :
            attempt[t][n] \in {"succeeded", "failed", "timed_out"} =>
                attempt'[t][n] = attempt[t][n]]_vars

\* Whenever no process is inside the service, every running task has a running
\* attempt, the only thing failTimedOutTasks could end it by.
NoOrphan ==
    (\A p \in Procs : loc[p] = Idle) =>
        \A t \in Running(status) : RunningAttempts(t) # {}

\* A run that was moved on after planning has its whole plan in the database:
\* StartRun writes it in one statement per row.
PlanIsWhole ==
    runStatus \in {"dispatching", "collecting", "completed"} =>
        /\ depRows = Deps
        /\ \A t \in Tasks : status[t] # "absent"

\* A run that nothing interrupts ends, whatever its providers answer: some
\* poll or some attempt's goroutine always moves it on.
RunFinishes ==
    [](faults.crash = MaxCrashes /\ faults.abort = MaxAborts) =>
        (runStatus # "absent" ~> TerminalRun(runStatus))

\* Every run ends, interrupted or not.
EveryRunFinishes == <>TerminalRun(runStatus)

\* A task a restart caught in the middle of an attempt does not stay running for
\* ever: failTimedOutTasks of the new server process ends the attempt, unless
\* CancelRun gets there first.  (A request cut short between the two halves of
\* completeTaskAttempt can leave the task running without a running attempt.)
InterruptedTasksRecovered ==
    [](faults.abort = MaxAborts) => \A t \in Tasks :
        (status[t] = "running" /\ \E n \in RunningAttempts(t) : <<t, n>> \in interrupted)
            ~> (status[t] # "running" \/ TerminalRun(runStatus))

\* The run and its tasks behave as DagRun promises, in every interleaving.
Promise == INSTANCE DagRun
PromiseKept == Promise!Spec
=============================================================================
