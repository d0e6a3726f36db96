# A verification project for GenMult

TLA+ models of GenMult's core logic, the TLC runs that check them on small instances,
and theorems about them whose proofs TLAPS checks for every instance. `PROJECT.json` is
the index: components, runs, the source lines every definition stands for, the mutated
code each property was seen to reject, hazards, findings and theorems. Paths below are
relative to the repository; `O/` stands for `internal/agenthub/orchestrator/`.

Contents: 1. the system. 2. the modules. 3. the models: 3.1 the orchestrator, 3.2 the
event log and the projector, 3.3 background tasks and session turns, 3.4 inbound
messages. 4. the runs. 5. fairness. 6. the proofs. 7. where code and documentation part.
8. what is not modelled. 9. the plan.

## 1. The system

GenMult is a Go server of chat agents ("bots") with a web page. A *room* of its AgentHub
has several agents; a message to the room becomes a *run*: a planner turns it into a
graph of tasks, the orchestrator dispatches each to an agent's provider once what it
depends on has succeeded, and what happened is projected back into the room as messages.
The rest of the server takes messages from chat platforms, runs an agent's tool loop on
them, starts and watches long commands in the background, and keeps history, memory,
schedules and containers.

| component | state | operations | talks to | what is hard | what makes it correct |
|---|---|---|---|---|---|
| **Orchestrator** (`O/service.go`, `O/state_machine.go`, `O/sql_store.go`) | rows: run, tasks, dependencies, attempts, events | StartRun, ReconcileRun, ReconcileActiveRuns, CancelRun, attempt goroutines | planner, providers, database; called by HTTP handlers | no lock and no transaction around a handler; every handler and every attempt is a goroutine; timeouts race answers; restarts | dependencies respected; a run completes only when all is done; statuses follow the tables; every run ends; retries are bounded |
| **Entry points** (`internal/agenthub/orchestrator_service.go`, `internal/handlers/agent_hub_orchestrator.go`) | configuration | start, poll, cancel, snapshot | orchestrator, projector | handlers run under the request's context and stop with it | a request cut short leaves nothing that a later one cannot finish |
| **Projector** (`internal/agenthub/orchestrator_projector.go`) | `projSeq` per run, in memory | projectRun | event log, rooms | two requests at once; restart; a post that fails | each event is shown once, in order |
| **Planners** (`internal/agenthub/llm_planner.go`, `O/planner.go`) | none | Plan, validatePlan | model | key collisions, cycles, unknown names | the plan is an acyclic graph over its own tasks |
| **Providers** (`internal/agenthub/providers`) | child processes | Execute | agents' CLIs and models | deadlines | a call returns by its deadline |
| **Rooms** (`internal/agenthub/service.go`) | rooms, participants, messages | CRUD | database | few | |
| **Background tasks** (`internal/agent/background`) | tasks, their cancel functions, a list of notifications | SpawnAdopt, runAdopt, completeTask, Kill, stallWatchdog, Drain, Requeue, Cleanup | container, session turns | Kill, completion and stall watchdog race | a task ends once, is reported once and truthfully; a terminal status is final |
| **Session turns** (`internal/conversation/flow/resolver_turns.go`, `resolver_trigger.go`) | turns under way per session, a deferred flag | enter and leave a turn, TriggerBackgroundNotification | background tasks, agent runtime | turns overlap; the goroutine that delivers meets them on the way in | no notification is lost or told twice; deliveries do not overlap |
| **Inbound handler and route dispatcher** (`internal/channel/inbound.go`, `internal/channel/inbound`) | four workers; per route an active flag, an inject channel, a queue; cancel functions of streams | HandleInbound, IsActive, MarkActive, Inject, Enqueue, MarkDone, /stop | channels, agent runtime | the route is asked twice, and a stream opens in between; a message arrives while its route ends | no message is handled twice or waits for nothing; /stop reaches a live stream |
| **Discuss driver** (`internal/pipeline`) | per session a pipeline of events, a goroutine, its channel and cursor | PushEvent, NotifyRC, runSession | message store, agent | idle exit against notification; full channel; contexts out of order; cold start | a goroutine puts no event to the agent twice |
| **Agent runtime** (`internal/agent`) | a stream | tool loop | model, tools | cancellation | tool results answer tool calls |
| **Channels** (`internal/channel`) | connections | start, stop, send | chat platforms | reconnects | |
| **Tool approval** (`internal/toolapproval`) | requests | create, decide | database, chats | two deciders | one decision per request |
| **Conversation, compaction, memory** (`internal/conversation`, `internal/compaction`, `internal/message`, `internal/memory`) | history | assemble, summarise, store | database, model | sequential | |
| **Schedule and heartbeat** (`internal/schedule`, `internal/heartbeat`) | cron entries | trigger | agent | missed triggers | |
| **Workspace, containers** (`internal/workspace`, `internal/container`) | containers | create, start, exec | container runtime | external failures | |
| **CRUD services, handlers, adapters, UI, deployment** | | | | | see `PROJECT.json` |

How the parts interact. A run and its room: the orchestrator writes rows and appends
events, the projector, called by the same requests, reads them and posts messages (3.1,
3.2). A chat: an inbound worker opens an agent's stream, or injects into the one that is
open; the agent takes what was injected, and what the background tasks have to tell, at
the boundaries of its steps (3.3, 3.4).

In the orchestrator these interactions are *shared rows*: its goroutines never call each
other, they meet in the database. Nothing there runs in the background. A run moves when
an HTTP request reconciles it (the room's page polls every 1.5 s,
`apps/web/src/pages/agent-hub/index.vue:2006`) or when an attempt's goroutine reconciles
it after its provider has returned.

## 2. The modules

| module | what it is |
|---|---|
| `OrchestratorStates` | the statuses and the two transition tables (`O/types.go`, `O/errors.go`, `O/state_machine.go`) |
| `Orchestrator` | one run in the service, statement by statement; its fairness and properties |
| `DagRun` | abstract specification: what the orchestrator promises of a planned run |
| `OrchestratorInv` | its inductive invariants |
| `MCOrchestrator` | plans, agents and symmetry for TLC |
| `OrchestratorTypeProofs`, `OrchestratorProofs` | types, dependencies, the refinement of `DagRun` |
| `OrchestratorStepProofs` | what each step does to its process's locals; `CallInv` |
| `OrchestratorFaultProofs` | what holds as long as certain faults do not happen |
| `EventLog` | AppendEvent with its conflicts and retries, ListEvents with its limit |
| `Projector` | projectRun over that log: concurrent requests, restarts, posts that fail |
| `MCProjector`, `ProjectorProofs` | module of its run; theorems |
| `BackgroundTasks` | the manager of background tasks, one critical section per step |
| `SessionTurns` | how its notifications reach an agent: turns, triggers, deliveries |
| `TaskReports` | abstract specification: what a session is promised of its tasks |
| `MCTurns`, `SessionTurnsProofs` | module of their run; theorems |
| `InboundWorkers` | the workers, and the type of a session |
| `RouteStreams` | a chat route: streams, injection, queue, /stop |
| `DiscussSession` | a discuss session: pipeline, goroutine, channel, cursor |
| `Inbound` | the two composed: a route is of one type or the other, /stop is for both |
| `MCInbound`, `InboundProofs` | symmetry and the module of their run; theorems |

    OrchestratorStates <- DagRun
                       <- Orchestrator (INSTANCE DagRun) <- OrchestratorInv
    OrchestratorInv <- MCOrchestrator
                    <- OrchestratorTypeProofs <- OrchestratorProofs <- OrchestratorStepProofs
                    <- OrchestratorFaultProofs
    EventLog <- Projector <- MCProjector
                          <- ProjectorProofs
    BackgroundTasks <- SessionTurns (INSTANCE TaskReports) <- MCTurns
                                                           <- SessionTurnsProofs
    InboundWorkers <- RouteStreams   <- Inbound <- MCInbound
                   <- DiscussSession <-         <- InboundProofs

## 3. The models

### 3.1 The orchestrator

**Processes and steps.** A process (`Procs`) is a goroutine that is inside the service's
code: an HTTP handler or the goroutine of an attempt whose provider has returned. A step
is *one SQL statement*, with the local work up to the next one. Any other process may
run between two statements: there is no lock and no transaction around a handler, which
is what the model is about. `loc[p]` holds the control point and the local variables
that are still live: a list of tasks read earlier (`seen`), the decisions taken from it
(`todo`, `block`), the load it showed (`busy`), the copy of the run the caller was given
(`run`), the arguments of the UpdateTaskStatus under way (`task`, `to`, `old`, `site`,
`retry`). Goroutines waiting in a provider are in `calls`; they carry nothing but their
task and attempt number, which is the AttemptCount of their stale copy of the task.

**State and rows.** `runStatus`, `status`, `count`, `depRows`, `attempt` and `events`
are the rows of `agent_hub_runs`, `_tasks`, `_task_deps`, `_task_attempts` and
`_run_events`.

| code | actions |
|---|---|
| StartRun, CreateTasks | `StartRun`, `InsertTask`, `InsertDep`, `CreateTasksFails`, `PlanStored`, `FinishStart` |
| ReconcileRun, ReconcileActiveRuns | `Poll`, `GetRun`, then the four phases below |
| failTimedOutTasks | `ListForTimeout`, `ListAttempts`, `TimeOut` |
| markRunnableTasks | `ListForMark`, `ListDeps`, `Mark` |
| recomputeRunStatus, transitionRun | `Recompute` |
| dispatchReadyTasks, createAttempt | `ListForDispatch`, `Dispatch`, `Increment`, `Reread`, `CreateAttempt`, `AttemptExists` |
| executeAttempt, completeTaskAttempt | `ExecutorReturns`, `UpdateCompleted` |
| UpdateTaskStatus (read and check; compare and set) | `ReadTask` inside the action that calls it; `CasTask` |
| UpdateRunStatus | `ReadRun`, `CasRun` |
| CancelRun | `CancelRun`, `CancelList`, `CancelTask` |
| environment | `Abort` (the client goes away), `Crash` (server restart), `Elapse` (an attempt's timeout passes) |

UpdateTaskStatus deserves care. It reads the row and checks the table; a row that
already has the wanted status counts as updated; then it issues `UPDATE ... WHERE status
= <what it read>`. If no row matched, it re-reads, and a row that is where the caller
wants it *or in any terminal status* also counts as updated, so the caller goes on, and
appends its event, although it changed nothing. All of it is in `ReadTask` and
`CasTask`.

**Abstractions.** Tasks are model values; keys, prompts, outputs and JSON are left out.
`created_at` is the same for all tasks of a plan, so loops take any order the database
may give (dispatch still goes by priority). Times are the two facts the code derives
from them: an attempt is `overdue`, or was left by an earlier process (`interrupted`).
The log keeps which events exist, not their sequence numbers. The read that follows a
write belongs to the write. Any relation may be the dependency relation in the proofs, a
cyclic one included; the runs use chains and forks.

**Two initial states.** `Spec` starts from an empty database and has StartRun in it.
`PlannedSpec` starts when StartRun has just stored the whole plan and no other request
has touched the run. The distinction is real: a reconcile *may* touch a run that is
still planning (section 7), and everything said of planned runs would be false from the
empty database.

**Bounds**, all CONSTANTS: `MaxAttempts` rows of attempts per task (guard of
`Increment`), `MaxCrashes`, `MaxAborts`, `MaxInsertErrors`, `MaxOverdue`, `MaxCancels`
(one fault each from `faults`). They are assumed natural numbers and nothing else in the
proofs, so theorems hold for any bounds.

### 3.2 The event log and the projector

`EventLog` is `agent_hub_run_events` of one run. AppendEvent is two statements:
`ReadMax`, then `Insert` or, if another goroutine took the number meanwhile, `Conflict`,
which begins again until `MaxTries` is used up; `InsertFails` is any other error.
Callers ignore what it returns, so in every error the event is gone. `ListEvents(after)`
is the page of the first `ListLimit` rows above `after`.

| code | actions |
|---|---|
| AppendEvent | `Log` (part of the step that writes the status), `ReadMax`, `Insert`, `Conflict`, `InsertFails` |
| UpdateTaskStatus and the event its caller appends; a provider's onEvent; transitionRun | `Updates`, `Outputs`, `RunMoves` |
| ReconcileRun of the service: snapshot, then projectRun | `Snapshot`, `ReadMark`, `List` or `ListFails`, one `Post` or `PostFails` per message, `Store` |
| roomMessageForEvent; runEventsToMessages, where a success does not repeat an output | `Surfaces`, `Repeated`, `Messages` |
| a restart: `projSeq` is gone | `Restart` |

A projection is five steps, and any number of `Requests` may be in it. A kind of event
stands for what a room does with it: `shown` and `result` surface with a text of their
own (`result` is an output whose text is the task's result), `succeeded` with one that
may repeat a `result`, `failed` only if the snapshot shows the task as failed, and
`silent` never (tool calls and non-terminal run_status_changed among it).

*The run* is over-approximated. `Updates` is any UpdateTaskStatus that can return
without an error, for any task and status, by any goroutine: the status moves, or it is
there already, or the compare-and-set is lost to a terminal status, and the caller's
event is appended in each case. `RunMoves` is the same of the run's status. So the
histories of the model include a success logged for a cancelled task, a final failure
whose task a late attempt makes ready again, and outputs after the end; every property
holds in more runs than `Orchestrator` has. Of a status `outcome` keeps what a room can
tell of it: failed, blocked and cancelled tasks show their failures, the others do not.

Abstracted: titles and texts; a goroutine appends one event at a time (`Writers`);
`MaxEvents` bounds the log; the subject of an event that is read for itself. `posted`,
`unposted`, `skipped` and `told` exist for the properties, as do `mine` and `old` of a
request; a restart begins them anew, because what the code promises is promised within a
life of the server. A failure is judged once, by the snapshot of the projection that
lists it: `skipped` holds those it did not show. `told` holds what has been posted by
projections that have returned, and `old` what was told when a request read the mark; so
`OnlyOverlapsRepeat` says that a repeated message is always one of two projections that
overlap, and `NoRepost` that there are none, which is false (section 7).

### 3.3 Background tasks and session turns

| code | actions |
|---|---|
| SpawnAdopt; runAdopt | `SpawnAdopt`; `StoreCancel`, `ResultArrives`, `ContextEnds` |
| completeTask, its three critical sections | `Settle`, `MarkNotified`, `Report` |
| stallWatchdog | `Watch`, `MarkStalled`, `ReportStall` |
| KillForSession, Task.Cancel | `Kill`, `KillCancels` |
| the command itself | `CommandEnds` |
| Cleanup | `Cleanup` |
| TriggerBackgroundNotification | `TriggerLooks`, `TriggerEnters`, `TriggerDefers`, `TriggerDrains`, `DeliveryFails`, `DeliveryBegins`, `DeliverySteps`, `DeliveryEnds`, `TriggerLeaves` |
| Chat, StreamChat, StreamChatWS | `TurnEnters`, `TurnResolves`, `TurnSteps`, `TurnEnds`, `TurnFails` |
| TriggerHeartbeat, TriggerSchedule, handleReplyWithAgent at a step boundary | `UncountedSteps` |
| maybeTriggerDeferredBackgroundNotifications, when a turn or a delivery is released | `TurnTakes`, `TurnLooks`, `TriggerTakes`, `TriggerLooksAgain` |
| drainBackgroundNotifications at a step boundary | `StepDrains`, in every action where an agent's run takes a step |

A step is a critical section: a task's lock, the manager's and the resolver's are each
taken several times in one function. A task is `status` (Task.Status) and where its
goroutine (`runner`), its watchdog (`dog`) and a Kill under way (`killing`) stand; what
the select of runAdopt found is `verdict`, and what the command's stream has sent is
`exit`. An adopted task's command runs under a context of its own, so Kill does not end
it. A notification is a task and the status it tells. Goroutines of
TriggerBackgroundNotification are alike and are counted (`trig`); the batch the one that
delivers has drained is `held`, what was put before an agent is `heard`, and what a
failed delivery put back is remembered in `returned`. Left out: output tails, UI events,
the age after which Cleanup drops a task. The list of notifications is a set: every
reader takes all of the session's.

Not every run of the agent is a turn. Heartbeats, schedules and discuss sessions run it
without enterSessionTurn (`resolver_trigger.go:73`, `:138`, `driver.go:293`): nothing
counts them, and at their step boundaries they take the session's notifications like a
turn. That is all `UncountedSteps` is; what else they do touches no state of the module.
Conversely a turn of a bot on a CLI runtime is counted and drains nothing: such a turn
goes from `entered` to `cli` and ends.

`TaskReports` has two variables, the tasks' statuses and what the session was told of
each, and four actions: a task starts, ends, is killed, is told of. `SessionTurns`
implements it with `told` read off `heard`; a stalled notification is no report of an
end.

### 3.4 Inbound messages

`RouteStreams`. Four workers (`Workers`) run HandleInbound. A stream is named by the
message it answers; `worker[w]` says where its handler stands, and `todo` holds the
messages it will handle next: drainQueue calls HandleInbound *inside* the handler of the
stream that released them, so the innermost call's come first.

| code | actions |
|---|---|
| the handler gives a message up: no route, ACL | `Refuse` |
| its decision: IsActive, then Inject, Enqueue or a stream | `Arrive`, `Look`, `Inject`, `Enqueue` |
| opening a stream, MarkActive, the entry in activeStreams | `Open`, `OpenFails`, `Register`, `Resolve` |
| the forwarder of injected messages; the agent takes them | `Forward`, `AgentTakes` |
| the stream's end; MarkDone and drainQueue | `StreamEnds`, `MarkDone` |
| /stop: LoadAndDelete, then the cancel function | `Stop`, `Cancel`; `StopDiscuss` for a discuss session |

A refused `Inject` (the channel is full, or the route idle by now) starts a stream;
`Enqueue` does not ask again whether the route is active, and a message queued when it no
longer is waits for the next stream (`late`). A message from the queue goes through the
whole of HandleInbound once more and may be refused there. /stop holds the cancel
function it took for a moment before it calls it, and the stream may end meanwhile; a
run that was stopped, or failed, leaves its message `failed`, not `answered`
(`Outcome`). `forwarding` keeps the forwarders
of streams that have ended: nobody closes the channel they read (section 7). Left out:
texts and replies; the passive persistence of messages, which changes nothing here.

`DiscussSession`. Each worker that handles a message stamps it (`Received`), pushes it
(`PushEvent`), finds or starts the session's goroutine (`Lookup`) and sends the rendered
context (`Send`; on a full channel `DropOldest` and `Resend`). The goroutine: `Receive`,
`IdleTimeout`, `Exit`, `Load`, `ResolveFails`, and the
agent's answer, `Answered` or `NothingStored`. The pipeline only grows, so a context is
the number of events pushed before it was rendered; an event is the millisecond it was
received in, two may share one, and workers push out of that order. `stored` is the
created_at of the latest reply, by the database's clock: `Answered` leaves it anywhere
between what it was and just after now, which covers a clock that lags and one cut off
to seconds. A cold start finds `stored`, or nothing when the replies cannot be loaded.
`asked[e]` counts in how many runs of the *current goroutine* event `e` was new;
a new goroutine cannot know what the last one asked (section 7).

Left out of both: edits and deletions in a pipeline, its cold replay, rendering.

## 4. The runs

A property's run has a *mutant*: a plausible bug in one mapped definition for which TLC
reports that property violated under the same configuration (`PROJECT.json`, "mutants";
the mutated forms sit next to the definitions they mutate, marked "Mutated").

| run | instance | asks | shows |
|---|---|---|---|
| `cancel` | 2 processes, chain a -> b, no retry, one CancelRun | `TypeOK`, `DagInv`, `DependenciesRespected`, `CompletedRunIsDone`, `SucceededTaskHasOutput`, `SuccessEventsBacked`, `LegalSteps`, `PromiseKept` | two goroutines and a cancellation in every interleaving keep dependencies, completion and the tables, and implement `DagRun`; a success that is logged has an attempt behind it |
| `timeout` | 2 processes, chain, one retry of the first task, one attempt overdue | `NoOrphan`, `PromiseKept` | the provider's late answer and the poll that ended its attempt may interleave anyhow |
| `start` | 1 process, 3 tasks, empty database, one INSERT may fail | `DependenciesRespected`, `PlanIsWhole`, `PublishedPlanIsWhole`, `RunFinishes` | no run goes on with half a plan, nor StartRun, and it ends |
| `recovery` | 1 process, fork of 3 tasks, one retry each, all outcomes, a restart, a client that leaves, a cancellation, fairness | `RetryBudget`, `OneCallPerTask`, `TerminalRunIsQuiet`, `AttemptResultsKept`, `RunFinishes`, `InterruptedTasksRecovered` | through a restart and a request cut short at any statement, attempts are counted right and ended once, and an ended run leaves nothing waiting; uninterrupted runs end; an attempt a restart interrupted is found and ended |
| `retry_budget`, `orphan`, `early_reconcile`, `cancel_race` | smallest instance each | one property each | violated: section 7 |
| `background` | 1 task, 2 turns on either runtime, uncounted runs, 1 failing turn or delivery, fairness | `TypeOK`, `TerminalIsFinal`, `ReportsTruthful`, `ReportConserved`, `PendingIsWatched`, `OneDelivery`, `ReportsPromise`, `ReportsHeard` | the end of a task is decided once and told at most once and truthfully; manager and turns implement `TaskReports`; while the session has turns on the native agent every notification is heard |
| `inbound` | 2 workers; 4 messages of a chat session in any modes, or 3 of a discuss session | `TypeOK`, `EachMessageOnce`, `ActiveMeansStream`, `NothingStranded`, `StopTargetsLive`, `AskedOnce` | no message is handled twice or waits for a stream that is gone, but for late ones; a goroutine puts no event to the agent twice |
| `projector` | 1 task and its run, 2 goroutines that log, 2 requests, pages of 2, 1 failure or restart, fairness | `TypeOK`, `LogDense`, `NothingPassedOver`, `OnlyOverlapsRepeat`, `EventsReachRoom` | numbers are dense; the mark passes over nothing that should be shown, but for failures judged by an older snapshot; only overlapping projections repeat a message |
| `repost` | 1 task, 2 requests | `NoRepost` | violated: section 7 |

`MCOrchestrator` is the module of the first eight runs, `MCTurns`, `MCInbound` and
`MCProjector` of the others.

Why the bounds of the orchestrator's runs are enough for what is asked. Two processes
are what a race on one row needs: every hazard listed is between two writers, or between
a reader and one writer. A chain of two tasks has a dependent whose parent may fail, be
retried, be cancelled or succeed. Two goroutines with two tasks, a retry and a
cancellation at once is beyond minutes of checking, so `cancel` has no retry and
`timeout` no cancellation; their combination is covered by the proofs. In `recovery`, two
tasks of different agents are attempted, fail and are retried side by side, while the
third waits for one and for the other's agent. `MaxAttempts` is above what the retry
budget allows in every run that checks it (4 against 2), so it is the code and not the
bound that stops. In `timeout` it is 2, the two attempts whose answers race; a third, which
the race can ask for, is left to `retry_budget`, and the process that would create it
waits at the bound.

Deadlock is checked, except in `timeout`, where both processes may stand at the bound
`MaxAttempts`, and in violation runs, which stop at their counterexample.

*With two processes*, or once an attempt is overdue, some of these properties fail, and
`recovery` checks them where they hold. Two reconciles may dispatch the same ready task
twice (the second finds the row already `running`, which counts as updated), so
`OneCallPerTask` and `RetryBudget` fail; `TerminalRunIsQuiet` fails when a retry's
`failed` is seen by the reconcile that then fails the run. No proof is given for these
three: nothing in the code keeps handlers apart, so what they say of one handler at a
time is how far counting and recovery are right, no more. `SucceededTaskHasOutput`,
`SuccessEventsBacked` and `AttemptResultsKept` hold for any number of goroutines until
an attempt is overdue, and so are proved: CompleteAttempt overwrites whatever the row
says, so a late timeout can erase a success.

Bounds of the other passing runs; in all of them deadlock is checked.

- `background`: a task has four actors of its own (goroutine, watchdog, Kill, command)
  and two notifications at most. Two turns are what it takes for one to end while
  another goes on, and a delivery is a third. Triggers are counted, not bounded: every
  notification starts one. `MaxFaults` is 1: one batch put back. One task suffices
  because tasks meet only in the list of notifications, whose members are taken
  together; a second would double the batch and nothing else. A turn may be taken again
  any number of times, on either kind of runtime. 308,334 distinct states, 2.5 minutes.
- `inbound`: with two workers and a stream that runs on one of them, the other can meet
  it at every point; with four messages one can be streaming, one injected, one queued
  and one on its way. `InjectCap` is 1, so that the third message finds the channel full
  (16 in the code). In a discuss session `MaxSessions` 2 gives one idle exit and one
  cold start, `RcCap` 1 a full channel (16 in the code), `MaxEvents` 3 an event before,
  during and after.
- `projector`: two requests are an overlap, and two goroutines a conflict. `ListLimit` 2
  lets a page end between any two events (200 in the code). The code tries AppendEvent
  three times; `MaxTries` is 2 here: a second failure is what reaches the branch that
  gives up. `MaxEvents` 3 is the plan's event and two more, which are an output and the
  success that repeats it, two failures, or a failure and the retry after it. About
  three minutes; more events are beyond the time, and the theorems have no such bound.

## 5. Fairness

**Orchestrator.** `Fairness` has three parts.

- `WF(Proceed(p))`: a goroutine inside the service runs on; statements return.
- `SF(ExecutorReturns)`: while providers are at work one of them returns. executeAttempt
  calls them under `context.WithTimeout` (`O/service.go:404`).
- `SF(Poll)`: the room's page polls while it is open.

The last two are strong only because `Procs` bounds how many goroutines are in the
service at once and a modelled handler may have to wait for a free one, which the real
one does not. Nothing is assumed of StartRun, CancelRun, crashes, aborts or of time:
liveness without them is what the code must provide. `RunFinishes` asks only for runs
that no restart and no aborted request interrupts; the unrestricted `EveryRunFinishes`
fails (section 7).

**Session turns.** Weak fairness of the goroutines' own steps: runAdopt, the watchdog,
triggers, and turns under way, which end. A command need not end by itself:
`ContextEnds` is fair because runAdopt's context has a timeout
(`BackgroundExecTimeout`). A turn that resolves takes a step. Nothing is assumed of
Kill, of Cleanup, or of a user who starts a turn. That is why `ReportsHeard` is
conditional: if the session again and again has a turn, and from some time on none on a
CLI runtime, every notification is heard. Nothing is assumed of the uncounted runs, which
may take a notification and need not. Without the condition it fails: the deferred flag
may be set after the turn that would have taken it has ended, and a batch put back wakes
nobody (section 7).

**Projector.** Weak fairness of "some projection under way takes a step" and of "some
request begins" as long as the run is not over: the page polls every 1.5 s until it sees
that it is (`apps/web/src/pages/agent-hub/index.vue:1976-2007`). `EventsReachRoom`
therefore says: again and again the mark is at the end of the log, or the run is over.
That the last events reach the room after the end is not promised by the code (section
7).

**Inbound.** No liveness is claimed: a stream ends when its model and its tools let it.

## 6. The proofs

`tlapm` checks every proof to the last leaf.

**Orchestrator, any number of goroutines** (`OrchestratorTypeProofs`,
`OrchestratorProofs`). The assumptions are
the named ones in `Orchestrator.tla`: `TasksAssumption` (tasks are a finite, non-empty
set, the dependencies a relation on it, `NoTask` is none of them), `PlanAssumption`,
`ConfigAssumption`, `BoundsAssumption` (types of the constants). Nothing is assumed of
`Procs`: the theorems are for any number of goroutines.

- `TypesKept`: `Spec => []TypeOK` and `PlannedSpec => []TypeOK`. `TypeOK` alone is not
  inductive: a process writes `to` and indexes by `task`, so `TypeInv` adds what these
  locals are at the control points that use them (`LocalsMeaningful`).
- `DagInvariant`: `PlannedSpec => []DagInv`. The argument: **`succeeded` is the only
  status that no transition leaves**. A list that shows a task succeeded can therefore
  not be out of date, however long ago it was read, and "all parents of t have
  succeeded", concluded from it, stays true. `DagInv` says so at every place that
  carries such a conclusion: in the rows (`RowsSound`: ready, running, succeeded and
  failed tasks, attempts, waiting calls) and in every process's locals (`LocalsSound`:
  the list, the tasks it will release or dispatch, the task it is updating, a run it is
  about to complete). `LocalsConsistent` ties control points to call sites; without it a
  step could reach `UpdateTaskStatus` with arguments of another caller. The other
  statuses have no such property: `blocked` and `failed` are left again, which is why
  blocking a task and failing a run are guarded by nothing in `DagRun`.
- `DependenciesKept`, `CompletedOnlyWhenDone`: `[]DependenciesRespected` and
  `[]CompletedRunIsDone` follow from `DagInv`.
- `PromiseIsKept`: `PlannedSpec => PromiseKept`: every step is a step of `DagRun` or
  leaves its variables alone; the refinement mapping is the identity on the two status
  variables, and the guards of `DagRun` come from `DagInv`.
- `LegalStepsKept`: `PlannedSpec => LegalSteps`: both compare-and-sets write only what
  the table allows from the status they compared with.

**Orchestrator, as long as certain faults do not happen** (`OrchestratorStepProofs`,
`OrchestratorFaultProofs`; any number of goroutines). What follows is false without its
condition, as the violation runs show; the condition is a state predicate, so each
theorem says how long the property lasts: up to the first fault of the named kind.

- `CallInvariant`: `[]CallInv`, under both specifications and every fault. It says who
  calls UpdateTaskStatus and UpdateRunStatus with what (`Arguments`), and that the
  number of an attempt row, of one a goroutine has listed and of one it is about to
  insert is at most what its task has counted (`AttemptsNumbered`). So an insert that
  finds its number taken, the orchestrator's `AttemptExists`, is never ahead of the
  count. The other invariants rest on it.
- `NoOrphanUndisturbed`: `[](Undisturbed => NoOrphan)`, where `Undisturbed` says that no
  restart and no aborted request has happened. `NoOrphan` speaks of moments with nobody
  inside the service; `TasksOwned` of all of them: a running task has a running attempt,
  or some process has it in hand (`InHand`): it has yet to insert the attempt, or to
  record the end of the one it completed. Two processes may have the same task in hand,
  and a third may time out the attempt that one of them has just inserted; what saves
  the invariant is that whoever takes the last attempt away goes on to the task.
- `OutputsKeptOnTime`: `[](overdue = {} => SucceededTaskHasOutput)`. CompleteAttempt
  overwrites whatever the row says, so the invariant (`OutputsSound`) must know whose
  row it can be: an attempt with a provider at work is running and was not left by an
  earlier process; one that was is running or timed out. Hence failTimedOutTasks, while
  nothing is overdue, and the goroutine of a provider never meet on a row.
- `SuccessesBacked`: `[]SuccessEventsBacked`, from the same invariant. A task_succeeded
  event is appended also when the update was lost to a cancellation, or made by somebody
  else; but a goroutine that asks for `succeeded` carries a completed attempt, whose row
  nobody overwrites while nothing is overdue.
- `AttemptResultsFinal`: `AttemptResultsKept`, an action property, again by `OutputInv`:
  whoever calls CompleteAttempt finds the attempt running, or timed out by another poll that
  writes the same.
- `PlanStoredWhole`: `[]PublishedPlanIsWhole`, under both specifications, any number of
  goroutines and every fault: a StartRun that has gone past CreateTasks has its whole
  plan in the database. `PlanInv` adds that while it inserts, every task it has not yet
  to insert has its row. Other goroutines may meanwhile move the planning run on, attempt
  its tasks (`early_reconcile`) and even end it; no row is deleted by that.
  `PlanKeptWhole`: under `PlannedSpec`, `PlanIsWhole` holds always.

**Event log and projector** (`ProjectorProofs`; `LogAssumption`, `ProjectorAssumption`:
types of the constants, `Run` is not a task).

- `LogIsDense`: numbers are 1, 2, 3, ... Rows never go away, so a number some call read
  as MAX(seq) + 1 is, however long ago, at most one above the maximum (`CallsSound`);
  and the insert takes only a free number, of which there is then just one.
- `MarkPassesNothing`, `RepeatsOverlap`: `ProjectorInv` says of each request what it may
  rely on at its control point (`PageSound`): once its messages are posted, all of the
  log up to its last row is settled. This is where `LogDense` is needed, since an event
  inserted below a page that was already read would be passed over. `MarkSound` says the
  same of the mark. `RepeatSound` and `ToldSound`: what had been told when a request read
  the mark lies at or below that mark, and so below what the request lists. Neither
  depends on what the run does: nothing is assumed of statuses at all.

**Background tasks and session turns** (`SessionTurnsProofs`; `FaultsAssumption`).

- `TypeCorrect`: needs that a goroutine past its select has a verdict.
- `TerminalStatusFinal`, `ReportsAreTruthful`, `ReportsAreConserved`,
  `ImplementsTaskReports`: from `ReportInv`. `RunnerSound` ties a task's status to where
  its goroutine stands and to its `notified` flag: between `Settle` and `Report` the
  verdict is the status, and stays so because Kill refuses a task that is not running.
  `NotesSound` says that a report of an end exists only for a task that is marked
  notified and whose goroutine is done, so that it makes no second one; `NotesApart`
  that the list, the batch and what was heard have none in common.
- `DeliveriesNeverOverlap`: from `DeliveryInv`: the reference count is the number of
  turns and deliveries under way, so a delivery enters only an idle session.
- `PendingAreWatched`: whoever leaves last looks for the flag.

**Inbound** (`InboundProofs`; `RouteAssumption`, `DiscussAssumption`).

- `ActiveHasStream`, `NothingIsStranded`, `StopFindsLiveStream`: from `RouteInv`, for
  any number of workers. The active flag is set only by a stream and every stream passes
  through MarkDone, so some stream is in flight while it is set; the entry /stop finds
  belongs to a stream between its registration and its end.
- `EventsAskedOnce`: from `DiscussInv`. `ClockSound`: no event is ahead of the clock, no
  context longer than the pipeline. `AskedSound`: what a goroutine has asked is in the
  run under way, or lies at or below its cursor, which moves past a context whether or
  not its reply was stored.
- `MessagesKeptOnce`: `[]EachMessageOnce`. `OnceInv` looks at holders before it looks at
  positions: a message has one holder at most (a worker, the queue, the channel, a
  forwarder's box, its fate), and one exactly once it has come (`OneHolder`); no holder
  has it twice (`NoRepeats`, `InOrder`). Every action passes what one holder has of a
  message to one other (`Passes`) or leaves it alone, and MarkDone, which moves two
  holders' messages at once, can put the queue before what the handler had left to do
  because the two have nothing in common. What is counted is then one position of one
  sequence (`OnePlace`).

**Only model-checked.** Liveness (`RunFinishes`, `InterruptedTasksRecovered`,
`ReportsHeard`, `EventsReachRoom`): fairness is out of the prover's reach. Every safety
and action property of the passing runs is stated by a theorem, but three, some under a
condition that the run meets by its bounds: `NoOrphan` in `timeout` has no restart and
no abort, `SucceededTaskHasOutput` in `cancel` no overdue attempt. The three are
`RetryBudget`, `OneCallPerTask` and `TerminalRunIsQuiet`, which hold of one handler at a
time only (section 4). `DependenciesRespected` and `PlanIsWhole` are proved from
`PlannedSpec`; that an undisturbed StartRun leads to such a state is what `start`
checks.

## 7. Where code and documentation part

Each is a run TLC finds violated, listed under "findings" with the quoted line.

- `retry_budget`: with `MaxRetries` 1 a task is attempted three times. The poll ends
  attempt 1 by its timeout and retries; the provider of attempt 1 returns while attempt
  2 is running and, with its old AttemptCount, fails and retries the task again.
- `orphan`: a restart between marking a task running and creating its attempt leaves a
  running task that failTimedOutTasks skips; the run never ends. A client that
  disconnects at the same place (the handlers use the request's context) has the same
  effect, and so has one that disconnects in failTimedOutTasks between completing the
  attempt and updating the task.
- `early_reconcile`: a run that is still planning is reconciled like any other; a task
  whose dependency row is not stored yet is attempted.
- `cancel_race`: CancelRun lists the tasks while a retry is between `failed` and
  `ready`; the run is cancelled with that task ready for ever.
- `repost`: `internal/agenthub/orchestrator_projector.go:16` ("It is idempotent") and
  `orchestrator_service.go:36` ("correct within a process lifetime") hold only if
  projections do not overlap. They do: the page's timer does not wait for its last
  request, and two pages may be open. Both requests read the same mark and post the same
  events.

Other disagreements, met while modelling. The models behave as the code does, and their
properties are stated so that they hold of it: the exceptions each property names
(`late`, `returned`, `skipped`, `unposted`, an overlap, a new goroutine) are these.

*Orchestrator.*

- The limits on parallel tasks are computed from the statuses in one list, and providers
  at work may exceed them: two handlers dispatch from two lists; an attempt ended by its
  timeout leaves its provider at work; so does a CancelRun whose client goes away before
  the run is cancelled.
- A task_succeeded event is appended also when the update was lost to a cancellation, and
  a task_failed of a final failure may be followed by a retry that an older goroutine
  still grants. A late timeout overwrites the row of an attempt that has succeeded
  (`O/sql_store.go:640`).

*Projector.*

- `orchestrator_projector.go:21-22` says dispatch is synchronous;
  `orchestrator_service.go:146` turns DispatchAsync on. Results are therefore projected
  only when a page polls; a run nobody watches says nothing in its room, and CancelRun
  does not project.
- The page stops polling when it sees a terminal status; the run's last events may be
  appended after the page listed them, or more than 200 may be left. The result then
  never reaches the room (against `orchestrator_projector.go:14-16`).
- After a restart a run is projected from its start again.
  `orchestrator_service.go:38-42` calls this unreachable; the page's own poll (lines
  230-241) reaches it.
- Whether a failure is final is judged by a snapshot older than the events, and by the
  status a late attempt may have changed once more: a final one may be skipped for good,
  and one that a retry follows may be shown as final (against
  `orchestrator_projector.go:204-206`). A message that cannot be created is skipped, and
  the mark passes it. A success repeats its output's text when the two fall into
  different pages. 1000 events are asked of a list that returns at most 200.

*Background tasks and session turns.*

- `internal/agent/tools/container.go:736` and `:787` promise "You will be notified when
  it completes". The deferred flag may be set after the turn that would have taken it
  has left; the notification then waits for the next turn of the session, whenever that
  is. A batch put back by a failed delivery wakes nobody either, and what a turn drained
  before it failed is not put back.
- Kill does not stop an adopted task's command, whose context is its own, and a Kill
  before runAdopt has stored the cancel function cancels nothing. A stalled notification
  may come after the task's end.

*Inbound.*

- `internal/channel/inbound/dispatcher.go:24-27` and `channel.go:626-628`: an injected
  message is put before the running agent. The goroutine that forwards it
  (`internal/conversation/flow/resolver.go:421`) ends only when the route's channel is
  closed, which nobody does: those of earlier streams go on reading, and a message one
  of them takes is lost. So is one injected and not yet read when MarkDone drains the
  channel.
- `channel.go:3216-3217`: /stop "cancels any active agent stream". Two messages that
  arrive together both find the route idle and open a stream each; the second overwrites
  the first's cancel function, and the first MarkDone makes the route idle while the
  other stream runs. With all workers streaming, /stop itself waits.
- `channel.go:420-422` strips the prefix of a /next or /now message; line 584 puts the
  text back.
- `internal/pipeline/driver.go:233-239`: what a prior call has seen "should not retrigger
  a reply" after an idle exit. The anchor is created_at of the latest reply's row
  (`turn_response.go:41`), which the database's clock sets, on SQLite in whole seconds
  (`db/sqlite/migrations/0001_init.up.sql:523`): an event received at 10.100 s and
  answered at 10.900 s is later than its reply's 10 s, and is asked again. Nor is there
  an anchor if the reply could not be stored or the replies cannot be loaded.
- `driver.go:319-322` says messages that arrive while a reply is generated are new in the
  next round. After an idle exit those that came before the reply was stored count as
  seen, and are never answered.
- Two rendered contexts may be sent in the other order, and the older one then counts; a
  context sent while the goroutine exits is lost; a full channel may drop the newest; a
  round whose configuration cannot be resolved is given up.

*Planner.* `internal/agenthub/llm_planner.go:208-209` promises a plan that always
validates, but renaming a duplicate key may collide with a later one.

## 8. What is not modelled

- The orchestrator's synchronous mode (`DispatchAsync` off), which only tests use, and
  the memory store, whose mutex makes each call atomic and which only tests use.
- GetSnapshot and ListEvents of the orchestrator, which change nothing; resolution of a
  provider for a task, which always finds the registered fallback.
- Database errors other than a failed INSERT of the plan, of an event or of a message. A
  statement that fails stops its handler there, which is what `Abort` does.
- Several runs: they share no row, and limits are per run. Several routes and sessions:
  they share the workers and nothing else.
- Code that nothing in the server calls: Spawn of the background manager,
  AddPendingPersist and Cleanup of the dispatcher, StopSession and StopAll of the
  driver.
- Output and UI events of background tasks; the chunk handler that a task's stream is
  given late.
- Edits, deletions and cold replay of a pipeline: operations on data that the driver's
  cursor does not look at.
- The planners and tool approvals (section 9).
- The components marked not_modelled in `PROJECT.json`, each with its reason. Most of
  the repository is of that kind: generated database code, adapters of some twenty chat
  platforms, handlers that decode and authorise requests, CRUD over generated queries,
  calls to models and containers, pages. They keep no state across calls that two actors
  could disagree about, or it is external.

## 9. The plan

Done: the orchestrator; `EventLog` and `Projector`; `BackgroundTasks`, `SessionTurns`
and `TaskReports`; `RouteStreams`, `DiscussSession` and `Inbound`; their proofs.

Left, in this order:

1. **More proofs**: `DependenciesRespected` from the empty database for an undisturbed
   StartRun, by an invariant that ends in `DagInv`; what is left of `RetryBudget` for any
   number of goroutines (how many attempts late answers and double dispatches can add).
2. **`PlanChecks`**: validatePlan, the key renaming and dependency cleaning of the
   planners as operators, checked against reference definitions (unique keys, acyclic)
   over all small plans; `Orchestrator`'s `Deps` are its outputs. Depth-first search
   recursive, in a module without theorems.
3. **`ToolApproval`**: one decision per request by conditional UPDATE, and the waiter
   that polls for it.
4. **A liveness property of `Inbound`** for messages that are not late, under streams
   that end.

