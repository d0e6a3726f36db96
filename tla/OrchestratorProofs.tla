-------------------------- MODULE OrchestratorProofs --------------------------
(***************************************************************************)
(* The dependencies of a planned run are respected, its statuses follow    *)
(* their tables, and it completes only when its tasks have succeeded, for  *)
(* every plan and every interleaving.  All three rest on DagInv.           *)
(***************************************************************************)
EXTENDS OrchestratorTypeProofs

Sound(l, stat) == LocalsConsistent(l) /\ LocalsSound(l, stat)

\* The caller of UpdateTaskStatus(l.task, l.to).
Updating(l, stat) ==
    /\ l.task \in Tasks
    /\ l.site = "cancel" => l.op = "cancel"
    /\ l.op = "cancel" => l.site \in {"none", "cancel"} /\ l.to = "cancelled"
    /\ l.block \subseteq l.todo
    /\ l.site # "mark" => l.block = {}
    /\ l.pc \notin {"readRun", "casRun"}
    /\ LocalsSound(l, stat)

\* One succeeded task more invalidates nothing.
LEMMA SoundStable ==
    ASSUME NEW l \in Local, NEW s1, NEW s2,
           \A t \in Tasks : s1[t] = "succeeded" => s2[t] = "succeeded",
           LocalsSound(l, s1)
    PROVE  LocalsSound(l, s2)
<1>1. \A t \in Tasks : Parents(t) \subseteq Tasks
  BY TasksAssumption DEF Parents, ParentsIn
<1>2. \A t \in Tasks : ParentsDone(t, s1) => ParentsDone(t, s2)
  BY <1>1 DEF ParentsDone
<1>3. l.todo \subseteq Tasks /\ l.task \in Tasks \cup {NoTask}
  BY DEF Local
<1>4. QED
  BY <1>2, <1>3 DEF LocalsSound

\* A process that has just entered a function relies on nothing.
LEMMA FreshSound ==
    ASSUME NEW stat, NEW l,
           l.pc \notin UpdatingTask \cup {"createTasks", "cancelList", "cancel", "casRun"},
           l.op # "cancel", l.site = "none", l.task = NoTask, l.todo = {}, l.block = {},
           l.pc = "readRun" => l.to # "completed",
           \A t \in Tasks : l.seen[t] # "succeeded"
    PROVE  Sound(l, stat)
  BY DEF Sound, LocalsConsistent, LocalsSound, UpdatingTask

\* What a goroutine starts with.
LEMMA IdleFacts ==
    /\ Idle \in Local
    /\ Idle.pc = "idle" /\ Idle.op = "none" /\ Idle.site = "none" /\ Idle.task = NoTask
    /\ Idle.todo = {} /\ Idle.block = {} /\ Idle.to = "absent"
    /\ \A t \in Tasks : Idle.seen[t] = "absent"
  BY IdleType DEF Idle, Typed

\* A goroutine that has returned relies on nothing.
LEMMA IdleSound ==
    ASSUME NEW stat
    PROVE  Sound(Idle, stat)
  BY IdleFacts, FreshSound DEF UpdatingTask

\* Clear forgets the arguments of one UpdateTaskStatus and nothing else.
LEMMA ClearFacts ==
    ASSUME NEW l \in Local
    PROVE  /\ Clear(l) \in Local
           /\ Clear(l).pc = l.pc /\ Clear(l).op = l.op /\ Clear(l).site = "none"
           /\ Clear(l).task = NoTask /\ Clear(l).to = "absent"
           /\ Clear(l).todo = l.todo /\ Clear(l).block = l.block /\ Clear(l).seen = l.seen
<1>1. Clear(l) \in Local
  BY ClearType
<1>2. /\ Clear(l).pc = l.pc /\ Clear(l).op = l.op /\ Clear(l).site = "none"
      /\ Clear(l).task = NoTask /\ Clear(l).to = "absent"
  BY DEF Clear, Local
<1>3. Clear(l).todo = l.todo /\ Clear(l).block = l.block /\ Clear(l).seen = l.seen
  BY DEF Clear, Local
<1>4. QED
  BY <1>1, <1>2, <1>3

\* The dispatch loop goes on with ready tasks.
LEMMA DispatchingSound ==
    ASSUME NEW stat, NEW l \in Local, l.op # "cancel", l.site = "none", l.task = NoTask,
           l.block = {}, LocalsSound(l, stat)
    PROVE  Sound(Dispatching(l), stat)
<1>1. Sound([l EXCEPT !.pc = "dispatch"], stat)
  BY DEF Sound, LocalsConsistent, LocalsSound, UpdatingTask, Local
<1>2. QED
  BY <1>1, IdleSound DEF Dispatching

\* completeTaskAttempt returns to its caller.
LEMMA AfterCompleteSound ==
    ASSUME NEW stat, NEW l \in Local, Updating(l, stat), l.site \in {"complete", "retry"}
    PROVE  Sound(AfterComplete(l), stat)
<1>1. Sound([Idle EXCEPT !.pc = "getRun", !.op = "reconcile"], stat)
  <2> DEFINE m(k) == [k EXCEPT !.pc = "getRun", !.op = "reconcile"]
  <2>1. \A k \in Local : /\ m(k).pc = "getRun" /\ m(k).op = "reconcile"
                         /\ m(k).todo = k.todo /\ m(k).block = k.block /\ m(k).seen = k.seen
                         /\ m(k).site = k.site /\ m(k).task = k.task
    BY DEF Local
  <2>2. QED
    BY <2>1, IdleFacts, FreshSound DEF UpdatingTask
<1>2. Sound([Clear(l) EXCEPT !.pc = "timeouts"], stat)
  <2>1. \A k \in Local : /\ [k EXCEPT !.pc = "timeouts"].pc = "timeouts"
                         /\ [k EXCEPT !.pc = "timeouts"].op = k.op
                         /\ [k EXCEPT !.pc = "timeouts"].todo = k.todo
                         /\ [k EXCEPT !.pc = "timeouts"].block = k.block
                         /\ [k EXCEPT !.pc = "timeouts"].seen = k.seen
                         /\ [k EXCEPT !.pc = "timeouts"].site = k.site
                         /\ [k EXCEPT !.pc = "timeouts"].task = k.task
    BY DEF Local
  <2>2. QED
    BY <2>1, ClearFacts DEF Updating, Sound, LocalsConsistent, LocalsSound, UpdatingTask
<1>3. QED
  BY <1>1, <1>2 DEF AfterComplete

\* Where a process goes on after UpdateTaskStatus ...
LEMMA TaskUpdatedSound ==
    ASSUME NEW stat, NEW l \in Local, Updating(l, stat)
    PROVE  Sound(TaskUpdated(l), stat)
<1>1. CASE l.site = "mark"
  <2>1. \A k \in Local : LET m == [k EXCEPT !.pc = "mark"] IN
          /\ m.pc = "mark" /\ m.op = k.op /\ m.todo = k.todo /\ m.block = k.block
          /\ m.seen = k.seen /\ m.site = k.site /\ m.task = k.task
    BY DEF Local
  <2>2. Sound([Clear(l) EXCEPT !.pc = "mark"], stat)
    BY <1>1, <2>1, ClearFacts DEF Updating, Sound, LocalsConsistent, LocalsSound, UpdatingTask
  <2>3. QED
    BY <1>1, <2>2 DEF TaskUpdated
<1>2. CASE l.site = "dispatch"
  <2>1. Sound([l EXCEPT !.pc = "increment"], stat)
    BY <1>2 DEF Updating, Sound, LocalsConsistent, LocalsSound, UpdatingTask, Local
  <2>2. QED
    BY <1>2, <2>1 DEF TaskUpdated
<1>3. CASE l.site = "complete"
  <2> DEFINE m == [l EXCEPT !.pc = "readTask", !.to = "ready", !.old = "absent", !.site = "retry"]
  <2>1. /\ m.pc = "readTask" /\ m.op = l.op /\ m.todo = l.todo /\ m.block = l.block
        /\ m.seen = l.seen /\ m.site = "retry" /\ m.task = l.task /\ m.to = "ready"
    BY DEF Local
  <2>2. Sound(m, stat)
    BY <1>3, <2>1 DEF Updating, Sound, LocalsConsistent, LocalsSound, UpdatingTask
  <2>3. QED
    BY <1>3, <2>2, AfterCompleteSound DEF TaskUpdated
<1>4. CASE l.site = "retry"
  BY <1>4, AfterCompleteSound DEF TaskUpdated
<1>5. CASE l.site = "cancel"
  <2>1. \A k \in Local : LET m == [k EXCEPT !.pc = "readRun", !.to = "cancelled"] IN
          /\ m.pc = "readRun" /\ m.op = k.op /\ m.todo = k.todo /\ m.block = k.block
          /\ m.seen = k.seen /\ m.site = k.site /\ m.task = k.task /\ m.to = "cancelled"
    BY DEF Local
  <2>2. Sound([Clear(l) EXCEPT !.pc = "readRun", !.to = "cancelled"], stat)
    BY <1>5, <2>1, ClearFacts DEF Updating, Sound, LocalsConsistent, LocalsSound, UpdatingTask
  <2>3. \A k \in Local : LET m == [k EXCEPT !.pc = "cancel"] IN
          /\ m.pc = "cancel" /\ m.op = k.op /\ m.todo = k.todo /\ m.block = k.block
          /\ m.seen = k.seen /\ m.site = k.site /\ m.task = k.task
    BY DEF Local
  <2>4. Sound([Clear(l) EXCEPT !.pc = "cancel"], stat)
    BY <1>5, <2>3, ClearFacts DEF Updating, Sound, LocalsConsistent, LocalsSound, UpdatingTask
  <2>5. QED
    BY <1>5, <2>2, <2>4 DEF TaskUpdated
<1>6. CASE l.site = "none"
  BY <1>6, IdleSound DEF TaskUpdated
<1>7. QED
  BY <1>1, <1>2, <1>3, <1>4, <1>5, <1>6 DEF Local

\* ... and after its refusal.
LEMMA TaskRefusedSound ==
    ASSUME NEW stat, NEW l \in Local, Updating(l, stat)
    PROVE  Sound(TaskRefused(l), stat)
<1>1. CASE l.site = "dispatch"
  <2>1. LocalsSound(Clear(l), stat)
    BY <1>1, ClearFacts DEF Updating, LocalsSound
  <2>2. Sound(Dispatching(Clear(l)), stat)
    BY <1>1, <2>1, ClearFacts, DispatchingSound DEF Updating
  <2>3. QED
    BY <1>1, <2>2 DEF TaskRefused
<1>2. CASE l.site \in {"complete", "retry"} /\ l.op = "exec"
  BY <1>2, AfterCompleteSound DEF TaskRefused
<1>3. QED
  BY <1>1, <1>2, IdleSound DEF TaskRefused

\* Where a process goes on after UpdateRunStatus, or instead of it.
LEMMA RunUpdatedSound ==
    ASSUME NEW stat, NEW l, NEW cur
    PROVE  Sound(RunUpdated(l, cur), stat)
<1> DEFINE marking(k) == [k EXCEPT !.pc = "listForMark", !.op = "start", !.http = l.http]
           dispatching(k) == [k EXCEPT !.pc = "listForDispatch", !.op = "reconcile", !.http = l.http]
<1>1. \A k \in Local :
        /\ marking(k).pc = "listForMark" /\ marking(k).op = "start"
        /\ marking(k).todo = k.todo /\ marking(k).block = k.block
        /\ marking(k).seen = k.seen /\ marking(k).site = k.site /\ marking(k).task = k.task
  BY DEF Local
<1>2. \A k \in Local :
        /\ dispatching(k).pc = "listForDispatch" /\ dispatching(k).op = "reconcile"
        /\ dispatching(k).todo = k.todo /\ dispatching(k).block = k.block
        /\ dispatching(k).seen = k.seen /\ dispatching(k).site = k.site
        /\ dispatching(k).task = k.task
  BY DEF Local
<1>3. Sound(marking(Idle), stat)
  BY <1>1, IdleFacts, FreshSound DEF UpdatingTask
<1>4. Sound(dispatching(Idle), stat)
  BY <1>2, IdleFacts, FreshSound DEF UpdatingTask
<1>5. QED
  BY <1>3, <1>4, IdleSound DEF RunUpdated

\* A run is moved to completed only by a caller that knows its tasks succeeded.
LEMMA TransitionSound ==
    ASSUME NEW stat, NEW l \in Local, NEW to, l.site = "none", l.task = NoTask, l.block = {},
           LocalsSound(l, stat), to = "completed" => \A t \in Tasks : stat[t] = "succeeded"
    PROVE  Sound(Transition(l, to), stat)
<1> DEFINE m == [l EXCEPT !.pc = "readRun", !.to = to]
<1>1. /\ m.pc = "readRun" /\ m.op = l.op /\ m.todo = l.todo /\ m.block = l.block
      /\ m.seen = l.seen /\ m.site = l.site /\ m.task = l.task /\ m.to = to
  BY DEF Local
<1>2. Sound(m, stat)
  BY <1>1 DEF Sound, LocalsConsistent, LocalsSound, UpdatingTask
<1>3. QED
  BY <1>2, RunUpdatedSound, IdleSound DEF Transition
-----------------------------------------------------------------------------
(***************************************************************************)
(* The actions                                                             *)
(***************************************************************************)
\* A step of one process that leaves the statuses alone.
LEMMA StepSound ==
    ASSUME DagInv, TypeInv', RowsSound', status' = status,
           NEW p \in Procs, NEW l, Become(p, l), Sound(l, status)
    PROVE  DagInv'
<1>1. \A q \in Procs : Sound(loc'[q], status)
  BY DEF Become, DagInv, TypeInv, TypeOK, Sound
<1>2. QED
  BY <1>1 DEF DagInv, Sound

\* A step that writes none of the rows it speaks of leaves RowsSound alone.
LEMMA RowsKept ==
    ASSUME RowsSound, UNCHANGED <<runStatus, status, depRows, attempt>>, calls' \subseteq calls
    PROVE  RowsSound'
  BY DEF RowsSound, CompletedRunIsDone

\* What DagInv says of one process.
LEMMA ProcessFacts ==
    ASSUME DagInv, NEW p \in Procs
    PROVE  /\ loc[p] \in Local /\ LocalsMeaningful(loc[p])
           /\ LocalsConsistent(loc[p]) /\ LocalsSound(loc[p], status)
           /\ RowsSound
  BY DEF DagInv, TypeInv, TypeOK

\* Reading the row in UpdateTaskStatus.
LEMMA ReadTaskSound ==
    ASSUME DagInv, TypeInv', NEW p \in Procs, NEW l \in Local, Updating(l, status),
           ReadTask(p, l), UNCHANGED <<runStatus, status, depRows, attempt, calls>>
    PROVE  DagInv'
<1>0. RowsSound'
  BY RowsKept DEF DagInv
<1>1. CASE Become(p, TaskRefused(l))
  BY <1>0, <1>1, TaskRefusedSound, StepSound
<1>2. CASE Become(p, TaskUpdated(l))
  BY <1>0, <1>2, TaskUpdatedSound, StepSound
<1>3. CASE Become(p, [l EXCEPT !.pc = "casTask", !.old = status[l.task]])
  <2> DEFINE m == [l EXCEPT !.pc = "casTask", !.old = status[l.task]]
  <2>1. /\ m.pc = "casTask" /\ m.op = l.op /\ m.todo = l.todo /\ m.block = l.block
        /\ m.seen = l.seen /\ m.site = l.site /\ m.task = l.task /\ m.to = l.to
    BY DEF Local
  <2>2. Sound(m, status)
    BY <2>1 DEF Updating, Sound, LocalsConsistent, LocalsSound, UpdatingTask
  <2>3. QED
    BY <1>0, <1>3, <2>2, StepSound
<1>4. QED
  BY <1>1, <1>2, <1>3 DEF ReadTask

\* The four callers of UpdateTaskStatus.
LEMMA UpdateSound ==
    ASSUME DagInv, TypeInv', NEW p \in Procs,
           Mark(p) \/ Dispatch(p) \/ UpdateCompleted(p) \/ CancelTask(p)
    PROVE  DagInv'
<1> DEFINE l == loc[p]
<1>0. /\ l \in Local /\ LocalsMeaningful(l) /\ LocalsConsistent(l) /\ LocalsSound(l, status)
      /\ NoTask \notin Tasks
  BY ProcessFacts, TasksAssumption
<1>1. UNCHANGED <<runStatus, status, depRows, attempt, calls>>
  BY DEF Mark, Dispatch, UpdateCompleted, CancelTask, env
<1>2. \E m \in Local : Updating(m, status) /\ ReadTask(p, m)
  <2>1. CASE Mark(p)
    <3> DEFINE m(t) == [l EXCEPT !.task = t, !.site = "mark", !.todo = @ \ {t}, !.block = @ \ {t},
                                 !.to = IF t \in l.block THEN "blocked" ELSE "ready"]
    <3>1. PICK t \in l.todo : ReadTask(p, m(t))
      BY <2>1 DEF Mark
    <3>2. /\ m(t) \in Local /\ t \in Tasks
          /\ m(t).pc = "mark" /\ m(t).op = l.op /\ m(t).todo = l.todo \ {t}
          /\ m(t).block = l.block \ {t} /\ m(t).seen = l.seen /\ m(t).site = "mark"
          /\ m(t).task = t /\ m(t).to = (IF t \in l.block THEN "blocked" ELSE "ready")
      BY <1>0, <2>1 DEF Local, TaskStatus, Mark
    <3>3. Updating(m(t), status)
      BY <1>0, <3>2 DEF Updating, LocalsConsistent, LocalsSound
    <3>4. QED
      BY <3>1, <3>2, <3>3
  <2>2. CASE Dispatch(p)
    <3> DEFINE m(t) == [l EXCEPT !.task = t, !.to = "running", !.site = "dispatch", !.todo = @ \ {t}]
    <3>1. PICK t \in l.todo : ReadTask(p, m(t))
      BY <2>2 DEF Dispatch, Dispatchable
    <3>2. /\ m(t) \in Local /\ t \in Tasks
          /\ m(t).pc = "dispatch" /\ m(t).op = l.op /\ m(t).todo = l.todo \ {t}
          /\ m(t).block = l.block /\ m(t).seen = l.seen /\ m(t).site = "dispatch"
          /\ m(t).task = t /\ m(t).to = "running"
      BY <1>0, <2>2 DEF Local, TaskStatus, Dispatch
    <3>3. l.block = {} /\ l.op # "cancel"
      BY <1>0, <2>2 DEF LocalsConsistent, Dispatch, UpdatingTask
    <3>4. Updating(m(t), status)
      BY <1>0, <3>2, <3>3 DEF Updating, LocalsConsistent, LocalsSound
    <3>5. QED
      BY <3>1, <3>2, <3>4
  <2>3. CASE UpdateCompleted(p)
    <3>1. Updating(l, status) /\ ReadTask(p, l)
      BY <1>0, <2>3 DEF UpdateCompleted, Updating, LocalsConsistent, LocalsMeaningful, UpdatingTask
    <3>2. QED
      BY <1>0, <3>1
  <2>4. CASE CancelTask(p)
    <3> DEFINE m(t) == [l EXCEPT !.task = t, !.to = "cancelled", !.site = "cancel", !.todo = @ \ {t}]
    <3>1. PICK t \in l.todo : ReadTask(p, m(t))
      BY <2>4 DEF CancelTask
    <3>2. /\ m(t) \in Local /\ t \in Tasks
          /\ m(t).pc = "cancel" /\ m(t).op = l.op /\ m(t).todo = l.todo \ {t}
          /\ m(t).block = l.block /\ m(t).seen = l.seen /\ m(t).site = "cancel"
          /\ m(t).task = t /\ m(t).to = "cancelled"
      BY <1>0, <2>4 DEF Local, TaskStatus, CancelTask
    <3>3. l.block = {} /\ l.op = "cancel"
      BY <1>0, <2>4 DEF LocalsConsistent, CancelTask, UpdatingTask
    <3>4. Updating(m(t), status)
      BY <1>0, <3>2, <3>3 DEF Updating, LocalsConsistent, LocalsSound
    <3>5. QED
      BY <3>1, <3>2, <3>4
  <2>5. QED
    BY <2>1, <2>2, <2>3, <2>4
<1>3. QED
  BY <1>1, <1>2, ReadTaskSound

\* What one UPDATE of a task's status does to the tasks: it follows the table,
\* takes nothing back that has succeeded, and releases only what may run.
LEMMA CasTaskFacts ==
    ASSUME DagInv, NEW p \in Procs, CasTask(p)
    PROVE  /\ loc[p] \in Local /\ Updating(loc[p], status)
           /\ \/ status' = status
              \/ status' = [status EXCEPT ![loc[p].task] = loc[p].to]
           /\ \A t \in Tasks : CanTransitionTask(status[t], status'[t])
           /\ \A t \in Tasks : status[t] = "succeeded" => status'[t] = "succeeded"
           /\ \A t \in Tasks : status'[t] # "absent"
<1> DEFINE l == loc[p]
<1>0. /\ l \in Local /\ LocalsMeaningful(l) /\ LocalsConsistent(l) /\ LocalsSound(l, status)
      /\ RowsSound /\ status \in [Tasks -> TaskStatus] /\ l.pc = "casTask"
  BY ProcessFacts DEF DagInv, TypeInv, TypeOK, CasTask
<1>1. l.task \in Tasks /\ CanTransitionTask(l.old, l.to)
  BY <1>0 DEF LocalsMeaningful, UpdatingTask
<1>2. Updating(l, status)
  BY <1>0, <1>1 DEF Updating, LocalsConsistent
<1>3. CASE status' = status
  BY <1>0, <1>2, <1>3 DEF CanTransitionTask, RowsSound
<1>4. CASE status[l.task] = l.old /\ status' = [status EXCEPT ![l.task] = l.to]
  <2>1. \A t \in Tasks : status'[t] = (IF t = l.task THEN l.to ELSE status[t])
    BY <1>0, <1>4
  <2>2. \A t \in Tasks : CanTransitionTask(status[t], status'[t])
    BY <1>1, <1>4, <2>1 DEF CanTransitionTask
  <2>3. \A t \in Tasks : /\ status[t] = "succeeded" => status'[t] = "succeeded"
                         /\ status'[t] # "absent"
    BY <1>0, <2>2 DEF CanTransitionTask, RowsSound
  <2>4. QED
    BY <1>0, <1>2, <1>4, <2>2, <2>3
<1>5. QED
  BY <1>3, <1>4 DEF CasTask, TaskRowAsRead

\* One UPDATE of a task keeps the dependencies in every row and every process.
LEMMA CasTaskSound ==
    ASSUME DagInv, TypeInv', NEW p \in Procs, CasTask(p)
    PROVE  DagInv'
<1> DEFINE l == loc[p]
<1>0. /\ l \in Local /\ Updating(l, status) /\ RowsSound
      /\ status \in [Tasks -> TaskStatus]
      /\ \A t \in Tasks : status[t] = "succeeded" => status'[t] = "succeeded"
      /\ \A t \in Tasks : status'[t] # "absent"
  BY CasTaskFacts DEF DagInv, TypeInv, TypeOK
<1>1. \A t \in Tasks : ParentsDone(t, status) => ParentsDone(t, status')
  BY <1>0, TasksAssumption DEF ParentsDone, Parents, ParentsIn
<1>2. RowsSound'
  <2>1. ASSUME NEW t \in Tasks, status'[t] \in {"ready", "running", "succeeded", "failed"}
        PROVE  ParentsDone(t, status')
    <3>1. CASE status'[t] = status[t]
      BY <1>0, <1>1, <2>1, <3>1 DEF RowsSound
    <3>2. CASE status'[t] # status[t]
      <4>1. t = l.task /\ status'[t] = l.to
        BY <1>0, <3>2, CasTaskFacts
      <4>2. ParentsDone(t, status)
        BY <1>0, <2>1, <4>1, TasksAssumption DEF Updating, LocalsSound
      <4>3. QED
        BY <1>1, <4>2
    <3>3. QED
      BY <3>1, <3>2
  <2>2. \A c \in calls : c[1] \in Tasks
    BY DEF DagInv, TypeInv, TypeOK
  <2>3. UNCHANGED <<runStatus, depRows, attempt, calls>>
    BY DEF CasTask, env
  <2>4. QED
    BY <1>0, <1>1, <2>1, <2>2, <2>3 DEF RowsSound, CompletedRunIsDone
<1>3. Updating(l, status')
  BY <1>0, SoundStable DEF Updating
<1>4. \A m : m = TaskUpdated(l) \/ m = TaskRefused(l) => Sound(m, status')
  BY <1>0, <1>3, TaskUpdatedSound, TaskRefusedSound
<1>5. \A q \in Procs : Sound(loc[q], status')
  BY <1>0, SoundStable, ProcessFacts DEF Sound
<1>6. Become(p, TaskUpdated(l)) \/ Become(p, TaskRefused(l))
  BY DEF CasTask
<1>7. \A q \in Procs : Sound(loc'[q], status')
  BY <1>4, <1>5, <1>6 DEF Become, DagInv, TypeInv, TypeOK
<1>8. QED
  BY <1>2, <1>7 DEF DagInv, Sound

\* UpdateRunStatus.
LEMMA RunSound ==
    ASSUME DagInv, TypeInv', NEW p \in Procs, ReadRun(p) \/ CasRun(p)
    PROVE  DagInv'
<1> DEFINE l == loc[p]
<1>0. /\ l \in Local /\ LocalsMeaningful(l) /\ LocalsConsistent(l) /\ LocalsSound(l, status)
      /\ RowsSound
  BY ProcessFacts
<1>1. CASE ReadRun(p)
  <2> DEFINE m == [l EXCEPT !.pc = "casRun", !.old = runStatus]
  <2>1. /\ m.pc = "casRun" /\ m.op = l.op /\ m.todo = l.todo /\ m.block = l.block
        /\ m.seen = l.seen /\ m.site = l.site /\ m.task = l.task /\ m.to = l.to
    BY <1>0 DEF Local
  <2>2. l.pc = "readRun" /\ UNCHANGED <<runStatus, status, count, depRows, attempt, calls>>
    BY <1>1 DEF ReadRun, env
  <2>3. Sound(m, status)
    BY <1>0, <2>1, <2>2 DEF Sound, LocalsConsistent, LocalsSound, UpdatingTask
  <2>4. Become(p, Idle) \/ Become(p, RunUpdated(l, runStatus)) \/ Become(p, m)
    BY <1>1 DEF ReadRun
  <2>5. RowsSound'
    BY <1>0, <2>2, RowsKept
  <2>6. QED
    BY <2>2, <2>3, <2>4, <2>5, IdleSound, RunUpdatedSound, StepSound
<1>2. CASE CasRun(p)
  <2>1. /\ l.pc = "casRun" /\ UNCHANGED <<status, count, depRows, attempt, calls>>
        /\ runStatus' = runStatus \/ (runStatus = l.old /\ runStatus' = l.to)
    BY <1>2 DEF CasRun, RunRowAsRead, env
  <2>2. \E cur : Become(p, Idle) \/ Become(p, RunUpdated(l, cur))
    BY <1>2 DEF CasRun
  <2>3. runStatus' # "absent"
    BY <1>0, <2>1 DEF RowsSound, LocalsMeaningful, CanTransitionRun
  <2>4. CompletedRunIsDone'
    BY <1>0, <2>1 DEF RowsSound, LocalsSound, CompletedRunIsDone
  <2>5. RowsSound'
    BY <1>0, <2>1, <2>3, <2>4 DEF RowsSound
  <2>6. QED
    BY <2>1, <2>2, <2>5, IdleSound, RunUpdatedSound, StepSound
<1>3. QED
  BY <1>1, <1>2
\* A process enters ReconcileRun, which reads the run first.
LEMMA ReconcilingSound ==
    ASSUME NEW stat, NEW http
    PROVE  Sound(Reconciling(http), stat)
<1> DEFINE m(k) == [k EXCEPT !.pc = "listForTimeout", !.op = "reconcile", !.http = http,
                             !.run = runStatus]
<1>1. \A k \in Local : /\ m(k).pc = "listForTimeout" /\ m(k).op = "reconcile"
                       /\ m(k).todo = k.todo /\ m(k).block = k.block /\ m(k).seen = k.seen
                       /\ m(k).site = k.site /\ m(k).task = k.task
  BY DEF Local
<1>2. Sound(m(Idle), stat)
  BY <1>1, IdleFacts, FreshSound DEF UpdatingTask
<1>3. QED
  BY <1>2, IdleSound DEF Reconciling

\* The lists and reads of ReconcileRun: what they show still holds when they
\* are used, as far as the process relies on it.
LEMMA ListSound ==
    ASSUME DagInv, TypeInv', NEW p \in Procs,
           Poll(p) \/ GetRun(p) \/ ListForTimeout(p) \/ ListAttempts(p) \/ ListForMark(p)
                   \/ ListDeps(p) \/ Recompute(p) \/ ListForDispatch(p) \/ FinishStart(p)
    PROVE  DagInv'
<1> DEFINE l == loc[p]
<1>0. /\ l \in Local /\ LocalsConsistent(l) /\ LocalsSound(l, status) /\ RowsSound
  BY ProcessFacts
<1>r. UNCHANGED <<runStatus, status, depRows, attempt, calls>>
  BY DEF Poll, GetRun, ListForTimeout, ListAttempts, ListForMark, ListDeps, Recompute,
         ListForDispatch, FinishStart, rows, env
<1>s. ASSUME NEW m, Become(p, m), Sound(m, status)
      PROVE  DagInv'
  <2>1. RowsSound'
    BY <1>0, <1>r, RowsKept
  <2>2. QED
    BY <1>r, <1>s, <2>1, StepSound
<1>1. CASE Poll(p) \/ GetRun(p)
  <2>1. \E http : Become(p, Reconciling(http))
    BY <1>1 DEF Poll, GetRun
  <2>2. QED
    BY <1>s, <2>1, ReconcilingSound
<1>2. CASE ListForTimeout(p)
  <2> DEFINE m == [l EXCEPT !.pc = "listAttempts", !.busy = Running(status),
                            !.spare = {t \in Running(status) : MayRetry(t, count[t])}]
  <2>1. /\ m.pc = "listAttempts" /\ m.op = l.op /\ m.todo = l.todo /\ m.block = l.block
        /\ m.seen = l.seen /\ m.site = l.site /\ m.task = l.task
    BY <1>0 DEF Local
  <2>2. l.pc = "listForTimeout" /\ Become(p, m)
    BY <1>2 DEF ListForTimeout
  <2>3. Sound(m, status)
    BY <1>0, <2>1, <2>2 DEF Sound, LocalsConsistent, LocalsSound, UpdatingTask
  <2>4. QED
    BY <1>s, <2>2, <2>3
<1>3. CASE ListAttempts(p)
  <2>1. PICK latest \in [Tasks -> 0 .. MaxAttempts] :
          /\ \A t \in l.busy : LatestRunning(t, latest[t])
          /\ Become(p, [l EXCEPT !.pc = "timeouts", !.busy = {}, !.latest = latest,
                                 !.todo = {t \in l.busy : latest[t] # 0}])
    BY <1>0, <1>3 DEF ListAttempts, Local
  <2> DEFINE todo == {t \in l.busy : latest[t] # 0}
             m == [l EXCEPT !.pc = "timeouts", !.busy = {}, !.latest = latest, !.todo = todo]
  <2>2. /\ m.pc = "timeouts" /\ m.op = l.op /\ m.todo = todo /\ m.block = l.block
        /\ m.seen = l.seen /\ m.site = l.site /\ m.task = l.task
    BY <1>0 DEF Local
  <2>3. \A t \in todo : ParentsDone(t, status)
    <3>1. \A t \in todo : t \in Tasks /\ latest[t] \in AttemptNos
                                      /\ attempt[t][latest[t]] = "running"
      BY <1>0, <2>1 DEF LatestRunning, RunningAttempts, Local
    <3>2. QED
      BY <1>0, <3>1 DEF RowsSound
  <2>4. l.pc = "listAttempts"
    BY <1>3 DEF ListAttempts
  <2>5. l.block = {} /\ l.site = "none" /\ l.task = NoTask
    BY <1>0, <2>4 DEF LocalsConsistent, UpdatingTask
  <2>6. Sound(m, status)
    <3> HIDE DEF m, todo
    <3>1. LocalsConsistent(m)
      BY <1>0, <2>2, <2>4, <2>5 DEF LocalsConsistent, UpdatingTask
    <3>2. LocalsSound(m, status)
      BY <1>0, <2>2, <2>3, <2>4, <2>5 DEF LocalsSound
    <3>3. QED
      BY <3>1, <3>2 DEF Sound
  <2>7. QED
    BY <1>s, <2>1, <2>6
<1>4. CASE ListForMark(p)
  <2> DEFINE m(k) == [k EXCEPT !.pc = "listDeps", !.op = l.op, !.http = l.http,
                               !.run = l.run, !.seen = status]
  <2>1. \A k \in Local : /\ m(k).pc = "listDeps" /\ m(k).op = l.op /\ m(k).todo = k.todo
                         /\ m(k).block = k.block /\ m(k).seen = status
                         /\ m(k).site = k.site /\ m(k).task = k.task
    BY DEF Local
  <2>2. l.pc \in {"listForMark", "timeouts"} /\ Become(p, m(Idle))
    BY <1>4 DEF ListForMark
  <2>3. l.op # "cancel"
    BY <1>0, <2>2 DEF LocalsConsistent
  <2>4. Sound(m(Idle), status)
    BY <2>1, <2>3, IdleFacts DEF Sound, LocalsConsistent, LocalsSound, UpdatingTask
  <2>5. QED
    BY <1>s, <2>2, <2>4
<1>5. CASE ListDeps(p)
  <2> DEFINE waiting == {t \in Tasks : l.seen[t] \in {"pending", "blocked"}}
             ready == {t \in waiting : Runnable(l.seen, Parents(t))}
             block == {t \in waiting : /\ l.seen[t] = "pending"
                                       /\ Blocked(l.seen, Parents(t))}
             m == [l EXCEPT !.pc = "mark", !.seen = Idle.seen, !.todo = ready \cup block,
                            !.block = block]
  <2>1. l.pc = "listDeps" /\ Become(p, m)
    BY <1>0, <1>5 DEF ListDeps, RowsSound, Parents
  <2>2. /\ m.pc = "mark" /\ m.op = l.op /\ m.todo = ready \cup block /\ m.block = block
        /\ m.seen = Idle.seen /\ m.site = l.site /\ m.task = l.task
    BY <1>0 DEF Local
  <2>3. \A t \in block : Parents(t) # {}
    BY DEF Blocked
  <2>4. \A t \in ready : ParentsDone(t, status)
    <3>1. \A t \in Tasks : Parents(t) \subseteq Tasks
      BY TasksAssumption DEF Parents, ParentsIn
    <3>2. QED
      BY <1>0, <3>1 DEF Runnable, ParentsDone, LocalsSound
  <2>5. l.op # "cancel" /\ l.site = "none" /\ l.task = NoTask
    BY <1>0, <2>1 DEF LocalsConsistent, UpdatingTask
  <2>6. Sound(m, status)
    <3> HIDE DEF m, ready, block
    <3>1. LocalsConsistent(m)
      BY <2>2, <2>5 DEF LocalsConsistent, UpdatingTask
    <3>2. LocalsSound(m, status)
      BY <2>2, <2>3, <2>4, <2>5, IdleFacts DEF LocalsSound
    <3>3. QED
      BY <3>1, <3>2 DEF Sound
  <2>7. QED
    BY <1>s, <2>1, <2>6
<1>6. CASE Recompute(p)
  <2>1. l.pc = "mark" /\ l.todo = {} /\ Become(p, Transition(l, DerivedRunStatus(status)))
    BY <1>6 DEF Recompute
  <2>2. l.block = {} /\ l.site = "none" /\ l.task = NoTask
    BY <1>0, <2>1 DEF LocalsConsistent, UpdatingTask
  <2>3. DerivedRunStatus(status) = "completed" => \A t \in Tasks : status[t] = "succeeded"
    BY <1>0 DEF DerivedRunStatus, RowsSound, Listed
  <2>4. QED
    BY <1>0, <1>s, <2>1, <2>2, <2>3, TransitionSound
<1>7. CASE ListForDispatch(p)
  <2> DEFINE m == [l EXCEPT !.todo = {t \in Tasks : status[t] = "ready"},
                            !.busy = Running(status)]
  <2>1. l.pc = "listForDispatch" /\ Become(p, Dispatching(m))
    BY <1>7 DEF ListForDispatch
  <2>2. l.op # "cancel" /\ l.site = "none" /\ l.task = NoTask /\ l.block = {}
    BY <1>0, <2>1 DEF LocalsConsistent, UpdatingTask
  <2>3. /\ m \in Local /\ m.pc = l.pc /\ m.op = l.op /\ m.seen = l.seen /\ m.site = l.site
        /\ m.task = l.task /\ m.block = l.block /\ m.todo = {t \in Tasks : status[t] = "ready"}
    BY <1>0 DEF Local, Running
  <2>4. \A t \in m.todo : ParentsDone(t, status)
    BY <1>0, <2>3 DEF RowsSound
  <2>5. LocalsSound(m, status)
    <3> HIDE DEF m
    <3>1. QED
      BY <1>0, <2>1, <2>2, <2>3, <2>4 DEF LocalsSound
  <2>6. QED
    BY <1>s, <2>1, <2>2, <2>3, <2>5, DispatchingSound
<1>8. CASE FinishStart(p)
  BY <1>8, <1>s, IdleSound DEF FinishStart
<1>9. QED
  BY <1>1, <1>2, <1>3, <1>4, <1>5, <1>6, <1>7, <1>8
\* Claiming a task: an attempt is only created for a task whose parents are done.
LEMMA AttemptSound ==
    ASSUME DagInv, TypeInv', NEW p \in Procs,
           Increment(p) \/ Reread(p) \/ CreateAttempt(p) \/ AttemptExists(p)
    PROVE  DagInv'
<1> DEFINE l == loc[p]
<1>0. /\ l \in Local /\ LocalsMeaningful(l) /\ LocalsConsistent(l) /\ LocalsSound(l, status)
      /\ RowsSound /\ NoTask \notin Tasks
  BY ProcessFacts, TasksAssumption
<1>1. /\ l.pc \in {"increment", "reread", "createAttempt"} /\ l.task \in Tasks
      /\ l.site = "dispatch" /\ l.op # "cancel" /\ l.block = {}
  BY <1>0 DEF Increment, Reread, CreateAttempt, AttemptExists, LocalsMeaningful,
              LocalsConsistent, UpdatingTask
<1>2. ParentsDone(l.task, status)
  BY <1>0, <1>1 DEF LocalsSound
<1>3. ASSUME NEW m, m.pc \in {"reread", "createAttempt"}, m.op = l.op, m.todo = l.todo,
             m.block = l.block, m.seen = l.seen, m.site = l.site, m.task = l.task,
             m.to = l.to
      PROVE  Sound(m, status)
  BY <1>0, <1>1, <1>2, <1>3 DEF Sound, LocalsConsistent, LocalsSound, UpdatingTask
<1>4. CASE Increment(p)
  <2> DEFINE m == [l EXCEPT !.pc = "reread"]
  <2>1. /\ m.pc = "reread" /\ m.op = l.op /\ m.todo = l.todo /\ m.block = l.block
        /\ m.seen = l.seen /\ m.site = l.site /\ m.task = l.task /\ m.to = l.to
    BY <1>0 DEF Local
  <2>2. Sound(m, status)
    <3> HIDE DEF m
    <3>1. QED
      BY <1>3, <2>1
  <2>3. /\ UNCHANGED <<runStatus, status, depRows, attempt, calls>> /\ Become(p, m)
    BY <1>4 DEF Increment, env
  <2>4. QED
    BY <1>0, <2>2, <2>3, RowsKept, StepSound
<1>5. CASE Reread(p)
  <2> DEFINE m == [l EXCEPT !.pc = "createAttempt",
                            !.no = IF count[l.task] = 0 THEN 1 ELSE count[l.task]]
  <2>1. /\ m.pc = "createAttempt" /\ m.op = l.op /\ m.todo = l.todo /\ m.block = l.block
        /\ m.seen = l.seen /\ m.site = l.site /\ m.task = l.task /\ m.to = l.to
    BY <1>0 DEF Local
  <2>2. Sound(m, status)
    <3> HIDE DEF m
    <3>1. QED
      BY <1>3, <2>1
  <2>3. /\ UNCHANGED <<runStatus, status, depRows, attempt, calls>> /\ Become(p, m)
    BY <1>5 DEF Reread, rows, env
  <2>4. QED
    BY <1>0, <2>2, <2>3, RowsKept, StepSound
<1>6. CASE CreateAttempt(p)
  <2> DEFINE m == [l EXCEPT !.busy = @ \cup {l.task}]
  <2>1. /\ m \in Local /\ m.op = l.op /\ m.todo = l.todo /\ m.block = l.block
        /\ m.seen = l.seen /\ m.pc = l.pc
    BY <1>0, <1>1 DEF Local
  <2>2. Become(p, Dispatching(Clear(m)))
    BY <1>6 DEF CreateAttempt
  <2>3. LocalsSound(Clear(m), status)
    <3>1. /\ Clear(m).pc = m.pc /\ Clear(m).op = m.op /\ Clear(m).todo = m.todo
          /\ Clear(m).block = m.block /\ Clear(m).seen = m.seen /\ Clear(m).task = NoTask
      BY <2>1, ClearFacts
    <3>2. QED
      BY <1>0, <1>1, <2>1, <3>1 DEF LocalsSound
  <2>4. Sound(Dispatching(Clear(m)), status)
    <3>1. /\ Clear(m) \in Local /\ Clear(m).op # "cancel" /\ Clear(m).site = "none"
          /\ Clear(m).task = NoTask /\ Clear(m).block = {}
      BY <1>1, <2>1, ClearFacts
    <3>2. QED
      BY <2>3, <3>1, DispatchingSound
  <2>5. RowsSound'
    <3>1. \A t \in Tasks, n \in AttemptNos : attempt'[t][n] # "absent" =>
             attempt[t][n] # "absent" \/ t = l.task
      BY <1>6 DEF CreateAttempt, DagInv, TypeInv, TypeOK
    <3>2. \A c \in calls' : c \in calls \/ c[1] = l.task
      BY <1>6 DEF CreateAttempt
    <3>3. UNCHANGED <<runStatus, status, depRows>>
      BY <1>6 DEF CreateAttempt
    <3>4. QED
      BY <1>0, <1>2, <3>1, <3>2, <3>3 DEF RowsSound, CompletedRunIsDone
  <2>6. QED
    BY <1>6, <2>2, <2>4, <2>5, StepSound DEF CreateAttempt
<1>7. CASE AttemptExists(p)
  BY <1>0, <1>7, IdleSound, RowsKept, StepSound DEF AttemptExists, rows, env
<1>8. QED
  BY <1>4, <1>5, <1>6, <1>7

\* Ending an attempt, by its provider's answer or by its timeout: the attempt
\* exists or is being worked on, so its task's parents are done.
LEMMA CompleteSound ==
    ASSUME DagInv, TypeInv', NEW p \in Procs,
           TimeOut(p) \/ \E c \in calls : ExecutorReturns(p, c)
    PROVE  DagInv'
<1> DEFINE l == loc[p]
<1>0. /\ l \in Local /\ LocalsConsistent(l) /\ LocalsSound(l, status) /\ RowsSound
      /\ attempt \in [Tasks -> [AttemptNos -> AttemptStatus]]
      /\ calls \subseteq Tasks \X AttemptNos /\ NoTask \notin Tasks
  BY ProcessFacts, TasksAssumption DEF DagInv, TypeInv, TypeOK
<1>1. ASSUME NEW k \in Local, NEW t \in Tasks, NEW n, NEW o, NEW r,
             k.op # "cancel", k.block = {}, LocalsSound(k, status), ParentsDone(t, status)
      PROVE  Sound(Completing(k, t, n, o, r), status)
  <2> DEFINE m == Completing(k, t, n, o, r)
  <2>1. /\ m.pc = "readTask" /\ m.op = k.op /\ m.todo = k.todo /\ m.block = k.block
        /\ m.seen = k.seen /\ m.site = "complete" /\ m.task = t 
        /\ m.to \notin {"blocked", "pending"}
    BY DEF Completing, CompletedTo, Local
  <2>2. QED
    BY <1>1, <2>1 DEF Sound, LocalsConsistent, LocalsSound, UpdatingTask
<1>2. ASSUME NEW t \in Tasks, ParentsDone(t, status), NEW n, NEW o, CompleteAttempt(t, n, o),
             UNCHANGED <<runStatus, status, depRows>>, calls' \subseteq calls
      PROVE  RowsSound'
  <2>1. \A u \in Tasks, i \in AttemptNos : attempt'[u][i] # "absent" =>
           attempt[u][i] # "absent" \/ u = t
    BY <1>0, <1>2 DEF CompleteAttempt
  <2>2. QED
    BY <1>0, <1>2, <2>1 DEF RowsSound, CompletedRunIsDone
<1>3. CASE TimeOut(p)
  <2>1. PICK t \in l.todo, passed \in SUBSET l.todo :
           /\ CompleteAttempt(t, l.latest[t], "timed_out")
           /\ Become(p, Completing([l EXCEPT !.todo = @ \ (passed \cup {t})],
                                   t, l.latest[t], "timed_out", t \in l.spare))
    BY <1>3 DEF TimeOut
  <2>2. l.pc = "timeouts" /\ UNCHANGED <<runStatus, status, depRows, calls>>
    BY <1>3 DEF TimeOut, env
  <2>3. l.op # "cancel" /\ l.block = {} /\ l.task = NoTask
    BY <1>0, <2>2 DEF LocalsConsistent, UpdatingTask
  <2>4. t \in Tasks /\ ParentsDone(t, status)
    BY <1>0, <2>3 DEF LocalsSound, Local
  <2> DEFINE k == [l EXCEPT !.todo = @ \ (passed \cup {t})]
  <2>5. /\ k \in Local /\ k.pc = l.pc /\ k.op = l.op /\ k.todo \subseteq l.todo
        /\ k.block = l.block /\ k.seen = l.seen /\ k.site = l.site /\ k.task = l.task
    BY <1>0 DEF Local
  <2>6. LocalsSound(k, status)
    BY <1>0, <2>2, <2>3, <2>5 DEF LocalsSound
  <2>7. Sound(Completing(k, t, l.latest[t], "timed_out", t \in l.spare), status)
    BY <1>1, <2>3, <2>4, <2>5, <2>6
  <2>8. RowsSound'
    BY <1>2, <2>1, <2>2, <2>4
  <2>9. QED
    BY <2>1, <2>2, <2>7, <2>8, StepSound
<1>4. ASSUME NEW c \in calls, ExecutorReturns(p, c)
      PROVE  DagInv'
  <2>1. PICK result, retry :
           /\ CompleteAttempt(c[1], c[2], result)
           /\ Become(p, Completing([Idle EXCEPT !.op = "exec"], c[1], c[2], result, retry))
    BY <1>4 DEF ExecutorReturns
  <2>2. UNCHANGED <<runStatus, status, depRows>> /\ calls' \subseteq calls
    BY <1>4 DEF ExecutorReturns
  <2>3. c[1] \in Tasks /\ ParentsDone(c[1], status)
    BY <1>0 DEF RowsSound
  <2> DEFINE k(m) == [m EXCEPT !.op = "exec"]
  <2>4. \A m \in Local : /\ k(m) \in Local /\ k(m).pc = m.pc /\ k(m).op = "exec"
                         /\ k(m).todo = m.todo /\ k(m).block = m.block /\ k(m).seen = m.seen
                         /\ k(m).site = m.site /\ k(m).task = m.task
    BY DEF Local
  <2>5. LocalsSound(k(Idle), status)
    BY <2>4, IdleFacts DEF LocalsSound
  <2>6. Sound(Completing(k(Idle), c[1], c[2], result, retry), status)
    BY <1>1, <2>3, <2>4, <2>5, IdleFacts
  <2>7. RowsSound'
    BY <1>2, <2>1, <2>2, <2>3
  <2>8. QED
    BY <2>1, <2>2, <2>6, <2>7, StepSound
<1>5. QED
  BY <1>3, <1>4

\* CancelRun relies on nothing it has read.
LEMMA CancelSound ==
    ASSUME DagInv, TypeInv', NEW p \in Procs, CancelRun(p) \/ CancelList(p)
    PROVE  DagInv'
<1> DEFINE l == loc[p]
<1>0. /\ l \in Local /\ LocalsConsistent(l) /\ LocalsSound(l, status) /\ RowsSound
  BY ProcessFacts
<1>1. CASE CancelRun(p)
  <2> DEFINE m(k) == [k EXCEPT !.pc = "cancelList", !.op = "cancel", !.http = TRUE,
                               !.run = runStatus]
  <2>1. \A k \in Local : /\ m(k).pc = "cancelList" /\ m(k).op = "cancel" /\ m(k).todo = k.todo
                         /\ m(k).block = k.block /\ m(k).seen = k.seen
                         /\ m(k).site = k.site /\ m(k).task = k.task
    BY DEF Local
  <2>2. Sound(m(Idle), status)
    BY <2>1, IdleFacts DEF Sound, LocalsConsistent, LocalsSound, UpdatingTask
  <2>3. Become(p, m(Idle)) /\ UNCHANGED <<runStatus, status, depRows, attempt, calls>>
    BY <1>1 DEF CancelRun, rows
  <2>4. QED
    BY <1>0, <2>2, <2>3, RowsKept, StepSound
<1>2. CASE CancelList(p)
  <2>1. PICK todo \in SUBSET Tasks :
           Become(p, IF todo = {} THEN Transition(l, "cancelled")
                                  ELSE [l EXCEPT !.pc = "cancel", !.todo = todo])
    BY <1>2 DEF CancelList
  <2> DEFINE m == [l EXCEPT !.pc = "cancel", !.todo = todo]
  <2>2. l.pc = "cancelList" /\ UNCHANGED <<runStatus, status, depRows, attempt, calls>>
    BY <1>2 DEF CancelList, rows, env
  <2>3. l.op = "cancel" /\ l.block = {} /\ l.site = "none" /\ l.task = NoTask
    BY <1>0, <2>2 DEF LocalsConsistent, UpdatingTask
  <2>4. /\ m.pc = "cancel" /\ m.op = l.op /\ m.todo = todo /\ m.block = l.block
        /\ m.seen = l.seen /\ m.site = l.site /\ m.task = l.task
    BY <1>0 DEF Local
  <2>5. Sound(m, status)
    BY <1>0, <2>3, <2>4 DEF Sound, LocalsConsistent, LocalsSound, UpdatingTask
  <2>6. Sound(Transition(l, "cancelled"), status)
    BY <1>0, <2>3, TransitionSound
  <2>7. \E k : Become(p, k) /\ Sound(k, status)
    BY <2>1, <2>5, <2>6
  <2>8. QED
    BY <1>0, <2>2, <2>7, RowsKept, StepSound
<1>3. QED
  BY <1>1, <1>2

\* A client that goes away or a restart only makes processes idle, and the clock
\* changes nothing a process relies on.
LEMMA EnvironmentSound ==
    ASSUME DagInv, TypeInv',
           \/ \E p \in Procs : Abort(p)
           \/ Crash
           \/ \E c \in Tasks \X AttemptNos : Elapse(c)
    PROVE  DagInv'
<1>0. RowsSound
  BY DEF DagInv
<1>1. ASSUME NEW p \in Procs, Abort(p)
      PROVE  DagInv'
  BY <1>0, <1>1, IdleSound, RowsKept, StepSound DEF Abort, rows
<1>2. CASE Crash
  <2>1. RowsSound'
    BY <1>0, <1>2, RowsKept DEF Crash, rows
  <2>2. \A q \in Procs : Sound(loc'[q], status')
    BY <1>2, IdleSound DEF Crash
  <2>3. QED
    BY <2>1, <2>2 DEF DagInv, Sound
<1>3. ASSUME NEW c \in Tasks \X AttemptNos, Elapse(c)
      PROVE  DagInv'
  <2>1. RowsSound'
    BY <1>0, <1>3, RowsKept DEF Elapse, rows
  <2>2. UNCHANGED <<loc, status>>
    BY <1>3 DEF Elapse, rows
  <2>3. QED
    BY <2>1, <2>2 DEF DagInv
<1>4. QED
  BY <1>1, <1>2, <1>3
-----------------------------------------------------------------------------
(***************************************************************************)
(* The theorems                                                            *)
(***************************************************************************)
\* A stored plan satisfies the invariant ...
LEMMA DagInit == PlannedInit => DagInv
<1> SUFFICES ASSUME PlannedInit
             PROVE  DagInv
  OBVIOUS
<1>1. TypeInv
  BY TypeOfInit
<1>2. RowsSound
  BY DEF PlannedInit, RowsSound, CompletedRunIsDone
<1>3. ASSUME NEW q \in Procs
      PROVE  Sound(loc[q], status)
  <2> DEFINE m(k) == [k EXCEPT !.pc = "readRun", !.op = "start", !.http = TRUE,
                               !.run = "planning", !.to = "dispatching"]
  <2>1. \A k \in Local : /\ m(k).pc = "readRun" /\ m(k).op = "start" /\ m(k).todo = k.todo
                         /\ m(k).block = k.block /\ m(k).seen = k.seen
                         /\ m(k).site = k.site /\ m(k).task = k.task /\ m(k).to = "dispatching"
    BY DEF Local
  <2>2. Sound(m(Idle), status)
    BY <2>1, IdleFacts, FreshSound DEF UpdatingTask
  <2>3. loc[q] = m(Idle) \/ loc[q] = Idle
    BY DEF PlannedInit
  <2>4. QED
    BY <2>2, <2>3, IdleSound
<1>4. QED
  BY <1>1, <1>2, <1>3 DEF DagInv, Sound

\* ... and every step of every process preserves it.
LEMMA DagStep == DagInv /\ [Next]_vars => DagInv'
<1> SUFFICES ASSUME DagInv, [Next]_vars
             PROVE  DagInv'
  OBVIOUS
<1>0. TypeInv'
  BY TypeStep DEF DagInv
<1>1. ASSUME NEW p \in Procs
      PROVE  ~(\/ StartRun(p) \/ InsertTask(p) \/ InsertDep(p)
               \/ CreateTasksFails(p) \/ PlanStored(p))
  <2>1. runStatus # "absent" /\ loc[p].pc # "createTasks"
    BY ProcessFacts DEF RowsSound, LocalsConsistent
  <2>2. QED
    BY <2>1 DEF StartRun, InsertTask, InsertDep, CreateTasksFails, PlanStored
<1>2. ASSUME NEW p \in Procs, Proceed(p)
      PROVE  DagInv'
  BY <1>0, <1>1, <1>2, ListSound, CompleteSound, UpdateSound, AttemptSound, RunSound,
     CasTaskSound, CancelSound DEF Proceed
<1>3. ASSUME NEW p \in Procs,
             Poll(p) \/ CancelRun(p) \/ \E c \in calls : ExecutorReturns(p, c)
      PROVE  DagInv'
  BY <1>0, <1>3, ListSound, CancelSound, CompleteSound
<1>4. CASE UNCHANGED vars
  BY <1>4 DEF vars, rows, env, DagInv, TypeInv, TypeOK, RowsSound, CompletedRunIsDone
<1>5. QED
  BY <1>0, <1>1, <1>2, <1>3, <1>4, EnvironmentSound DEF Next

\* What the goroutines of a planned run rely on holds in every interleaving.
THEOREM DagInvariant == PlannedSpec => []DagInv
  BY DagInit, DagStep, PTL DEF PlannedSpec

\* No task of a planned run is ever attempted before everything it depends on
\* has succeeded: for every plan, any number of goroutines, restarts, aborted
\* requests, timeouts and cancellations.
THEOREM DependenciesKept == PlannedSpec => []DependenciesRespected
<1>1. DagInv => DependenciesRespected
  BY DEF DagInv, RowsSound, DependenciesRespected, ParentsDone
<1>2. QED
  BY <1>1, DagInvariant, PTL

\* A planned run is completed only when every one of its tasks has succeeded.
THEOREM CompletedOnlyWhenDone == PlannedSpec => []CompletedRunIsDone
<1>1. DagInv => CompletedRunIsDone
  BY DEF DagInv, RowsSound
<1>2. QED
  BY <1>1, DagInvariant, PTL

\* A write of a task's row is a step of the promise: Updating says why the task
\* may be released or blocked, the transition table where it may come from.
LEMMA CasTaskPromised ==
    ASSUME DagInv, NEW p \in Procs, CasTask(p)
    PROVE  Promise!Next \/ UNCHANGED <<runStatus, status>>
<1> DEFINE t == loc[p].task
           to == loc[p].to
<1>0. /\ t \in Tasks /\ status \in [Tasks -> TaskStatus] /\ UNCHANGED runStatus
      /\ status[t] # "absent"
  BY CasTaskFacts DEF DagInv, TypeInv, TypeOK, RowsSound, Updating, CasTask
<1>1. CASE status' = status
  BY <1>0, <1>1
<1>2. CASE status' = [status EXCEPT ![t] = to]
  <2>1. CanTransitionTask(status[t], to)
    BY <1>0, <1>2, CasTaskFacts
  <2>2. to = "ready" => ParentsDone(t, status)
    BY <1>0, CasTaskFacts, TasksAssumption DEF Updating, LocalsSound
  <2>3. to = "blocked" => Parents(t) # {}
    BY <1>0, CasTaskFacts, TasksAssumption DEF Updating, LocalsSound
  <2>4. Promise!Parents(t) = Parents(t)
    BY DEF Promise!Parents, Parents, ParentsIn
  <2>5. to # "pending"
    BY <1>0, CasTaskFacts, TasksAssumption DEF Updating, LocalsSound
  <2>6. CASE status[t] # to
    <3> USE DEF Promise!Move
    <3>1. \/ to = "ready" /\ status[t] = "failed"
          \/ to = "ready" /\ status[t] \in {"pending", "blocked"}
          \/ to = "blocked" /\ status[t] = "pending"
          \/ to = "running" /\ status[t] = "ready"
          \/ to = "succeeded" /\ status[t] = "running"
          \/ to = "failed" /\ status[t] = "running"
          \/ to = "cancelled" /\ status[t] \in {"pending", "ready", "running"}
      BY <1>0, <2>1, <2>5, <2>6 DEF CanTransitionTask
    <3>2. CASE to = "ready" /\ status[t] = "failed"
      BY <1>0, <1>2, <3>2 DEF Promise!Retry, Promise!Next
    <3>3. CASE to = "ready" /\ status[t] \in {"pending", "blocked"}
      BY <1>0, <1>2, <2>2, <2>4, <3>3 DEF ParentsDone, Promise!Release, Promise!Next
    <3>4. CASE to = "blocked" /\ status[t] = "pending"
      BY <1>0, <1>2, <2>3, <2>4, <3>4 DEF Promise!Block, Promise!Next
    <3>5. CASE to = "running" /\ status[t] = "ready"
      BY <1>0, <1>2, <3>5 DEF Promise!Run, Promise!Next
    <3>6. CASE to = "succeeded" /\ status[t] = "running"
      BY <1>0, <1>2, <3>6 DEF Promise!Succeed, Promise!Next
    <3>7. CASE to = "failed" /\ status[t] = "running"
      BY <1>0, <1>2, <3>7 DEF Promise!Fail, Promise!Next
    <3>8. CASE to = "cancelled" /\ status[t] \in {"pending", "ready", "running"}
      BY <1>0, <1>2, <3>8 DEF Promise!Cancel, Promise!Next
    <3>9. QED
      BY <3>1, <3>2, <3>3, <3>4, <3>5, <3>6, <3>7, <3>8
  <2>7. QED
    BY <1>0, <1>2, <2>6
<1>3. QED
  BY <1>1, <1>2, CasTaskFacts

\* A write of the run's row is a step of the promise.
LEMMA CasRunPromised ==
    ASSUME DagInv, NEW p \in Procs, CasRun(p)
    PROVE  Promise!Next \/ UNCHANGED <<runStatus, status>>
<1> DEFINE l == loc[p]
<1>0. l \in Local /\ LocalsMeaningful(l) /\ LocalsSound(l, status)
  BY ProcessFacts
<1>1. UNCHANGED status /\ (runStatus' = runStatus \/ (runStatus = l.old /\ runStatus' = l.to))
  BY DEF CasRun, RunRowAsRead
<1>2. /\ CanTransitionRun(l.old, l.to)
      /\ l.to = "completed" => \A t \in Tasks : status[t] = "succeeded"
  BY <1>0 DEF CasRun, LocalsMeaningful, LocalsSound
<1>3. CASE runStatus = l.old /\ runStatus' = l.to
  <2>1. l.to \in Promise!RunStatus
    BY <1>2, <1>3 DEF CanTransitionRun, RunStatus, Promise!RunStatus, DagInv, TypeInv, TypeOK
  <2>2. Promise!CanTransitionRun(runStatus, l.to)
    BY <1>2, <1>3 DEF CanTransitionRun, Promise!CanTransitionRun
  <2>3. Promise!Advance(l.to)
    BY <1>1, <1>2, <1>3, <2>2 DEF Promise!Advance
  <2>4. QED
    BY <2>1, <2>3 DEF Promise!Next
<1>4. QED
  BY <1>1, <1>3

\* No other step of a planned run writes a status.
LEMMA StatusesKept ==
    ASSUME DagInv, [Next]_vars, \A p \in Procs : ~CasTask(p) /\ ~CasRun(p)
    PROVE  UNCHANGED <<runStatus, status>>
<1>1. ASSUME NEW p \in Procs
      PROVE  ~StartRun(p) /\ ~InsertTask(p)
  BY ProcessFacts DEF RowsSound, LocalsConsistent, StartRun, InsertTask
<1>2. ASSUME NEW p \in Procs, Proceed(p)
      PROVE  UNCHANGED <<runStatus, status>>
  BY <1>1, <1>2 DEF Proceed, InsertDep, PlanStored, FinishStart, GetRun, ListForTimeout,
     ListAttempts, TimeOut, ListForMark, ListDeps, Mark, Recompute, ReadRun, ListForDispatch,
     Dispatch, Increment, Reread, CreateAttempt, AttemptExists, UpdateCompleted, CancelList,
     CancelTask, rows
<1>3. ASSUME NEW p \in Procs,
             \/ Poll(p) \/ CancelRun(p) \/ CreateTasksFails(p) \/ Abort(p)
             \/ \E c \in calls : ExecutorReturns(p, c)
      PROVE  UNCHANGED <<runStatus, status>>
  BY <1>3 DEF Poll, CancelRun, CreateTasksFails, Abort, ExecutorReturns, rows
<1>4. CASE Crash \/ (\E c \in Tasks \X AttemptNos : Elapse(c)) \/ UNCHANGED vars
  BY <1>4 DEF Crash, Elapse, vars, rows
<1>5. QED
  BY <1>1, <1>2, <1>3, <1>4 DEF Next

\* The orchestrator implements DagRun: whatever its goroutines interleave, the
\* rows of the run and of its tasks make only the moves the promise allows.
THEOREM PromiseIsKept == PlannedSpec => PromiseKept
<1>1. PlannedInit => Promise!Init
  BY DEF PlannedInit, Promise!Init
<1>2. DagInv /\ [Next]_vars => [Promise!Next]_(Promise!vars)
  BY CasTaskPromised, CasRunPromised, StatusesKept DEF Promise!vars
<1>3. QED
  BY <1>1, <1>2, DagInvariant, PTL DEF PlannedSpec, PromiseKept, Promise!Spec

\* The statuses of a planned run follow the transition tables, although the
\* tables are checked on rows read a statement before they are written.
THEOREM LegalStepsKept == PlannedSpec => LegalSteps
<1> DEFINE Legal == /\ CanTransitionRun(runStatus, runStatus')
                    /\ \A t \in Tasks : CanTransitionTask(status[t], status'[t])
<1>1. ASSUME DagInv, NEW p \in Procs, CasTask(p)
      PROVE  Legal
  BY <1>1, CasTaskFacts DEF CasTask, CanTransitionRun
<1>2. ASSUME DagInv, NEW p \in Procs, CasRun(p)
      PROVE  Legal
  <2>1. LocalsMeaningful(loc[p])
    BY <1>2, ProcessFacts
  <2>2. QED
    BY <1>2, <2>1 DEF CasRun, RunRowAsRead, LocalsMeaningful, CanTransitionRun,
                      CanTransitionTask
<1>3. ASSUME DagInv, [Next]_vars, \A p \in Procs : ~CasTask(p) /\ ~CasRun(p)
      PROVE  Legal
  BY <1>3, StatusesKept DEF CanTransitionRun, CanTransitionTask
<1>4. DagInv /\ [Next]_vars => [Legal]_vars
  BY <1>1, <1>2, <1>3
<1>5. QED
  BY <1>4, DagInvariant, PTL DEF PlannedSpec, LegalSteps
=============================================================================
