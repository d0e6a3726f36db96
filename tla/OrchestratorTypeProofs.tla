------------------------ MODULE OrchestratorTypeProofs ------------------------
(***************************************************************************)
(* Type correctness of the orchestrator, for every plan, every number of   *)
(* processes and every bound: what its helpers return, then every action.  *)
(***************************************************************************)
EXTENDS OrchestratorInv, TLAPS

Typed(l) == l \in Local /\ LocalsMeaningful(l)

\* No attempt yet is a legal count.
LEMMA ZeroAttempts == 0 \in 0 .. MaxAttempts
  BY BoundsAssumption

\* The local variables a goroutine starts with are well typed.
LEMMA IdleType == Typed(Idle)
<1>1. /\ [t \in Tasks |-> "absent"] \in [Tasks -> TaskStatus]
      /\ [t \in Tasks |-> 0] \in [Tasks -> 0 .. MaxAttempts]
  BY ZeroAttempts DEF TaskStatus
<1>2. Idle \in Local
  BY <1>1, ZeroAttempts DEF Idle, Local, PCs, TaskStatus, RunStatus, AttemptStatus
<1>3. QED
  BY <1>2 DEF Idle, LocalsMeaningful, UpdatingTask, Typed

\* Forgetting the task of the last UpdateTaskStatus keeps the types.
LEMMA ClearType ==
    ASSUME NEW l \in Local
    PROVE  Clear(l) \in Local
  BY ZeroAttempts DEF Clear, Local, TaskStatus, AttemptStatus

\* Most control points carry no argument.
LEMMA NoArgument ==
    ASSUME NEW l \in Local, l.pc \notin UpdatingTask \cup {"casRun"}
    PROVE  Typed(l)
  BY DEF Typed, LocalsMeaningful, UpdatingTask

\* Moving to a control point that carries no argument.
LEMMA PcType ==
    ASSUME NEW l \in Local,
           NEW pc \in PCs \ (UpdatingTask \cup {"casRun"})
    PROVE  Typed([l EXCEPT !.pc = pc])
  BY DEF Local, PCs, LocalsMeaningful, Typed, UpdatingTask

\* dispatchReadyTasks goes on with its loop or returns.
LEMMA DispatchingType ==
    ASSUME NEW l \in Local
    PROVE  Typed(Dispatching(l))
  BY IdleType, PcType DEF Dispatching, PCs, UpdatingTask

\* completeTaskAttempt returns to its caller.
LEMMA AfterCompleteType ==
    ASSUME NEW l \in Local
    PROVE  Typed(AfterComplete(l))
<1>1. Typed([Clear(l) EXCEPT !.pc = "timeouts"])
  BY ClearType, PcType DEF PCs, UpdatingTask
<1>2. Typed([Idle EXCEPT !.pc = "getRun", !.op = "reconcile"])
  <2> DEFINE m == [Idle EXCEPT !.pc = "getRun", !.op = "reconcile"]
  <2>1. "getRun" \in PCs \ (UpdatingTask \cup {"casRun"})
    BY DEF PCs, UpdatingTask
  <2>2. Idle \in Local
    BY IdleType DEF Typed
  <2>3. m \in Local /\ m.pc = "getRun"
    BY <2>1, <2>2 DEF Local
  <2>4. QED
    BY <2>1, <2>3, NoArgument
<1>3. QED
  BY <1>1, <1>2 DEF AfterComplete

\* Where a process goes on after UpdateTaskStatus has succeeded ...
LEMMA TaskUpdatedType ==
    ASSUME NEW l \in Local, l.task \in Tasks
    PROVE  Typed(TaskUpdated(l))
<1>1. Typed([Clear(l) EXCEPT !.pc = "mark"]) /\ Typed([Clear(l) EXCEPT !.pc = "cancel"])
  BY ClearType, PcType DEF PCs, UpdatingTask
<1>0. /\ {"increment", "readTask", "readRun"} \subseteq PCs
      /\ {"ready", "absent", "cancelled"} \subseteq TaskStatus
      /\ "readRun" \notin UpdatingTask \cup {"casRun"}
  BY DEF PCs, TaskStatus, UpdatingTask
<1>2. Typed([l EXCEPT !.pc = "increment"])
  <2>1. [l EXCEPT !.pc = "increment"] \in Local
    BY <1>0 DEF Local
  <2>2. QED
    BY <2>1 DEF Typed, Local, LocalsMeaningful
<1>3. Typed([l EXCEPT !.pc = "readTask", !.to = "ready", !.old = "absent", !.site = "retry"])
  <2> DEFINE m == [l EXCEPT !.pc = "readTask", !.to = "ready", !.old = "absent",
                            !.site = "retry"]
  <2>1. m \in Local /\ m.pc = "readTask" /\ m.task = l.task
    BY <1>0 DEF Local
  <2>2. QED
    BY <2>1 DEF Typed, LocalsMeaningful
<1>4. \A m \in Local : Typed([m EXCEPT !.pc = "readRun", !.to = "cancelled"])
  <2> DEFINE next(m) == [m EXCEPT !.pc = "readRun", !.to = "cancelled"]
  <2>1. \A m \in Local : next(m) \in Local /\ next(m).pc = "readRun"
    BY <1>0 DEF Local
  <2>2. QED
    BY <1>0, <2>1, NoArgument
<1>5. QED
  BY <1>1, <1>2, <1>3, <1>4, ClearType, AfterCompleteType, IdleType DEF TaskUpdated

\* ... and after it has failed.
LEMMA TaskRefusedType ==
    ASSUME NEW l \in Local
    PROVE  Typed(TaskRefused(l))
  BY ClearType, DispatchingType, AfterCompleteType, IdleType DEF TaskRefused

\* A handler or a goroutine enters a function of the service.
LEMMA CallerType ==
    ASSUME NEW l \in Local, NEW op \in {"none", "start", "reconcile", "exec", "cancel"},
           NEW h \in BOOLEAN, NEW pc \in PCs \ (UpdatingTask \cup {"casRun"})
    PROVE  Typed([l EXCEPT !.pc = pc, !.op = op, !.http = h])
<1>1. [l EXCEPT !.pc = pc, !.op = op, !.http = h] \in Local
  BY DEF Local
<1>2. [l EXCEPT !.pc = pc, !.op = op, !.http = h].pc = pc
  BY DEF Local
<1>3. QED
  BY <1>1, <1>2 DEF Typed, LocalsMeaningful, UpdatingTask

\* The same for UpdateRunStatus.
LEMMA RunUpdatedType ==
    ASSUME NEW l \in Local, NEW cur
    PROVE  Typed(RunUpdated(l, cur))
<1>1. l.http \in BOOLEAN /\ Idle \in Local
  BY IdleType DEF Local, Typed
<1>2. {"listForMark", "listForDispatch"} \subseteq PCs \ (UpdatingTask \cup {"casRun"})
  BY DEF PCs, UpdatingTask
<1>3. Typed([Idle EXCEPT !.pc = "listForMark", !.op = "start", !.http = l.http])
  BY <1>1, <1>2, CallerType
<1>4. Typed([Idle EXCEPT !.pc = "listForDispatch", !.op = "reconcile", !.http = l.http])
  BY <1>1, <1>2, CallerType
<1>5. QED
  BY <1>3, <1>4, IdleType DEF RunUpdated

\* transitionRun checks the caller's copy of the run and goes on or gives up.
LEMMA TransitionType ==
    ASSUME NEW l \in Local, NEW to \in RunStatus
    PROVE  Typed(Transition(l, to))
<1>1. [l EXCEPT !.to = to] \in Local
  BY DEF Local
<1>2. Typed([l EXCEPT !.pc = "readRun", !.to = to])
  <2> DEFINE m == [l EXCEPT !.pc = "readRun", !.to = to]
  <2>1. "readRun" \in PCs \ (UpdatingTask \cup {"casRun"})
    BY DEF PCs, UpdatingTask
  <2>2. m \in Local /\ m.pc = "readRun"
    BY <2>1 DEF Local
  <2>3. QED
    BY <2>1, <2>2, NoArgument
<1>3. QED
  BY <1>1, <1>2, RunUpdatedType, IdleType DEF Transition

\* Storing well-typed local variables keeps the process table well typed.
LEMMA BecomeType ==
    ASSUME loc \in [Procs -> Local], \A q \in Procs : LocalsMeaningful(loc[q]),
           NEW p \in Procs, NEW l, Typed(l), Become(p, l)
    PROVE  loc' \in [Procs -> Local] /\ \A q \in Procs : LocalsMeaningful(loc'[q])
  BY DEF Become, Typed

\* UpdateTaskStatus reads the row and moves on.
LEMMA ReadTaskType ==
    ASSUME TypeInv, NEW p \in Procs, NEW l \in Local, l.task \in Tasks, ReadTask(p, l)
    PROVE  loc' \in [Procs -> Local] /\ \A q \in Procs : LocalsMeaningful(loc'[q])
<1> USE DEF TypeInv, TypeOK
<1>1. CASE Become(p, TaskRefused(l))
  BY <1>1, TaskRefusedType, BecomeType
<1>2. CASE Become(p, TaskUpdated(l))
  BY <1>2, TaskUpdatedType, BecomeType
<1>3. ASSUME CanTransitionTask(status[l.task], l.to),
             Become(p, [l EXCEPT !.pc = "casTask", !.old = status[l.task]])
      PROVE  loc' \in [Procs -> Local] /\ \A q \in Procs : LocalsMeaningful(loc'[q])
  <2>1. Typed([l EXCEPT !.pc = "casTask", !.old = status[l.task]])
    <3> DEFINE m == [l EXCEPT !.pc = "casTask", !.old = status[l.task]]
    <3>1. "casTask" \in PCs /\ status[l.task] \in TaskStatus
      BY DEF PCs
    <3>2. /\ m \in Local /\ m.pc = "casTask" /\ m.task = l.task /\ m.to = l.to
          /\ m.old = status[l.task]
      BY <3>1 DEF Local
    <3>3. QED
      BY <1>3, <3>1, <3>2 DEF Typed, LocalsMeaningful
  <2>2. QED
    BY <1>3, <2>1, BecomeType
<1>4. QED
  BY <1>1, <1>2, <1>3 DEF ReadTask
-----------------------------------------------------------------------------
(***************************************************************************)
(* The actions.  TypeInv falls into the process table and the rest; each   *)
(* action is shown to preserve both.                                       *)
(***************************************************************************)
TypedLocals == loc \in [Procs -> Local] /\ \A p \in Procs : LocalsMeaningful(loc[p])

TypedRows ==
    /\ runStatus \in RunStatus
    /\ status \in [Tasks -> TaskStatus]
    /\ count \in [Tasks -> 0 .. MaxAttempts]
    /\ depRows \subseteq Deps
    /\ attempt \in [Tasks -> [AttemptNos -> AttemptStatus]]
    /\ calls \subseteq Tasks \X AttemptNos
    /\ overdue \subseteq Tasks \X AttemptNos
    /\ interrupted \subseteq Tasks \X AttemptNos
    /\ faults \in [crash : Nat, abort : Nat, insert : Nat, overdue : Nat, cancel : Nat]

\* The two parts together are TypeInv.
LEMMA TypeInvParts ==
    /\ TypeInv <=> TypedRows /\ TypedLocals
    /\ TypeInv' <=> TypedRows' /\ TypedLocals'
  BY DEF TypeInv, TypeOK, TypedRows, TypedLocals

\* An empty database and a plan just stored are well typed.
LEMMA TypeOfInit ==
    ASSUME Init \/ PlannedInit
    PROVE  TypeInv
<1>1. NoFaults \in [crash : Nat, abort : Nat, insert : Nat, overdue : Nat, cancel : Nat]
  BY BoundsAssumption DEF NoFaults
<1>2. TypedRows
  BY <1>1, ZeroAttempts DEF Init, PlannedInit, TypedRows, RunStatus, TaskStatus, AttemptStatus
<1>3. CASE Init
  BY <1>2, <1>3, IdleType, TypeInvParts DEF Init, TypedLocals, Typed
<1>4. CASE PlannedInit
  <2> DEFINE m == [Idle EXCEPT !.pc = "readRun", !.op = "start", !.http = TRUE,
                               !.run = "planning", !.to = "dispatching"]
  <2>0. /\ "readRun" \in PCs \ (UpdatingTask \cup {"casRun"})
        /\ "planning" \in RunStatus /\ "dispatching" \in RunStatus /\ Idle \in Local
    BY IdleType DEF PCs, RunStatus, UpdatingTask, Typed
  <2>1. m \in Local /\ m.pc = "readRun"
    BY <2>0 DEF Local
  <2>2. Typed(m)
    BY <2>0, <2>1, NoArgument
  <2>3. TypedLocals
    BY <1>4, <2>2, IdleType DEF PlannedInit, TypedLocals, Typed
  <2>4. QED
    BY <1>2, <2>3, TypeInvParts
<1>5. QED
  BY <1>3, <1>4

\* CasTask: the status that is written follows the table from the one read.
LEMMA CasTaskType ==
    ASSUME TypeInv, NEW p \in Procs, CasTask(p)
    PROVE  TypeInv'
<1> DEFINE l == loc[p]
<1>1. l \in Local /\ l.task \in Tasks /\ l.old \in TaskStatus /\ CanTransitionTask(l.old, l.to)
  BY DEF TypeInv, TypeOK, CasTask, LocalsMeaningful, UpdatingTask
<1>2. l.to \in TaskStatus
  BY <1>1 DEF CanTransitionTask, TaskStatus
<1>3. TypedLocals'
  <2>1. Become(p, TaskUpdated(l)) \/ Become(p, TaskRefused(l))
    BY DEF CasTask
  <2>2. QED
    BY <1>1, <2>1, TaskUpdatedType, TaskRefusedType, BecomeType DEF TypeInv, TypeOK, TypedLocals
<1>4. TypedRows'
  BY <1>2 DEF CasTask, TypeInv, TypeOK, TypedRows, env
<1>5. QED
  BY <1>3, <1>4, TypeInvParts

\* CasRun, likewise.
LEMMA CasRunType ==
    ASSUME TypeInv, NEW p \in Procs, CasRun(p)
    PROVE  TypeInv'
<1> DEFINE l == loc[p]
<1>1. l \in Local /\ l.old \in RunStatus /\ CanTransitionRun(l.old, l.to)
  BY DEF TypeInv, TypeOK, CasRun, LocalsMeaningful
<1>2. l.to \in RunStatus
  BY <1>1 DEF CanTransitionRun, RunStatus
<1>3. TypedLocals'
  <2>1. \E cur : Become(p, RunUpdated(l, cur)) \/ Become(p, Idle)
    BY DEF CasRun
  <2>2. QED
    BY <1>1, <2>1, RunUpdatedType, IdleType, BecomeType DEF TypeInv, TypeOK, TypedLocals
<1>4. TypedRows'
  BY <1>2 DEF CasRun, TypeInv, TypeOK, TypedRows, env
<1>5. QED
  BY <1>3, <1>4, TypeInvParts

\* UpdateRunStatus reads the row and moves on.
LEMMA ReadRunType ==
    ASSUME TypeInv, NEW p \in Procs, ReadRun(p)
    PROVE  TypeInv'
<1> DEFINE l == loc[p]
<1>1. l \in Local
  BY DEF TypeInv, TypeOK
<1>2. TypedLocals'
  <2>1. CASE Become(p, Idle)
    BY <2>1, IdleType, BecomeType DEF TypeInv, TypeOK, TypedLocals
  <2>2. CASE Become(p, RunUpdated(l, runStatus))
    BY <1>1, <2>2, RunUpdatedType, BecomeType DEF TypeInv, TypeOK, TypedLocals
  <2>3. ASSUME CanTransitionRun(runStatus, l.to),
               Become(p, [l EXCEPT !.pc = "casRun", !.old = runStatus])
        PROVE  TypedLocals'
    <3>1. Typed([l EXCEPT !.pc = "casRun", !.old = runStatus])
      <4> DEFINE m == [l EXCEPT !.pc = "casRun", !.old = runStatus]
      <4>1. "casRun" \in PCs \ UpdatingTask /\ runStatus \in RunStatus
        BY DEF PCs, UpdatingTask, TypeInv, TypeOK
      <4>2. m \in Local /\ m.pc = "casRun" /\ m.to = l.to /\ m.old = runStatus
        BY <1>1, <4>1 DEF Local
      <4>3. QED
        BY <2>3, <4>1, <4>2 DEF Typed, LocalsMeaningful
    <3>2. QED
      BY <2>3, <3>1, BecomeType DEF TypeInv, TypeOK, TypedLocals
  <2>4. QED
    BY <2>1, <2>2, <2>3 DEF ReadRun
<1>3. TypedRows'
  BY DEF ReadRun, TypeInv, TypeOK, TypedRows, env
<1>4. QED
  BY <1>2, <1>3, TypeInvParts

\* The actions that only store the plan.
LEMMA StartType ==
    ASSUME TypeInv, NEW p \in Procs,
           StartRun(p) \/ InsertTask(p) \/ InsertDep(p) \/ CreateTasksFails(p)
                       \/ PlanStored(p) \/ FinishStart(p)
    PROVE  TypeInv'
<1> DEFINE l == loc[p]
<1>0. l \in Local /\ TypedLocals /\ TypedRows
  BY TypeInvParts DEF TypedLocals
<1>1. CASE StartRun(p)
  <2> DEFINE m == [Idle EXCEPT !.pc = "createTasks", !.op = "start", !.http = TRUE,
                               !.run = "planning", !.todo = Tasks]
  <2>0. /\ "createTasks" \in PCs \ (UpdatingTask \cup {"casRun"})
        /\ "planning" \in RunStatus /\ Idle \in Local
    BY IdleType DEF PCs, RunStatus, UpdatingTask, Typed
  <2>1. m \in Local /\ m.pc = "createTasks"
    BY <2>0 DEF Local
  <2>2. Typed(m)
    BY <2>0, <2>1, NoArgument
  <2>3. TypedLocals'
    BY <1>0, <1>1, <2>2, BecomeType DEF StartRun, TypedLocals
  <2>4. TypedRows'
    BY <1>0, <1>1 DEF StartRun, TypedRows, env, RunStatus
  <2>5. QED
    BY <2>3, <2>4, TypeInvParts
<1>2. CASE InsertTask(p)
  <2>1. \A t \in l.todo : Typed([l EXCEPT !.todo = l.todo \ {t}])
    BY <1>0, <1>2 DEF InsertTask, Typed, Local, LocalsMeaningful, UpdatingTask
  <2>2. TypedLocals'
    BY <1>0, <1>2, <2>1, BecomeType DEF InsertTask, TypedLocals
  <2>3. TypedRows'
    BY <1>0, <1>2 DEF InsertTask, TypedRows, env, TaskStatus
  <2>4. QED
    BY <2>2, <2>3, TypeInvParts
<1>3. CASE InsertDep(p)
  BY <1>0, <1>3, TypeInvParts DEF InsertDep, TypedLocals, TypedRows, env
<1>4. CASE CreateTasksFails(p)
  <2>1. [l EXCEPT !.todo = {}] \in Local /\ "failed" \in RunStatus
    BY <1>0 DEF Local, RunStatus
  <2>2. TypedLocals'
    BY <1>0, <1>4, <2>1, TransitionType, BecomeType DEF CreateTasksFails, TypedLocals
  <2>3. TypedRows'
    BY <1>0, <1>4 DEF CreateTasksFails, TypedRows, rows
  <2>4. QED
    BY <2>2, <2>3, TypeInvParts
<1>5. CASE PlanStored(p)
  <2>1. "dispatching" \in RunStatus
    BY DEF RunStatus
  <2>2. TypedLocals'
    BY <1>0, <1>5, <2>1, TransitionType, BecomeType DEF PlanStored, TypedLocals
  <2>3. TypedRows'
    BY <1>0, <1>5 DEF PlanStored, TypedRows, env
  <2>4. QED
    BY <2>2, <2>3, TypeInvParts
<1>6. CASE FinishStart(p)
  <2>1. TypedLocals'
    BY <1>0, <1>6, IdleType, BecomeType DEF FinishStart, TypedLocals
  <2>2. TypedRows'
    BY <1>0, <1>6 DEF FinishStart, TypedRows, rows, env
  <2>3. QED
    BY <2>1, <2>2, TypeInvParts
<1>7. QED
  BY <1>1, <1>2, <1>3, <1>4, <1>5, <1>6

\* A step that only moves a process.
LEMMA LocalStepType ==
    ASSUME TypeInv, NEW p \in Procs, NEW l, Typed(l), Become(p, l), UNCHANGED <<rows, env>>
    PROVE  TypeInv'
<1>1. TypedLocals'
  BY BecomeType DEF TypeInv, TypeOK, TypedLocals
<1>2. TypedRows'
  BY DEF TypeInv, TypeOK, TypedRows, rows, env
<1>3. QED
  BY <1>1, <1>2, TypeInvParts

\* ReconcileRun reads the run and starts, or returns.
LEMMA ReconcilingType ==
    ASSUME TypeInv, NEW http \in BOOLEAN
    PROVE  Typed(Reconciling(http))
<1> DEFINE m == [Idle EXCEPT !.pc = "listForTimeout", !.op = "reconcile",
                             !.http = http, !.run = runStatus]
<1>1. /\ "listForTimeout" \in PCs \ (UpdatingTask \cup {"casRun"})
      /\ runStatus \in RunStatus /\ Idle \in Local
  BY IdleType DEF PCs, UpdatingTask, Typed, TypeInv, TypeOK
<1>2. m \in Local /\ m.pc = "listForTimeout"
  BY <1>1 DEF Local
<1>3. Typed(m)
  BY <1>1, <1>2, NoArgument
<1>4. QED
  BY <1>3, IdleType DEF Reconciling

\* The lists a reconcile takes before it changes anything.
LEMMA ListType ==
    ASSUME TypeInv, NEW p \in Procs,
           Poll(p) \/ GetRun(p) \/ ListForTimeout(p) \/ ListAttempts(p) \/ ListForMark(p)
                   \/ ListDeps(p) \/ Recompute(p) \/ ListForDispatch(p)
    PROVE  TypeInv'
<1> DEFINE l == loc[p]
<1>0. l \in Local /\ l.http \in BOOLEAN /\ status \in [Tasks -> TaskStatus] /\ Idle \in Local
  BY IdleType DEF TypeInv, TypeOK, Local, Typed
<1>1. CASE Poll(p)
  BY <1>1, ReconcilingType, LocalStepType DEF Poll
<1>2. CASE GetRun(p)
  BY <1>0, <1>2, ReconcilingType, LocalStepType DEF GetRun
<1>3. CASE ListForTimeout(p)
  <2>1. Running(status) \subseteq Tasks
    BY DEF Running
  <2> DEFINE m == [l EXCEPT !.pc = "listAttempts", !.busy = Running(status),
                            !.spare = {t \in Running(status) : MayRetry(t, count[t])}]
  <2>2. "listAttempts" \in PCs \ (UpdatingTask \cup {"casRun"})
    BY DEF PCs, UpdatingTask
  <2>3. m \in Local /\ m.pc = "listAttempts"
    BY <1>0, <2>1, <2>2 DEF Local
  <2>4. QED
    BY <1>3, <2>2, <2>3, NoArgument, LocalStepType DEF ListForTimeout
<1>4. CASE ListAttempts(p)
  <2>1. PICK latest \in [Tasks -> 0 .. MaxAttempts] :
           Become(p, [l EXCEPT !.pc = "timeouts", !.busy = {}, !.latest = latest,
                               !.todo = {t \in l.busy : latest[t] # 0}])
    BY <1>4 DEF ListAttempts
  <2> DEFINE m == [l EXCEPT !.pc = "timeouts", !.busy = {}, !.latest = latest,
                            !.todo = {t \in l.busy : latest[t] # 0}]
  <2>2. "timeouts" \in PCs \ (UpdatingTask \cup {"casRun"})
    BY DEF PCs, UpdatingTask
  <2>3. m \in Local /\ m.pc = "timeouts"
    BY <1>0, <2>2 DEF Local
  <2>4. QED
    BY <1>4, <2>1, <2>2, <2>3, NoArgument, LocalStepType DEF ListAttempts
<1>5. CASE ListForMark(p)
  <2> DEFINE m == [Idle EXCEPT !.pc = "listDeps", !.op = l.op, !.http = l.http,
                               !.run = l.run, !.seen = status]
  <2>1. "listDeps" \in PCs \ (UpdatingTask \cup {"casRun"})
    BY DEF PCs, UpdatingTask
  <2>2. /\ l.op \in {"none", "start", "reconcile", "exec", "cancel"}
        /\ l.http \in BOOLEAN /\ l.run \in RunStatus
    BY <1>0 DEF Local
  <2>3. Idle \in Local
    BY IdleType DEF Typed
  <2>4. m \in Local /\ m.pc = "listDeps"
    BY <1>0, <2>1, <2>2, <2>3 DEF Local
  <2>5. Typed(m)
    BY <2>1, <2>4, NoArgument
  <2>6. QED
    BY <1>5, <2>5, LocalStepType DEF ListForMark
<1>6. CASE ListDeps(p)
  <2>1. PICK todo \in SUBSET Tasks, block \in SUBSET Tasks :
           Become(p, [l EXCEPT !.pc = "mark", !.seen = Idle.seen, !.todo = todo, !.block = block])
    BY <1>6 DEF ListDeps
  <2> DEFINE m == [l EXCEPT !.pc = "mark", !.seen = Idle.seen, !.todo = todo, !.block = block]
  <2>2. "mark" \in PCs \ (UpdatingTask \cup {"casRun"}) /\ Idle.seen \in [Tasks -> TaskStatus]
    BY <1>0 DEF PCs, UpdatingTask, Local
  <2>3. m \in Local /\ m.pc = "mark"
    BY <1>0, <2>2 DEF Local
  <2>4. QED
    BY <1>6, <2>1, <2>2, <2>3, NoArgument, LocalStepType DEF ListDeps
<1>7. CASE Recompute(p)
  <2>1. DerivedRunStatus(status) \in RunStatus
    BY DEF DerivedRunStatus, RunStatus
  <2>2. QED
    BY <1>0, <1>7, <2>1, TransitionType, LocalStepType DEF Recompute
<1>8. CASE ListForDispatch(p)
  <2>1. [l EXCEPT !.todo = {t \in Tasks : status[t] = "ready"}, !.busy = Running(status)]
          \in Local
    BY <1>0 DEF Local, Running
  <2>2. QED
    BY <1>8, <2>1, DispatchingType, LocalStepType DEF ListForDispatch
<1>9. QED
  BY <1>1, <1>2, <1>3, <1>4, <1>5, <1>6, <1>7, <1>8

\* The calls of UpdateTaskStatus.
LEMMA UpdateType ==
    ASSUME TypeInv, NEW p \in Procs,
           Mark(p) \/ Dispatch(p) \/ UpdateCompleted(p) \/ CancelTask(p)
    PROVE  TypeInv'
<1> DEFINE l == loc[p]
<1>0. l \in Local
  BY DEF TypeInv, TypeOK
<1>1. \E m \in Local : m.task \in Tasks /\ ReadTask(p, m)
  <2>1. CASE Mark(p)
    <3> DEFINE m(t) == [l EXCEPT !.task = t, !.site = "mark", !.todo = @ \ {t}, !.block = @ \ {t},
                                 !.to = IF t \in l.block THEN "blocked" ELSE "ready"]
    <3>1. PICK t \in l.todo : ReadTask(p, m(t))
      BY <2>1 DEF Mark
    <3>2. m(t) \in Local /\ m(t).task \in Tasks
      BY <1>0 DEF Local, TaskStatus
    <3>3. QED
      BY <3>1, <3>2
  <2>2. CASE Dispatch(p)
    <3> DEFINE m(t) == [l EXCEPT !.task = t, !.to = "running", !.site = "dispatch", !.todo = @ \ {t}]
    <3>1. PICK t \in Dispatchable(l) : ReadTask(p, m(t))
      BY <2>2 DEF Dispatch
    <3>2. m(t) \in Local /\ m(t).task \in Tasks
      BY <1>0 DEF Local, TaskStatus, Dispatchable
    <3>3. QED
      BY <3>1, <3>2
  <2>3. CASE UpdateCompleted(p)
    BY <1>0, <2>3 DEF UpdateCompleted, TypeInv, LocalsMeaningful, UpdatingTask
  <2>4. CASE CancelTask(p)
    <3> DEFINE m(t) == [l EXCEPT !.task = t, !.to = "cancelled", !.site = "cancel", !.todo = @ \ {t}]
    <3>1. PICK t \in l.todo : ReadTask(p, m(t))
      BY <2>4 DEF CancelTask
    <3>2. m(t) \in Local /\ m(t).task \in Tasks
      BY <1>0 DEF Local, TaskStatus
    <3>3. QED
      BY <3>1, <3>2
  <2>5. QED
    BY <2>1, <2>2, <2>3, <2>4
<1>2. TypedLocals'
  BY <1>1, ReadTaskType DEF TypedLocals
<1>3. TypedRows'
  BY DEF Mark, Dispatch, UpdateCompleted, CancelTask, TypeInv, TypeOK, TypedRows, env
<1>4. QED
  BY <1>2, <1>3, TypeInvParts

\* An attempt is started ...
LEMMA AttemptType ==
    ASSUME TypeInv, NEW p \in Procs,
           Increment(p) \/ Reread(p) \/ CreateAttempt(p) \/ AttemptExists(p)
    PROVE  TypeInv'
<1> DEFINE l == loc[p]
<1>0. /\ l \in Local /\ l.task \in Tasks /\ count \in [Tasks -> 0 .. MaxAttempts]
      /\ MaxAttempts \in Nat \ {0} /\ TypedLocals /\ TypedRows
  BY BoundsAssumption, TypeInvParts
  DEF TypeInv, TypeOK, LocalsMeaningful, UpdatingTask, Increment, Reread, CreateAttempt, AttemptExists
<1>1. CASE Increment(p)
  <2>1. Typed([l EXCEPT !.pc = "reread"])
    BY <1>0 DEF Typed, Local, PCs, LocalsMeaningful, UpdatingTask
  <2>2. TypedLocals'
    BY <1>0, <1>1, <2>1, BecomeType DEF Increment, TypedLocals
  <2>3. count[l.task] + 1 \in 0 .. MaxAttempts
    BY <1>0, <1>1 DEF Increment
  <2>4. TypedRows'
    BY <1>0, <1>1, <2>3 DEF Increment, TypedRows, env
  <2>5. QED
    BY <2>2, <2>4, TypeInvParts
<1>2. CASE Reread(p)
  <2> DEFINE no == IF count[l.task] = 0 THEN 1 ELSE count[l.task]
             m  == [l EXCEPT !.pc = "createAttempt", !.no = no]
  <2>1. no \in 1 .. MaxAttempts
    <3>1. count[l.task] \in 0 .. MaxAttempts
      BY <1>0
    <3>2. QED
      BY <1>0, <3>1
  <2> HIDE DEF no
  <2>2. /\ m \in Local /\ m.pc = "createAttempt"
        /\ m.task = l.task /\ m.no = no
    <3>1. "createAttempt" \in PCs /\ no \in 0 .. MaxAttempts
      BY <1>0, <2>1 DEF PCs
    <3>2. QED
      BY <1>0, <3>1 DEF Local
  <2>3. Typed(m)
    BY <1>0, <2>1, <2>2 DEF Typed, LocalsMeaningful
  <2>4. Become(p, m)
    BY <1>2 DEF Reread, no
  <2>5. QED
    BY <1>2, <2>3, <2>4, LocalStepType DEF Reread
<1>3. CASE CreateAttempt(p)
  <2>1. l.no \in AttemptNos
    BY <1>0, <1>3 DEF CreateAttempt, TypedLocals, LocalsMeaningful, Local, AttemptNos
  <2>2. [l EXCEPT !.busy = @ \cup {l.task}] \in Local
    BY <1>0 DEF Local
  <2>3. TypedLocals'
    BY <1>0, <1>3, <2>2, ClearType, DispatchingType, BecomeType DEF CreateAttempt, TypedLocals
  <2>4. TypedRows'
    BY <1>0, <1>3, <2>1 DEF CreateAttempt, TypedRows, AttemptStatus
  <2>5. QED
    BY <2>3, <2>4, TypeInvParts
<1>4. CASE AttemptExists(p)
  BY <1>4, IdleType, LocalStepType DEF AttemptExists
<1>5. QED
  BY <1>1, <1>2, <1>3, <1>4

\* completeTaskAttempt calls UpdateTaskStatus.
LEMMA CompletingType ==
    ASSUME NEW l \in Local, NEW t \in Tasks, NEW n \in 0 .. MaxAttempts,
           NEW outcome \in AttemptStatus, NEW retry \in BOOLEAN
    PROVE  Typed(Completing(l, t, n, outcome, retry))
<1>1. CompletedTo(outcome) \in TaskStatus /\ "readTask" \in PCs
  BY DEF CompletedTo, TaskStatus, PCs
<1>2. /\ Completing(l, t, n, outcome, retry) \in Local
      /\ Completing(l, t, n, outcome, retry).pc = "readTask"
      /\ Completing(l, t, n, outcome, retry).task = t
  BY <1>1 DEF Completing, Local
<1>3. QED
  BY <1>2 DEF Typed, LocalsMeaningful

\* ... and completed.
LEMMA CompleteType ==
    ASSUME TypeInv, NEW p \in Procs,
           TimeOut(p) \/ \E c \in calls : ExecutorReturns(p, c)
    PROVE  TypeInv'
<1> DEFINE l == loc[p]
<1>0. l \in Local /\ TypedLocals /\ TypedRows /\ "timed_out" \in AttemptStatus
  BY TypeInvParts DEF TypedLocals, AttemptStatus
<1>1. CASE TimeOut(p)
  <2>1. PICK t \in l.todo, passed \in SUBSET l.todo :
           /\ CompleteAttempt(t, l.latest[t], "timed_out")
           /\ Become(p, Completing([l EXCEPT !.todo = @ \ (passed \cup {t})],
                                   t, l.latest[t], "timed_out", t \in l.spare))
    BY <1>1 DEF TimeOut
  <2>2. /\ [l EXCEPT !.todo = @ \ (passed \cup {t})] \in Local
        /\ t \in Tasks
        /\ l.latest[t] \in 0 .. MaxAttempts
    BY <1>0 DEF Local
  <2>3. Typed(Completing([l EXCEPT !.todo = @ \ (passed \cup {t})],
                         t, l.latest[t], "timed_out", t \in l.spare))
    BY <1>0, <2>2, CompletingType, (t \in l.spare) \in BOOLEAN
  <2>4. TypedLocals'
    BY <1>0, <2>1, <2>3, BecomeType DEF TypedLocals
  <2>5. TypedRows'
    BY <1>0, <1>1, <2>1 DEF TimeOut, CompleteAttempt, TypedRows, env
  <2>6. QED
    BY <2>4, <2>5, TypeInvParts
<1>2. ASSUME NEW c \in calls, ExecutorReturns(p, c)
      PROVE  TypeInv'
  <2>1. c[1] \in Tasks /\ c[2] \in AttemptNos /\ c[2] \in 0 .. MaxAttempts
    BY <1>0, BoundsAssumption DEF TypedRows, AttemptNos
  <2>2. PICK result \in AttemptStatus, retry \in BOOLEAN :
           /\ CompleteAttempt(c[1], c[2], result)
           /\ Become(p, Completing([Idle EXCEPT !.op = "exec"], c[1], c[2], result, retry))
    <3>1. PICK o \in OutcomesOf(c) :
            /\ CompleteAttempt(c[1], c[2], AttemptResult(o))
            /\ Become(p, Completing([Idle EXCEPT !.op = "exec"], c[1], c[2], AttemptResult(o),
                         o \in {"retryable", "timed_out"} /\ MayRetry(c[1], c[2])))
      BY <1>2 DEF ExecutorReturns
    <3>2. AttemptResult(o) \in AttemptStatus
      BY ConfigAssumption DEF AttemptResult, AttemptStatus, OutcomesOf
    <3>3. (o \in {"retryable", "timed_out"} /\ MayRetry(c[1], c[2])) \in BOOLEAN
      OBVIOUS
    <3>4. QED
      BY <3>1, <3>2, <3>3
  <2>3. [Idle EXCEPT !.op = "exec"] \in Local
    BY IdleType DEF Typed, Local
  <2>4. TypedLocals'
    BY <1>0, <2>1, <2>2, <2>3, CompletingType, BecomeType DEF TypedLocals
  <2>5. TypedRows'
    BY <1>0, <1>2, <2>1, <2>2 DEF ExecutorReturns, CompleteAttempt, TypedRows
  <2>6. QED
    BY <2>4, <2>5, TypeInvParts
<1>3. QED
  BY <1>1, <1>2

\* CancelRun.
LEMMA CancelType ==
    ASSUME TypeInv, NEW p \in Procs, CancelRun(p) \/ CancelList(p)
    PROVE  TypeInv'
<1> DEFINE l == loc[p]
<1>0. /\ l \in Local /\ runStatus \in RunStatus /\ TypedLocals /\ TypedRows
      /\ "cancelled" \in RunStatus
      /\ {"cancelList", "cancel"} \subseteq PCs \ (UpdatingTask \cup {"casRun"})
  BY TypeInvParts DEF TypedRows, TypedLocals, RunStatus, PCs, UpdatingTask
<1>1. CASE CancelRun(p)
  <2> DEFINE m == [Idle EXCEPT !.pc = "cancelList", !.op = "cancel", !.http = TRUE,
                               !.run = runStatus]
  <2>0. Idle \in Local /\ "cancelList" \in PCs /\ runStatus \in RunStatus
    BY <1>0, IdleType DEF Typed
  <2>1. m \in Local /\ m.pc = "cancelList"
    BY <2>0 DEF Local
  <2>2. Typed(m)
    BY <1>0, <2>1, NoArgument
  <2>3. TypedLocals'
    BY <1>0, <1>1, <2>2, BecomeType DEF CancelRun, TypedLocals
  <2>4. TypedRows'
    BY <1>0, <1>1 DEF CancelRun, TypedRows, rows
  <2>5. QED
    BY <2>3, <2>4, TypeInvParts
<1>2. CASE CancelList(p)
  <2>1. PICK todo \in SUBSET Tasks :
           Become(p, IF todo = {} THEN Transition(l, "cancelled")
                                  ELSE [l EXCEPT !.pc = "cancel", !.todo = todo])
    BY <1>2 DEF CancelList
  <2> DEFINE m == [l EXCEPT !.pc = "cancel", !.todo = todo]
  <2>2. m \in Local /\ m.pc = "cancel"
    BY <1>0 DEF Local
  <2>3. Typed(m)
    BY <1>0, <2>2, NoArgument
  <2>4. QED
    BY <1>0, <1>2, <2>1, <2>3, TransitionType, LocalStepType DEF CancelList
<1>3. QED
  BY <1>1, <1>2

\* Disconnects, restarts and the clock.
LEMMA EnvironmentType ==
    ASSUME TypeInv,
           \/ \E p \in Procs : Abort(p)
           \/ Crash
           \/ \E c \in Tasks \X AttemptNos : Elapse(c)
    PROVE  TypeInv'
<1>0. TypedLocals /\ TypedRows
  BY TypeInvParts
<1>1. ASSUME NEW p \in Procs, Abort(p)
      PROVE  TypeInv'
  <2>1. TypedLocals'
    BY <1>0, <1>1, IdleType, BecomeType DEF Abort, TypedLocals
  <2>2. TypedRows'
    BY <1>0, <1>1 DEF Abort, TypedRows, rows
  <2>3. QED
    BY <2>1, <2>2, TypeInvParts
<1>2. CASE Crash
  <2>1. TypedLocals'
    BY <1>2, IdleType DEF Crash, TypedLocals, Typed
  <2>2. TypedRows'
    BY <1>0, <1>2 DEF Crash, TypedRows, rows
  <2>3. QED
    BY <2>1, <2>2, TypeInvParts
<1>3. ASSUME NEW c \in Tasks \X AttemptNos, Elapse(c)
      PROVE  TypeInv'
  <2>1. TypedLocals'
    BY <1>0, <1>3 DEF Elapse, TypedLocals
  <2>2. TypedRows'
    BY <1>0, <1>3 DEF Elapse, TypedRows, rows
  <2>3. QED
    BY <2>1, <2>2, TypeInvParts
<1>4. QED
  BY <1>1, <1>2, <1>3

\* Every step of the orchestrator preserves the types.
LEMMA TypeStep == TypeInv /\ [Next]_vars => TypeInv'
<1> SUFFICES ASSUME TypeInv, [Next]_vars
             PROVE  TypeInv'
  OBVIOUS
<1>1. ASSUME NEW p \in Procs, Proceed(p)
      PROVE  TypeInv'
  BY <1>1, StartType, ListType, CompleteType, UpdateType, AttemptType, ReadRunType,
     CasRunType, CasTaskType, CancelType DEF Proceed
<1>2. ASSUME NEW p \in Procs,
             \/ StartRun(p) \/ Poll(p) \/ CancelRun(p) \/ CreateTasksFails(p)
             \/ \E c \in calls : ExecutorReturns(p, c)
      PROVE  TypeInv'
  BY <1>2, StartType, ListType, CancelType, CompleteType
<1>3. CASE UNCHANGED vars
  BY <1>3 DEF vars, rows, env, TypeInv, TypeOK
<1>4. QED
  BY <1>1, <1>2, <1>3, EnvironmentType DEF Next

\* Every run of the server keeps the types, from an empty database as well as
\* from a plan that has just been stored: what each process carries from one
\* database statement to the next is an argument its next statement accepts.
THEOREM TypeCorrect == (Spec => []TypeInv) /\ (PlannedSpec => []TypeInv)
<1>1. Init => TypeInv
  BY TypeOfInit
<1>2. PlannedInit => TypeInv
  BY TypeOfInit
<1>3. QED
  BY <1>1, <1>2, TypeStep, PTL DEF Spec, PlannedSpec

\* The variables keep their types in every run of the server: what a process
\* passes to UpdateTaskStatus and UpdateRunStatus is always a status.
THEOREM TypesKept == (Spec => []TypeOK) /\ (PlannedSpec => []TypeOK)
<1>1. TypeInv => TypeOK
  BY DEF TypeInv
<1>2. QED
  BY <1>1, TypeCorrect, PTL
=============================================================================
