------------------------ MODULE OrchestratorFaultProofs ------------------------
(***************************************************************************)
(* What any number of processes keep as long as certain things do not      *)
(* happen: no running task is left alone without a restart or an aborted   *)
(* request, no output is lost without a late attempt, and a plan that one  *)
(* process stores is whole.                                                *)
(***************************************************************************)
EXTENDS OrchestratorStepProofs

\* Some attempt of t runs, or some process still has to insert or to end one.
Owned(t) == RunningAttempts(t) # {} \/ \E q \in Procs : InHand(loc[q], t)

\* TasksOwned, task by task.
LEMMA OwnedParts == TasksOwned <=> \A t \in Running(status) : Owned(t)
BY DEF TasksOwned, Owned

\* A step that touches no attempt of t leaves t to whoever had it.
LEMMA OwnedKept ==
    ASSUME NEW p \in Procs, OthersKept(p), NEW t \in Tasks, Owned(t),
           count'[t] = count[t], attempt'[t] = attempt[t],
           InHand(loc[p], t) => InHand(loc[p], t)'
    PROVE  Owned(t)'
<1>1. CASE RunningAttempts(t) # {}
  BY <1>1 DEF Owned, RunningAttempts
<1>2. ASSUME NEW q \in Procs, InHand(loc[q], t)
      PROVE  InHand(loc[q], t)'
  <2>1. CASE q = p
    BY <1>2, <2>1
  <2>2. CASE q # p
    <3>1. loc'[q] = loc[q]
      BY <2>2 DEF OthersKept
    <3>2. QED
      BY <1>2, <3>1 DEF InHand
  <2>3. QED
    BY <2>1, <2>2
<1>3. QED
  BY <1>1, <1>2 DEF Owned

\* Whoever has no task in hand disturbs nobody's.
LEMMA IdleHands ==
    ASSUME TypeInv, TasksOwned, NEW p \in Procs, Arguments(loc[p]),
           \/ StartRun(p) \/ InsertTask(p) \/ CreateTasksFails(p) \/ PlanStored(p)
           \/ FinishStart(p) \/ Poll(p) \/ GetRun(p) \/ ListForTimeout(p) \/ ListForMark(p)
           \/ ListDeps(p) \/ ListForDispatch(p) \/ Recompute(p) \/ ReadRun(p) \/ CasRun(p)
           \/ AttemptExists(p) \/ CancelRun(p) \/ CancelList(p) \/ ListAttempts(p)
    PROVE  TasksOwned'
<1> DEFINE l == loc[p]
<1>0. /\ status \in [Tasks -> TaskStatus] /\ l \in Local
  BY DEF TypeInv, TypeOK
<1>1. OthersKept(p) /\ UNCHANGED <<count, attempt>>
  <2>1. CASE ListAttempts(p)
    BY <2>1, ListShape DEF rows
  <2>2. CASE ~ListAttempts(p)
    BY <2>2, PlainShape DEF PlainStep
  <2>3. QED
    BY <2>1, <2>2
<1>2. ASSUME NEW t \in Tasks
      PROVE  ~InHand(l, t)
  <2>1. CASE AttemptExists(p)
    BY <2>1 DEF AttemptExists, InHand, Arguments, Claiming
  <2>2. CASE ~AttemptExists(p)
    <3>1. l.pc \notin UpdatingTask
      BY <2>2, IdleShape DEF UpdatingTask, StartRun, InsertTask, CreateTasksFails, PlanStored,
         FinishStart, Poll, GetRun, ListForTimeout, ListForMark, ListDeps, ListForDispatch,
         Recompute, ReadRun, CasRun, CancelRun, CancelList, ListAttempts
    <3>2. QED
      BY <3>1 DEF InHand, UpdatingTask
  <2>3. QED
    BY <2>1, <2>2
<1>3. \A t \in Tasks : status'[t] = "running" => status[t] = "running"
  <2>1. CASE InsertTask(p)
    <3>1. PICK t \in l.todo : status' = [status EXCEPT ![t] = "pending"]
      BY <2>1 DEF InsertTask
    <3>2. QED
      BY <1>0, <3>1
  <2>2. CASE ~InsertTask(p)
    <3>1. status' = status
      BY <2>2 DEF StartRun, CreateTasksFails, PlanStored, FinishStart, Poll, GetRun,
         ListForTimeout, ListForMark, ListDeps, ListForDispatch, Recompute, ReadRun, CasRun,
         AttemptExists, CancelRun, CancelList, ListAttempts, rows
    <3>2. QED
      BY <3>1
  <2>3. QED
    BY <2>1, <2>2
<1>4. ASSUME NEW t \in Tasks, status'[t] = "running"
      PROVE  Owned(t)'
  BY <1>1, <1>2, <1>3, <1>4, OwnedParts, OwnedKept DEF Running
<1>5. QED
  BY <1>4 DEF TasksOwned, Running, Owned

\* UpdateTaskStatus reads the row: what was in hand stays in hand.
LEMMA CallKeepsOwned ==
    ASSUME TypeInv, TasksOwned, NEW p \in Procs, Arguments(loc[p]), CallStep(p)
    PROVE  TasksOwned'
<1> DEFINE l == loc[p]
           m == loc'[p]
<1>0. l \in Local
  BY DEF TypeInv, TypeOK
<1>1. UNCHANGED <<status, count, attempt>> /\ OthersKept(p)
  BY PlainShape DEF CallStep, PlainStep, Mark, Dispatch, UpdateCompleted, CancelTask
<1>2. PICK k \in Local : Calling(k, l) /\ ReadTask(p, k) /\ k.site # "none"
  BY CallShape
<1>3. ReadDone(m, k)
  BY <1>2, ReadTaskShape
<1>4. ASSUME NEW t \in Tasks, status[t] = "running", InHand(l, t)
      PROVE  InHand(m, t)
  <2>1. l.pc = "readTask" /\ k = l /\ l.site = "complete" /\ l.task = t
        /\ l.to \in {"succeeded", "failed"}
    BY <1>2, <1>4 DEF InHand, Calling, Arguments, CallStep, Mark, Dispatch, UpdateCompleted, CancelTask
  <2>2. m.pc = "casTask" /\ m.old = "running" /\ SameCall(m, l)
    BY <1>3, <1>4, <2>1 DEF ReadDone, CanTransitionTask
  <2>3. QED
    BY <2>1, <2>2 DEF InHand, SameCall
<1>5. ASSUME NEW t \in Tasks, status'[t] = "running"
      PROVE  Owned(t)'
  <2>1. Owned(t) /\ (InHand(l, t) => InHand(m, t))
    BY <1>1, <1>4, <1>5, OwnedParts DEF Running
  <2>2. InHand(loc[p], t) => InHand(loc[p], t)'
    BY <1>1, <2>1 DEF InHand
  <2>3. QED
    BY <1>1, <2>1, <2>2, OwnedKept
<1>6. QED
  BY <1>5 DEF TasksOwned, Running, Owned

\* ... and writes it: a task that has just become running is in hand, and one
\* that was not updated any more was out of it.
LEMMA CasKeepsOwned ==
    ASSUME TypeInv, TasksOwned, NEW p \in Procs, Arguments(loc[p]), CasTask(p)
    PROVE  TasksOwned'
<1> DEFINE l == loc[p]
           m == loc'[p]
<1>0. l \in Local /\ l.task \in Tasks /\ status \in [Tasks -> TaskStatus]
  BY DEF TypeInv, TypeOK, LocalsMeaningful, UpdatingTask, CasTask
<1>1. /\ l.pc = "casTask" /\ CasTaskDone(m, l) /\ OthersKept(p)
      /\ UNCHANGED <<count, attempt>>
  BY CasTaskShape
<1>2. ASSUME NEW t \in Tasks, status'[t] = "running", status[t] # "running"
      PROVE  InHand(m, t)
  <2>1. t = l.task /\ l.to = "running" /\ Updated(m, l)
    BY <1>0, <1>1, <1>2 DEF CasTaskDone
  <2>2. l.site = "dispatch"
    BY <1>0, <1>1, <2>1 DEF Arguments, UpdatingTask, Local
  <2>3. m.pc = "increment" /\ SameCall(m, l)
    BY <2>1, <2>2 DEF Updated
  <2>4. QED
    BY <2>1, <2>3 DEF InHand, SameCall
<1>3. ASSUME NEW t \in Tasks, status[t] = "running", status'[t] = "running"
      PROVE  ~InHand(l, t)
  <2>1. SUFFICES ASSUME InHand(l, t)
                 PROVE  FALSE
    OBVIOUS
  <2>2. l.site = "complete" /\ l.old = "running" /\ l.task = t /\ l.to # "running"
    BY <1>1, <2>1 DEF InHand, Arguments
  <2>3. QED
    BY <1>0, <1>1, <1>3, <2>2 DEF CasTaskDone
<1>4. ASSUME NEW t \in Tasks, status'[t] = "running"
      PROVE  Owned(t)'
  <2>1. CASE status[t] = "running"
    BY <1>1, <1>3, <1>4, <2>1, OwnedParts, OwnedKept DEF Running
  <2>2. CASE status[t] # "running"
    <3>1. InHand(loc[p], t)'
      BY <1>1, <1>2, <1>4, <2>2 DEF InHand
    <3>2. QED
      BY <3>1 DEF Owned
  <2>3. QED
    BY <2>1, <2>2
<1>5. QED
  BY <1>4 DEF TasksOwned, Running, Owned

\* From the update to "running" to the attempt's row, and from the end of the
\* attempt to the next update, the task is in the hands of the process.
LEMMA AttemptKeepsOwned ==
    ASSUME CallInv, TypeInv', TasksOwned, NEW p \in Procs,
           \/ Increment(p) \/ Reread(p) \/ CreateAttempt(p)
           \/ TimeOut(p) \/ \E c \in calls : ExecutorReturns(p, c)
    PROVE  TasksOwned'
<1> DEFINE l == loc[p]
           m == loc'[p]
           Kept(t) == count'[t] = count[t] /\ attempt'[t] = attempt[t]
           Taken(t) == RunningAttempts(t)' # {} \/ InHand(loc[p], t)'
<1>0. /\ l \in Local /\ TypeInv /\ AttemptsNumbered /\ LocalsMeaningful(l)
      /\ count \in [Tasks -> 0 .. MaxAttempts] /\ MaxAttempts \in Nat
      /\ attempt \in [Tasks -> [AttemptNos -> AttemptStatus]]
      /\ calls \subseteq Tasks \X AttemptNos /\ interrupted \cup overdue \subseteq Tasks \X AttemptNos
  BY BoundsAssumption DEF CallInv, TypeInv, TypeOK
<1>1. OthersKept(p) /\ status' = status
  <2>1. CASE Increment(p) \/ Reread(p) \/ CreateAttempt(p)
    BY <1>0, <2>1, ClaimShape DEF rows
  <2>2. CASE TimeOut(p) \/ \E c \in calls : ExecutorReturns(p, c)
    BY <1>0, <2>2, CompleteShape
  <2>3. QED
    BY <2>1, <2>2
<1>2. Reread(p) \/ \E t \in Tasks : Taken(t) /\ \A u \in Tasks \ {t} : Kept(u) /\ ~InHand(l, u)
  <2>1. CASE Increment(p)
    <3>1. /\ l.pc = "increment" /\ attempt' = attempt /\ count' = [count EXCEPT ![l.task] = @ + 1]
          /\ m.pc = "reread" /\ SameCall(m, l) /\ count[l.task] < MaxAttempts
      BY <1>0, <2>1, ClaimShape DEF Increment
    <3>2. PICK t \in Tasks : t = l.task /\ t = m.task
      BY <1>0, <3>1 DEF LocalsMeaningful, UpdatingTask, SameCall
    <3>3. count[t] + 1 \in AttemptNos /\ ~(count[t] + 1 <= count[t])
      BY <1>0, <3>1, <3>2 DEF AttemptNos
    <3>4. attempt[t][count[t] + 1] = "absent"
      BY <1>0, <3>2, <3>3 DEF AttemptsNumbered
    <3>5. InHand(loc[p], t)'
      BY <1>0, <3>1, <3>2, <3>4 DEF InHand
    <3>6. \A u \in Tasks \ {t} : Kept(u) /\ ~InHand(l, u)
      BY <1>0, <3>1, <3>2 DEF InHand
    <3>7. QED
      BY <3>5, <3>6
  <2>2. CASE CreateAttempt(p)
    <3>1. /\ l.pc = "createAttempt" /\ count' = count
          /\ attempt' = [attempt EXCEPT ![l.task][l.no] = "running"]
      BY <1>0, <2>2, ClaimShape
    <3>2. PICK t \in Tasks, n \in AttemptNos : t = l.task /\ n = l.no
      BY <1>0, <3>1 DEF LocalsMeaningful, UpdatingTask, AttemptNos, Local
    <3>3. n \in RunningAttempts(t)'
      BY <1>0, <3>1, <3>2 DEF RunningAttempts
    <3>4. \A u \in Tasks \ {t} : Kept(u) /\ ~InHand(l, u)
      BY <1>0, <3>1, <3>2 DEF InHand
    <3>5. QED
      BY <3>3, <3>4
  <2>3. CASE TimeOut(p) \/ \E c \in calls : ExecutorReturns(p, c)
    <3>1. /\ l.pc \in {"timeouts", "idle"} /\ count' = count /\ m.pc = "readTask"
          /\ m.site = "complete" /\ m.task \in Tasks
          /\ \E n \in AttemptNos : \E o : attempt' = [attempt EXCEPT ![m.task][n] = o]
      <4>1. ASSUME TimeOut(p)
            PROVE  /\ l.pc = "timeouts" /\ count' = count /\ m.pc = "readTask"
                   /\ m.site = "complete" /\ m.task \in Tasks /\ m.no \in AttemptNos
                   /\ attempt' = [attempt EXCEPT ![m.task][m.no] = "timed_out"]
        <5>1. /\ l.pc = "timeouts" /\ UNCHANGED <<count, env>> /\ m.pc = "readTask"
              /\ m.site = "complete" /\ m.task \in l.todo /\ Due(m.task, m.no)
              /\ CompleteAttempt(m.task, m.no, "timed_out")
          BY <1>0, <4>1, CompleteShape
        <5>2. m.task \in Tasks /\ m.no \in AttemptNos
          BY <1>0, <5>1 DEF Due
        <5>3. QED
          BY <5>1, <5>2 DEF CompleteAttempt
      <4>2. ASSUME NEW c \in calls, ExecutorReturns(p, c)
            PROVE  /\ l.pc = "idle" /\ count' = count /\ m.pc = "readTask"
                   /\ m.site = "complete" /\ m.task \in Tasks /\ m.no \in AttemptNos
                   /\ \E o : attempt' = [attempt EXCEPT ![m.task][m.no] = o]
        <5>1. /\ l = Idle /\ count' = count /\ m.pc = "readTask" /\ m.site = "complete"
              /\ m.task = c[1] /\ m.no = c[2]
              /\ \E o : CompleteAttempt(c[1], c[2], o)
          BY <1>0, <4>2, CompleteShape
        <5>2. c[1] \in Tasks /\ c[2] \in AttemptNos
          BY <1>0
        <5>3. QED
          BY <5>1, <5>2, IdleShape DEF CompleteAttempt
      <4>3. QED
        BY <2>3, <4>1, <4>2
    <3>2. PICK t \in Tasks : t = m.task
      BY <3>1
    <3>3. InHand(loc[p], t)'
      BY <3>1, <3>2 DEF InHand
    <3>4. l.site = "none"
      BY <1>0, <3>1, AtRest DEF CallInv, Arguments, Local, UpdatingTask, Claiming
    <3>5. \A u \in Tasks \ {t} : Kept(u) /\ ~InHand(l, u)
      BY <1>0, <3>1, <3>2, <3>4 DEF InHand
    <3>6. QED
      BY <3>3, <3>5
  <2>4. QED
    BY <2>1, <2>2, <2>3
<1>3. ASSUME Reread(p), NEW t \in Tasks
      PROVE  Kept(t) /\ (InHand(loc[p], t) => InHand(loc[p], t)')
  <2>1. /\ l.pc = "reread" /\ UNCHANGED <<count, attempt>> /\ m.pc = "createAttempt"
        /\ m.task = l.task /\ m.no = IF count[l.task] = 0 THEN 1 ELSE count[l.task]
    BY <1>0, <1>3, ClaimShape DEF rows
  <2>2. count[l.task] # 0
    BY <1>0, <2>1 DEF AttemptsNumbered
  <2>3. l.site = "dispatch"
    <3>1. Arguments(l)
      BY DEF CallInv
    <3>2. QED
      BY <1>0, <2>1, <3>1 DEF Arguments, UpdatingTask, Local
  <2>4. QED
    BY <2>1, <2>2, <2>3 DEF InHand
<1>4. ASSUME NEW t \in Tasks, status'[t] = "running"
      PROVE  Owned(t)'
  <2>0. Owned(t)
    BY <1>1, <1>4, OwnedParts DEF Running
  <2>1. CASE Reread(p)
    BY <1>1, <1>3, <2>0, <2>1, OwnedKept
  <2>2. CASE ~Reread(p)
    <3>1. Taken(t) \/ (Kept(t) /\ ~InHand(l, t))
      BY <1>2, <2>2
    <3>2. Taken(t) => Owned(t)'
      BY DEF Owned
    <3>3. QED
      BY <1>1, <2>0, <3>1, <3>2, OwnedKept
  <2>3. QED
    BY <2>1, <2>2
<1>5. QED
  BY <1>4 DEF TasksOwned, Running, Owned

\* OwnerInv is inductive.
LEMMA OwnerStep == OwnerInv /\ [Next]_vars => OwnerInv'
<1> SUFFICES ASSUME OwnerInv, [Next]_vars
             PROVE  OwnerInv'
  OBVIOUS
<1>1. CallInv /\ TypeInv /\ FaultsCounted /\ CallInv' /\ TypeInv'
  BY CallInvStep DEF OwnerInv, CallInv
<1>2. ASSUME Undisturbed'
      PROVE  TasksOwned'
  <2>1. TasksOwned /\ ~Crash /\ \A p \in Procs : ~Abort(p) /\ Arguments(loc[p])
    BY <1>1, <1>2, FaultsStep DEF OwnerInv, CallInv
  <2>2. ASSUME NEW p \in Procs, StepOf(p)
        PROVE  TasksOwned'
    <3>1. CASE CallStep(p) \/ CasTask(p)
      BY <1>1, <2>1, <3>1, CallKeepsOwned, CasKeepsOwned
    <3>2. CASE InsertDep(p)
      BY <2>1, <3>2 DEF InsertDep, TasksOwned, Running, RunningAttempts, InHand
    <3>3. QED
      BY <1>1, <2>1, <2>2, <3>1, <3>2, IdleHands, AttemptKeepsOwned DEF StepOf, PlainStep
  <2>3. CASE (\E c \in Tasks \X AttemptNos : Elapse(c)) \/ UNCHANGED vars
    <3>1. UNCHANGED <<status, count, attempt, loc>>
      BY <2>3 DEF Elapse, vars, rows
    <3>2. QED
      BY <2>1, <3>1 DEF TasksOwned, Running, RunningAttempts, InHand
  <2>4. QED
    BY <2>1, <2>2, <2>3, StepCases
<1>3. QED
  BY <1>1, <1>2 DEF OwnerInv

\* Whenever no goroutine is inside the service, every running task has a running
\* attempt, in every interleaving of any number of goroutines, as long as no
\* restart and no aborted request cuts one short.
THEOREM NoOrphanUndisturbed ==
    /\ Spec => [](Undisturbed => NoOrphan)
    /\ PlannedSpec => [](Undisturbed => NoOrphan)
<1>1. Init \/ PlannedInit => OwnerInv
  <2> SUFFICES ASSUME Init \/ PlannedInit
               PROVE  OwnerInv
    OBVIOUS
  <2>1. \A t \in Tasks : status[t] # "running"
    BY DEF Init, PlannedInit
  <2>2. CallInv
    BY CallInit
  <2>3. QED
    BY <2>1, <2>2 DEF OwnerInv, TasksOwned, Running
<1>2. OwnerInv => (Undisturbed => NoOrphan)
  <2>1. ASSUME NEW t \in Tasks
        PROVE  ~InHand(Idle, t)
    BY IdleShape DEF InHand
  <2>2. QED
    BY <2>1 DEF OwnerInv, TasksOwned, NoOrphan, Running
<1>3. QED
  BY <1>1, <1>2, OwnerStep, PTL DEF Spec, PlannedSpec
-----------------------------------------------------------------------------
(***************************************************************************)
(* The outputs                                                             *)
(***************************************************************************)
\* A process has the success of an attempt to record.
Recording(l) == l.pc \in {"readTask", "casTask"} /\ l.to = "succeeded"

\* ... and it has succeeded.
Recorded(l) == l.no \in AttemptNos /\ attempt[l.task][l.no] = "succeeded"

\* No success is overwritten.
SuccessKept ==
    \A t \in Tasks, n \in AttemptNos :
        attempt[t][n] = "succeeded" => attempt'[t][n] = "succeeded"

\* A goroutine is left to record a success only by its provider, and by its own
\* read of the task.
LEMMA PlainRecording ==
    ASSUME TypeInv, TypeInv', NEW p \in Procs, Arguments(loc[p]), Arguments(loc'[p]),
           PlainStep(p), Recording(loc'[p])
    PROVE  Recording(loc[p]) /\ loc'[p].task = loc[p].task /\ loc'[p].no = loc[p].no
<1> DEFINE l == loc[p]
           m == loc'[p]
<1>0. l \in Local /\ m \in Local
  BY DEF TypeInv, TypeOK
<1>1. m.pc \in {"readTask", "casTask"} /\ m.to = "succeeded" /\ m.site = "complete"
  <2>1. m.pc \in {"readTask", "casTask"} /\ m.to = "succeeded"
    BY DEF Recording
  <2>2. m.site \in {"mark", "dispatch", "complete", "retry", "cancel"}
    BY <2>1, <1>0 DEF Arguments, UpdatingTask, Local
  <2>3. QED
    BY <2>1, <2>2 DEF Arguments
<1>2. ASSUME NEW k, Updated(m, k) \/ Refused(m, k)
      PROVE  FALSE
  BY <1>1, <1>2, IdleShape DEF Updated, Refused, Returned, Fresh, NoCall
<1>3. ASSUME NEW k, NEW to, NEW cur, RunMoved(m, k, to, cur)
      PROVE  FALSE
  BY <1>1, <1>3, IdleShape DEF RunMoved, Fresh
<1>4. CASE CallStep(p)
  <2>1. PICK k \in Local : Calling(k, l) /\ ReadTask(p, k) /\ k.site # "none"
    BY <1>4, CallShape
  <2>2. SameCall(m, k) /\ m.pc = "casTask"
    BY <1>2, <2>1, ReadTaskShape DEF ReadDone
  <2>3. k = l /\ l.pc = "readTask"
    BY <1>1, <2>1, <2>2 DEF Calling, SameCall
  <2>4. QED
    BY <1>1, <2>2, <2>3 DEF SameCall, Recording
<1>5. CASE CasTask(p)
  BY <1>2, <1>5, CasTaskShape DEF CasTaskDone
<1>6. CASE ReadRun(p) \/ CasRun(p)
  BY <1>1, <1>3, <1>6, RunShape, IdleShape
<1>7. CASE StartRun(p) \/ InsertTask(p) \/ CreateTasksFails(p) \/ PlanStored(p)
  BY <1>1, <1>3, <1>7, StartShape, IdleShape
<1>8. CASE FinishStart(p) \/ Abort(p) \/ AttemptExists(p)
  BY <1>1, <1>8, DropShape, ClaimShape, IdleShape
<1>9. CASE Poll(p) \/ GetRun(p) \/ ListForTimeout(p) \/ ListForMark(p) \/ ListDeps(p)
           \/ ListForDispatch(p)
  BY <1>1, <1>9, ListShape, IdleShape
<1>10. CASE Recompute(p) \/ CancelRun(p) \/ CancelList(p)
  BY <1>1, <1>3, <1>10, CancelShape, IdleShape
<1>11. QED
  BY <1>4, <1>5, <1>6, <1>7, <1>8, <1>9, <1>10 DEF PlainStep

\* An update reports a success only if that is the status it asks for.
LEMMA SuccessReported ==
    ASSUME NEW k \in Local, NEW t, <<"task_succeeded", t>> \in TaskEvents(k)
    PROVE  t = k.task /\ k.to = "succeeded"
<1>1. k.site \in {"none", "mark", "dispatch", "complete", "retry", "cancel"}
  BY DEF Local
<1>2. CASE k.site = "complete"
  BY <1>2 DEF TaskEvents, CompletionEvent
<1>3. CASE k.site # "complete"
  BY <1>1, <1>3 DEF TaskEvents
<1>4. QED
  BY <1>2, <1>3

\* A success is logged by a process that has it to record, whatever UpdateTaskStatus
\* has found.
LEMMA SuccessLogged ==
    ASSUME TypeInv, NEW p \in Procs, Arguments(loc[p]), StepOf(p), NEW t \in Tasks,
           <<"task_succeeded", t>> \in events', <<"task_succeeded", t>> \notin events
    PROVE  Recording(loc[p]) /\ t = loc[p].task /\ attempt' = attempt
<1> DEFINE l == loc[p]
           e == <<"task_succeeded", t>>
<1>0. l \in Local
  BY DEF TypeInv, TypeOK
<1>1. CASE CallStep(p)
  <2>1. PICK k \in Local : Calling(k, l) /\ ReadTask(p, k) /\ k.site # "none"
    BY <1>0, <1>1, CallShape
  <2>2. e \in TaskEvents(k)
    BY <2>1 DEF ReadTask
  <2>3. t = k.task /\ k.to = "succeeded"
    BY <2>2, SuccessReported
  <2>4. k = l /\ l.pc = "readTask"
    BY <2>1, <2>3 DEF Calling
  <2>5. QED
    BY <1>1, <2>3, <2>4, CallShape DEF Recording
<1>2. CASE CasTask(p)
  <2>1. e \in TaskEvents(l) /\ l.pc = "casTask" /\ attempt' = attempt
    BY <1>2 DEF CasTask
  <2>2. QED
    BY <1>0, <2>1, SuccessReported DEF Recording
<1>3. CASE ReadRun(p) \/ CasRun(p)
  BY <1>3 DEF ReadRun, CasRun, RunEvents
<1>4. CASE StartRun(p) \/ PlanStored(p) \/ CreateAttempt(p)
  BY <1>4 DEF StartRun, PlanStored, CreateAttempt
<1>5. CASE /\ ~CallStep(p) /\ ~CasTask(p) /\ ~ReadRun(p) /\ ~CasRun(p)
           /\ ~StartRun(p) /\ ~PlanStored(p) /\ ~CreateAttempt(p)
  <2>1. events' = events
    BY <1>5 DEF StepOf, PlainStep, InsertTask, InsertDep, FinishStart, GetRun, ListForTimeout,
       ListAttempts, TimeOut, ListForMark, ListDeps, Recompute, ListForDispatch, Increment,
       Reread, AttemptExists, CancelList, Poll, ExecutorReturns, CreateTasksFails, CancelRun,
       Abort, rows
  <2>2. QED
    BY <2>1
<1>6. QED
  BY <1>1, <1>2, <1>3, <1>4, <1>5

\* A step that overwrites no success keeps one behind every success that is logged.
LEMMA BackedKept ==
    ASSUME CallInv, OutputsSound, overdue = {}, NEW p \in Procs, StepOf(p), SuccessKept
    PROVE  SuccessEventsBacked'
<1>1. ASSUME NEW t \in Tasks, <<"task_succeeded", t>> \in events'
      PROVE  \E n \in AttemptNos : attempt'[t][n] = "succeeded"
  <2>1. CASE <<"task_succeeded", t>> \in events
    BY <2>1 DEF OutputsSound, SuccessEventsBacked, SuccessKept
  <2>2. CASE <<"task_succeeded", t>> \notin events
    <3>1. Recording(loc[p]) /\ t = loc[p].task /\ attempt' = attempt
      BY <1>1, <2>2, SuccessLogged DEF CallInv
    <3>2. Recorded(loc[p])
      BY <3>1 DEF OutputsSound, Recording, Recorded
    <3>3. QED
      BY <3>1, <3>2 DEF Recorded
  <2>3. QED
    BY <2>1, <2>2
<1>2. QED
  BY <1>1 DEF SuccessEventsBacked

\* A step that overwrites no success keeps every task's output and every success
\* that is still to be recorded.
LEMMA OutputsKept ==
    ASSUME CallInv, TypeInv, OutputsSound, overdue = {}, NEW p \in Procs, StepOf(p),
           OthersKept(p), SuccessKept, LocalsMeaningful(loc[p]),
           ~CasTask(p) => \A t \in Tasks : status'[t] = "succeeded" => status[t] = "succeeded",
           Recording(loc[p])' => Recorded(loc[p])'
    PROVE  /\ \A q \in Procs : Recording(loc[q])' => Recorded(loc[q])'
           /\ SucceededTaskHasOutput'
           /\ SuccessEventsBacked'
<1>0. ASSUME NEW q \in Procs
      PROVE  /\ Recording(loc[q]) => Recorded(loc[q])
             /\ Recording(loc[q]) => loc[q].task \in Tasks
  BY DEF OutputsSound, Recording, Recorded, TypeInv, LocalsMeaningful, UpdatingTask
<1>1. ASSUME NEW q \in Procs \ {p}, Recording(loc[q])'
      PROVE  Recorded(loc[q])'
  <2>1. loc'[q] = loc[q]
    BY DEF OthersKept
  <2>2. Recording(loc[q])
    BY <1>1, <2>1 DEF Recording
  <2>3. QED
    BY <1>0, <2>1, <2>2 DEF Recorded, SuccessKept
<1>2. ASSUME NEW t \in Tasks, status'[t] = "succeeded"
      PROVE  \E n \in AttemptNos : attempt'[t][n] = "succeeded"
  <2>1. CASE status[t] = "succeeded"
    BY <2>1 DEF OutputsSound, SucceededTaskHasOutput, SuccessKept
  <2>2. CASE status[t] # "succeeded"
    <3>1. CasTask(p)
      BY <1>2, <2>2
    <3>2. loc[p].pc = "casTask" /\ loc[p].task = t /\ loc[p].to = "succeeded"
      BY <1>2, <2>2, <3>1 DEF CasTask, TypeInv, TypeOK
    <3>3. Recorded(loc[p])
      BY <1>0, <3>2 DEF Recording
    <3>4. QED
      BY <3>2, <3>3 DEF Recorded, SuccessKept
  <2>3. QED
    BY <2>1, <2>2
<1>3. QED
  BY <1>1, <1>2, BackedKept DEF SucceededTaskHasOutput

\* Only an attempt that succeeds, or one that does not exist or is running, is
\* written, as long as no attempt is overdue.
LEMMA OutputsStep ==
    ASSUME CallInv, CallInv', OutputsSound, overdue = {}, NEW p \in Procs, StepOf(p)
    PROVE  OutputsSound'
<1> DEFINE l == loc[p]
           m == loc'[p]
<1>0. /\ TypeInv /\ TypeInv' /\ AttemptsNumbered /\ LocalsMeaningful(l) /\ l \in Local
      /\ Arguments(l) /\ Arguments(m)
      /\ attempt \in [Tasks -> [AttemptNos -> AttemptStatus]]
      /\ calls \subseteq Tasks \X AttemptNos /\ interrupted \subseteq Tasks \X AttemptNos
      /\ status \in [Tasks -> TaskStatus]
  BY DEF CallInv, TypeInv, TypeOK, Arguments
<1>1. OthersKept(p) /\ interrupted' = interrupted
  BY <1>0, ArgumentsStep, WritesOnly DEF CallInv
<1>2. ~CasTask(p) => \A t \in Tasks : status'[t] = "succeeded" => status[t] = "succeeded"
  <2>1. CASE InsertTask(p)
    <3>1. PICK t \in l.todo : status' = [status EXCEPT ![t] = "pending"]
      BY <2>1 DEF InsertTask
    <3>2. QED
      BY <1>0, <3>1
  <2>2. QED
    BY <2>1, WritesOnly
<1> DEFINE Calls == \A c \in calls : attempt[c[1]][c[2]] = "running" /\ c \notin interrupted
           Cuts == \A c \in interrupted : attempt[c[1]][c[2]] \in {"running", "timed_out"}
<1>3. Calls /\ Cuts /\ (Recording(l) => Recorded(l))
  BY DEF OutputsSound, Recording, Recorded
<1>4. CASE UNCHANGED <<attempt, calls>> /\ (Recording(m) =>
                Recording(l) /\ m.task = l.task /\ m.no = l.no)
  <2>1. SuccessKept /\ Calls' /\ Cuts'
    BY <1>1, <1>3, <1>4 DEF SuccessKept
  <2>2. Recording(loc[p])' => Recorded(loc[p])'
    BY <1>3, <1>4 DEF Recording, Recorded
  <2>3. QED
    BY <1>0, <1>1, <1>2, <2>1, <2>2, OutputsKept DEF OutputsSound, Recording, Recorded
<1>5. ASSUME NEW t \in Tasks, NEW n \in AttemptNos, NEW o, attempt[t][n] # "succeeded",
             attempt' = [attempt EXCEPT ![t][n] = o],
             <<t, n>> \in interrupted => o = "timed_out",
             \A c \in calls' : c # <<t, n>> => c \in calls,
             <<t, n>> \in calls' => o = "running" /\ <<t, n>> \notin interrupted,
             Recording(m) => m.task = t /\ m.no = n /\ o = "succeeded"
      PROVE  OutputsSound'
  <2>1. \A u \in Tasks, k \in AttemptNos :
          attempt'[u][k] = IF u = t /\ k = n THEN o ELSE attempt[u][k]
    BY <1>0, <1>5
  <2>2. SuccessKept
    BY <1>5, <2>1 DEF SuccessKept
  <2>3. ASSUME NEW c \in calls'
        PROVE  attempt'[c[1]][c[2]] = "running" /\ c \notin interrupted'
    <3>1. CASE c = <<t, n>>
      BY <1>1, <1>5, <2>1, <3>1
    <3>2. CASE c # <<t, n>>
      <4>1. c \in calls /\ c[1] \in Tasks /\ c[2] \in AttemptNos /\ c = <<c[1], c[2]>>
        BY <1>0, <1>5, <3>2
      <4>2. QED
        BY <1>1, <1>3, <2>1, <3>2, <4>1
    <3>3. QED
      BY <3>1, <3>2
  <2>4. ASSUME NEW c \in interrupted'
        PROVE  attempt'[c[1]][c[2]] \in {"running", "timed_out"}
    <3>1. c \in interrupted /\ c[1] \in Tasks /\ c[2] \in AttemptNos /\ c = <<c[1], c[2]>>
      BY <1>0, <1>1
    <3>2. QED
      BY <1>3, <1>5, <2>1, <3>1
  <2>5. Recording(loc[p])' => Recorded(loc[p])'
    BY <1>5, <2>1 DEF Recording, Recorded
  <2>6. QED
    BY <1>0, <1>1, <1>2, <2>2, <2>3, <2>4, <2>5, OutputsKept DEF OutputsSound, Recording, Recorded
<1>6. CASE PlainStep(p)
  BY <1>0, <1>4, <1>6, PlainShape, PlainRecording
<1>7. CASE InsertDep(p) \/ ListAttempts(p) \/ Increment(p) \/ Reread(p)
  <2>1. UNCHANGED <<attempt, calls>> /\ (m = l \/ m.pc \notin {"readTask", "casTask"})
    BY <1>0, <1>7, DropShape, ListShape, ClaimShape DEF rows, env
  <2>2. QED
    BY <1>4, <2>1 DEF Recording
<1>8. CASE TimeOut(p)
  <2>1. /\ m.task \in l.todo /\ m.no = l.latest[m.task] /\ Due(m.task, m.no)
        /\ CompleteAttempt(m.task, m.no, "timed_out") /\ UNCHANGED env /\ m.to = "failed"
    BY <1>0, <1>8, CompleteShape
  <2>2. <<m.task, m.no>> \in interrupted /\ m.task \in Tasks /\ m.no \in AttemptNos
    BY <1>0, <2>1 DEF Due
  <2>3. attempt[m.task][m.no] # "succeeded" /\ <<m.task, m.no>> \notin calls
    BY <1>3, <2>2
  <2>4. QED
    BY <1>5, <2>1, <2>2, <2>3 DEF CompleteAttempt, Recording, env
<1>9. ASSUME NEW c \in calls, ExecutorReturns(p, c)
      PROVE  OutputsSound'
  <2>1. PICK o \in {"succeeded", "failed", "timed_out"} :
            /\ CompleteAttempt(c[1], c[2], o) /\ m.to = CompletedTo(o)
            /\ calls' = calls \ {c} /\ m.task = c[1] /\ m.no = c[2]
    BY <1>0, <1>9, CompleteShape
  <2>2. /\ c[1] \in Tasks /\ c[2] \in AttemptNos /\ c = <<c[1], c[2]>>
        /\ attempt[c[1]][c[2]] = "running" /\ c \notin interrupted
    BY <1>0, <1>3
  <2>3. Recording(m) => o = "succeeded"
    BY <2>1 DEF Recording, CompletedTo
  <2>4. QED
    BY <1>5, <2>1, <2>2, <2>3 DEF CompleteAttempt
<1>10. CASE CreateAttempt(p)
  <2>1. /\ l.pc = "createAttempt" /\ attempt[l.task][l.no] = "absent"
        /\ attempt' = [attempt EXCEPT ![l.task][l.no] = "running"]
        /\ calls' = calls \cup {<<l.task, l.no>>} /\ (m = Idle \/ m.pc = "dispatch")
    BY <1>0, <1>10, ClaimShape
  <2>2. l.task \in Tasks /\ l.no \in AttemptNos
    BY <1>0, <2>1 DEF LocalsMeaningful, UpdatingTask, AttemptNos, Local
  <2>3. <<l.task, l.no>> \notin interrupted /\ ~Recording(m)
    BY <1>3, <2>1, IdleShape DEF Recording
  <2>4. QED
    BY <1>5, <2>1, <2>2, <2>3
<1>11. QED
  BY <1>6, <1>7, <1>8, <1>9, <1>10 DEF StepOf

\* OutputInv is inductive, next to CallInv.
LEMMA OutputInvStep == CallInv /\ OutputInv /\ [Next]_vars => OutputInv'
<1> SUFFICES ASSUME CallInv, OutputInv, [Next]_vars
             PROVE  OutputInv'
  OBVIOUS
<1>1. TypeInv /\ TypeInv' /\ CallInv'
  BY CallInvStep DEF CallInv
<1>2. ASSUME NEW p \in Procs, StepOf(p), overdue' = {}
      PROVE  OutputsSound'
  BY <1>1, <1>2, OutputsStep, WritesOnly DEF OutputInv
<1>3. ASSUME Crash, overdue' = {}
      PROVE  OutputsSound'
  <2>1. /\ overdue = {} /\ calls' = {} /\ UNCHANGED <<attempt, status, events>>
        /\ \A p \in Procs : loc'[p] = Idle
        /\ \A c \in interrupted' : attempt[c[1]][c[2]] = "running"
    BY <1>3 DEF Crash, rows
  <2>2. OutputsSound
    BY <2>1 DEF OutputInv
  <2>3. QED
    BY <2>1, <2>2, IdleShape DEF OutputsSound, SucceededTaskHasOutput, SuccessEventsBacked
<1>4. ASSUME NEW c \in Tasks \X AttemptNos, Elapse(c)
      PROVE  overdue' # {}
  BY <1>4 DEF Elapse
<1>5. ASSUME UNCHANGED vars, overdue' = {}
      PROVE  OutputsSound'
  <2>1. UNCHANGED <<calls, attempt, status, events, interrupted, overdue, loc>>
    BY <1>5 DEF vars, rows, env
  <2>2. OutputsSound
    BY <1>5, <2>1 DEF OutputInv
  <2>3. QED
    BY <2>1, <2>2 DEF OutputsSound, SucceededTaskHasOutput, SuccessEventsBacked
<1>6. QED
  BY <1>1, <1>2, <1>3, <1>4, <1>5, StepCases DEF OutputInv

\* Nothing has succeeded at the start.
LEMMA OutputInit == Init \/ PlannedInit => OutputInv
<1> SUFFICES ASSUME Init \/ PlannedInit
             PROVE  OutputInv
  OBVIOUS
<1>1. TypeInv
  BY TypeOfInit
<1>2. /\ calls = {} /\ interrupted = {}
      /\ \A t \in Tasks : status[t] # "succeeded" /\ <<"task_succeeded", t>> \notin events
  BY DEF Init, PlannedInit
<1>3. ASSUME NEW p \in Procs
      PROVE  loc[p].pc \notin {"readTask", "casTask"}
  <2>1. [Idle EXCEPT !.pc = "readRun", !.op = "start", !.http = TRUE,
                     !.run = "planning", !.to = "dispatching"].pc = "readRun"
    BY DEF Idle
  <2>2. QED
    BY <2>1, IdleShape DEF Init, PlannedInit
<1>4. QED
  BY <1>1, <1>2, <1>3 DEF OutputInv, OutputsSound, SucceededTaskHasOutput, SuccessEventsBacked

\* The dependents of a succeeded task find its output, in every interleaving and
\* through every restart, as long as no attempt has reached its timeout: a call
\* of failTimedOutTasks can only end attempts nobody is working on any more.
THEOREM OutputsKeptOnTime ==
    /\ Spec => [](overdue = {} => SucceededTaskHasOutput)
    /\ PlannedSpec => [](overdue = {} => SucceededTaskHasOutput)
<1>1. Init \/ PlannedInit => CallInv /\ OutputInv
  BY CallInit, OutputInit
<1>2. CallInv /\ OutputInv /\ [Next]_vars => CallInv' /\ OutputInv'
  BY CallInvStep, OutputInvStep
<1>3. OutputInv => (overdue = {} => SucceededTaskHasOutput)
  BY DEF OutputInv, OutputsSound
<1>4. QED
  BY <1>1, <1>2, <1>3, PTL DEF Spec, PlannedSpec

\* As long as no attempt has reached its timeout, a success that is logged is that
\* of an attempt that has succeeded, whatever the task has become meanwhile: the
\* event is appended also when the compare-and-set has been lost.
THEOREM SuccessesBacked == (Spec => []SuccessEventsBacked) /\ (PlannedSpec => []SuccessEventsBacked)
<1>1. Init \/ PlannedInit => CallInv /\ OutputInv
  BY CallInit, OutputInit
<1>2. CallInv /\ OutputInv /\ [Next]_vars => CallInv' /\ OutputInv'
  BY CallInvStep, OutputInvStep
<1>3. OutputInv => SuccessEventsBacked
  BY DEF OutputInv, OutputsSound, SuccessEventsBacked
<1>4. QED
  BY <1>1, <1>2, <1>3, PTL DEF Spec, PlannedSpec

\* As long as no attempt has reached its timeout, the result of an attempt is final.
ResultsFinal ==
    \A t \in Tasks, n \in AttemptNos :
        attempt[t][n] \in {"succeeded", "failed", "timed_out"} => attempt'[t][n] = attempt[t][n]

\* An attempt is written by what ends it, and that is its own goroutine unless a
\* restart has taken the goroutine away.
LEMMA ResultsStep ==
    ASSUME CallInv, OutputInv, overdue = {}, NEW p \in Procs, StepOf(p)
    PROVE  ResultsFinal
<1> DEFINE l == loc[p]
           m == loc'[p]
<1>0. /\ TypeInv /\ LocalsMeaningful(l) /\ l \in Local /\ Arguments(l)
      /\ attempt \in [Tasks -> [AttemptNos -> AttemptStatus]]
      /\ calls \subseteq Tasks \X AttemptNos /\ interrupted \subseteq Tasks \X AttemptNos
      /\ \A c \in calls : attempt[c[1]][c[2]] = "running"
      /\ \A c \in interrupted : attempt[c[1]][c[2]] \in {"running", "timed_out"}
  BY DEF CallInv, TypeInv, TypeOK, OutputInv, OutputsSound
<1>1. ASSUME NEW t \in Tasks, NEW n \in AttemptNos, NEW o,
             attempt' = [attempt EXCEPT ![t][n] = o],
             attempt[t][n] \in {"succeeded", "failed", "timed_out"} => o = attempt[t][n]
      PROVE  ResultsFinal
  BY <1>0, <1>1 DEF ResultsFinal
<1>2. CASE attempt' = attempt
  BY <1>2 DEF ResultsFinal
<1>3. CASE PlainStep(p) \/ InsertDep(p) \/ ListAttempts(p) \/ Increment(p) \/ Reread(p)
  BY <1>0, <1>2, <1>3, PlainShape, DropShape, ListShape, ClaimShape DEF rows
<1>4. CASE TimeOut(p)
  <2>1. /\ Due(m.task, m.no) /\ CompleteAttempt(m.task, m.no, "timed_out")
        /\ m.task \in l.todo
    BY <1>0, <1>4, CompleteShape
  <2>2. /\ m.task \in Tasks /\ m.no \in AttemptNos
        /\ attempt[m.task][m.no] \in {"running", "timed_out"}
    BY <1>0, <2>1 DEF Due
  <2>3. QED
    BY <1>1, <2>1, <2>2 DEF CompleteAttempt
<1>5. ASSUME NEW c \in calls, ExecutorReturns(p, c)
      PROVE  ResultsFinal
  <2>1. PICK o \in {"succeeded", "failed", "timed_out"} : CompleteAttempt(c[1], c[2], o)
    BY <1>0, <1>5, CompleteShape
  <2>2. c[1] \in Tasks /\ c[2] \in AttemptNos /\ attempt[c[1]][c[2]] = "running"
    BY <1>0
  <2>3. QED
    BY <1>1, <2>1, <2>2 DEF CompleteAttempt
<1>6. CASE CreateAttempt(p)
  <2>1. /\ l.pc = "createAttempt" /\ attempt[l.task][l.no] = "absent"
        /\ attempt' = [attempt EXCEPT ![l.task][l.no] = "running"]
    BY <1>0, <1>6, ClaimShape
  <2>2. l.task \in Tasks /\ l.no \in AttemptNos
    BY <1>0, <2>1 DEF LocalsMeaningful, UpdatingTask, AttemptNos, Local
  <2>3. QED
    BY <1>1, <2>1, <2>2
<1>7. QED
  BY <1>3, <1>4, <1>5, <1>6 DEF StepOf

\* As long as no attempt has reached its timeout, an attempt that has ended is never
\* ended again, in any interleaving of polls with the goroutines of the attempts and
\* through restarts: CompleteAttempt itself checks nothing.
THEOREM AttemptResultsFinal == (Spec => AttemptResultsKept) /\ (PlannedSpec => AttemptResultsKept)
<1>1. Init \/ PlannedInit => CallInv /\ OutputInv
  BY CallInit, OutputInit
<1>2. CallInv /\ OutputInv /\ [Next]_vars => CallInv' /\ OutputInv'
  BY CallInvStep, OutputInvStep
<1>3. CallInv /\ OutputInv /\ [Next]_vars => [overdue' = {} => ResultsFinal]_vars
  <2> SUFFICES ASSUME CallInv, OutputInv, Next, overdue' = {}
               PROVE  ResultsFinal
    BY DEF ResultsFinal, vars, rows
  <2>1. ASSUME NEW p \in Procs, StepOf(p)
        PROVE  ResultsFinal
    BY <2>1, ResultsStep, WritesOnly
  <2>2. CASE Crash
    BY <2>2 DEF Crash, rows, ResultsFinal
  <2>3. ASSUME NEW c \in Tasks \X AttemptNos, Elapse(c)
        PROVE  FALSE
    BY <2>3 DEF Elapse
  <2>4. CASE UNCHANGED vars
    BY <2>4 DEF vars, rows, ResultsFinal
  <2>5. QED
    BY <2>1, <2>2, <2>3, <2>4, StepCases
<1>4. QED
  BY <1>1, <1>2, <1>3, PTL DEF Spec, PlannedSpec, AttemptResultsKept, ResultsFinal
-----------------------------------------------------------------------------
(***************************************************************************)
(* The plan                                                                *)
(***************************************************************************)
\* A row of agent_hub_tasks is never deleted.
LEMMA TaskRowsKept ==
    ASSUME CallInv, NEW p \in Procs, StepOf(p), NEW t \in Tasks, status[t] # "absent"
    PROVE  status'[t] # "absent"
<1> DEFINE l == loc[p]
<1>0. TypeInv /\ Arguments(l) /\ status \in [Tasks -> TaskStatus]
  BY DEF CallInv, TypeInv, TypeOK
<1>1. CASE InsertTask(p)
  BY <1>0, <1>1 DEF InsertTask
<1>2. CASE CasTask(p)
  <2>1. l.to # "absent"
    BY <1>0, <1>2 DEF Arguments, UpdatingTask, CasTask, TypeInv, TypeOK, Local
  <2>2. QED
    BY <1>0, <1>2, <2>1 DEF CasTask
<1>3. QED
  BY <1>1, <1>2, WritesOnly

\* ... nor is one of agent_hub_task_deps.
LEMMA PlanKept ==
    ASSUME CallInv, NEW p \in Procs, StepOf(p), PlanWhole
    PROVE  PlanWhole'
<1>1. \A t \in Tasks : status'[t] # "absent"
  BY TaskRowsKept DEF PlanWhole
<1>2. depRows' = Deps
  BY WritesOnly DEF InsertDep, PlanWhole
<1>3. QED
  BY <1>1, <1>2 DEF PlanWhole

\* A process publishes a plan only after it has inserted the whole of it.
LEMMA PublishingBefore ==
    ASSUME CallInv, NEW p \in Procs, StepOf(p), Publishing(loc'[p])
    PROVE  Publishing(loc[p]) \/ PlanStored(p)
<1> DEFINE l == loc[p]
           m == loc'[p]
           Inside == l.op = "start" /\ l.pc \notin {"idle", "createTasks", "readRun", "casRun"}
<1>0. /\ TypeInv /\ Arguments(l) /\ m.op = "start" /\ m # Idle
      /\ m.pc \notin {"idle", "createTasks"}
      /\ m.pc \in {"readRun", "casRun"} => m.to = "dispatching"
      /\ Inside => Publishing(l)
  BY IdleShape DEF CallInv, Publishing
<1>1. ASSUME NEW k, Updated(m, k) \/ Refused(m, k)
      PROVE  k.op = "start"
  BY <1>0, <1>1 DEF Updated, Refused, Returned, Frame
<1>2. ASSUME NEW to, NEW cur, RunMoved(m, l, to, cur)
      PROVE  l.op = "start" /\ to = "dispatching"
  BY <1>0, <1>2 DEF RunMoved
<1>3. CASE CallStep(p)
  <2>1. PICK k \in Local : Calling(k, l) /\ ReadTask(p, k) /\ k.site # "none"
    BY <1>0, <1>3, CallShape
  <2>2. k.op = "start"
    BY <1>0, <1>1, <2>1, ReadTaskShape DEF ReadDone, Frame
  <2>3. Inside
    BY <2>1, <2>2 DEF Calling
  <2>4. QED
    BY <1>0, <2>3
<1>4. CASE CasTask(p)
  BY <1>0, <1>1, <1>4, CasTaskShape DEF CasTaskDone
<1>5. CASE ReadRun(p) \/ CasRun(p)
  <2>1. /\ l.pc \in {"readRun", "casRun"}
        /\ \/ \E cur : RunMoved(m, l, l.to, cur)
           \/ m.pc = "casRun" /\ SameCall(m, l) /\ Frame(m, l)
    BY <1>0, <1>5, RunShape
  <2>2. l.op = "start" /\ l.to = "dispatching"
    BY <1>0, <1>2, <2>1 DEF SameCall, Frame
  <2>3. QED
    BY <2>1, <2>2 DEF Publishing
<1>6. CASE StartRun(p) \/ InsertTask(p) \/ CreateTasksFails(p) \/ FinishStart(p) \/ Abort(p)
           \/ AttemptExists(p)
  BY <1>0, <1>6, StartShape, DropShape, ClaimShape
<1>7. CASE Poll(p) \/ GetRun(p) \/ ListForTimeout(p) \/ ListAttempts(p) \/ ListForMark(p)
           \/ ListDeps(p) \/ ListForDispatch(p)
  BY <1>0, <1>7, ListShape
<1>8. CASE Recompute(p)
  BY <1>0, <1>2, <1>8, CancelShape DEF Frame
<1>9. CASE CancelRun(p) \/ CancelList(p)
  BY <1>0, <1>9, CancelShape DEF Arguments, Frame
<1>10. CASE TimeOut(p) \/ \E c \in calls : ExecutorReturns(p, c)
  BY <1>0, <1>10, CompleteShape
<1>11. CASE Increment(p) \/ Reread(p) \/ CreateAttempt(p)
  BY <1>0, <1>11, ClaimShape DEF Frame
<1>12. CASE InsertDep(p)
  <2>1. m.pc = "createTasks"
    BY <1>0, <1>12, DropShape
  <2>2. QED
    BY <1>0, <2>1
<1>13. QED
  BY <1>3, <1>4, <1>5, <1>6, <1>7, <1>8, <1>9, <1>10, <1>11, <1>12 DEF StepOf, PlainStep

\* Only StartRun gets into CreateTasks, with every task still to insert.
LEMMA InsertingBefore ==
    ASSUME CallInv, NEW p \in Procs, StepOf(p), loc'[p].pc = "createTasks"
    PROVE  \/ loc'[p].todo = Tasks
           \/ /\ loc[p].pc = "createTasks"
              /\ \/ loc'[p].todo = loc[p].todo
                 \/ \E t \in Tasks : loc'[p].todo = loc[p].todo \ {t} /\ status'[t] # "absent"
<1> DEFINE l == loc[p]
           m == loc'[p]
<1>0. TypeInv /\ Arguments(l) /\ l \in Local /\ m # Idle /\ status \in [Tasks -> TaskStatus]
  BY IdleShape DEF CallInv, TypeInv, TypeOK
<1>1. ASSUME NEW k, Updated(m, k) \/ Refused(m, k)
      PROVE  FALSE
  BY <1>0, <1>1 DEF Updated, Refused, Returned
<1>2. ASSUME NEW to, NEW cur, RunMoved(m, l, to, cur)
      PROVE  FALSE
  BY <1>0, <1>2 DEF RunMoved
<1>3. CASE CallStep(p)
  <2>1. PICK k \in Local : Calling(k, l) /\ ReadTask(p, k) /\ k.site # "none"
    BY <1>0, <1>3, CallShape
  <2>2. QED
    BY <1>0, <1>1, <2>1, ReadTaskShape DEF ReadDone
<1>4. CASE CasTask(p)
  BY <1>0, <1>1, <1>4, CasTaskShape DEF CasTaskDone
<1>5. CASE ReadRun(p) \/ CasRun(p)
  BY <1>0, <1>2, <1>5, RunShape
<1>6. CASE InsertTask(p)
  <2>1. PICK t \in l.todo : m.todo = l.todo \ {t} /\ status' = [status EXCEPT ![t] = "pending"]
    BY <1>0, <1>6, StartShape
  <2>2. t \in Tasks /\ status'[t] # "absent"
    BY <1>0, <2>1 DEF Local
  <2>3. QED
    BY <1>0, <1>6, <2>1, <2>2, StartShape
<1>7. CASE StartRun(p) \/ CreateTasksFails(p) \/ PlanStored(p)
  BY <1>0, <1>2, <1>7, StartShape
<1>8. CASE FinishStart(p) \/ Abort(p) \/ AttemptExists(p)
  BY <1>0, <1>8, DropShape, ClaimShape
<1>9. CASE Poll(p) \/ GetRun(p) \/ ListForTimeout(p) \/ ListAttempts(p) \/ ListForMark(p)
           \/ ListDeps(p) \/ ListForDispatch(p)
  BY <1>0, <1>9, ListShape
<1>10. CASE Recompute(p) \/ CancelRun(p) \/ CancelList(p)
  BY <1>0, <1>2, <1>10, CancelShape
<1>11. CASE TimeOut(p) \/ \E c \in calls : ExecutorReturns(p, c)
  BY <1>0, <1>11, CompleteShape
<1>12. CASE Increment(p) \/ Reread(p) \/ CreateAttempt(p)
  BY <1>0, <1>12, ClaimShape
<1>13. CASE InsertDep(p)
  <2>1. l.pc = "createTasks" /\ loc' = loc
    BY <1>0, <1>13, DropShape
  <2>2. QED
    BY <2>1
<1>14. QED
  BY <1>3, <1>4, <1>5, <1>6, <1>7, <1>8, <1>9, <1>10, <1>11, <1>12, <1>13 DEF StepOf, PlainStep

\* PlanInv is inductive, next to CallInv.
LEMMA PlanInvStep == CallInv /\ PlanInv /\ [Next]_vars => PlanInv'
<1> SUFFICES ASSUME CallInv, PlanInv, [Next]_vars
             PROVE  PlanInv'
  OBVIOUS
<1>0. \A q \in Procs : loc[q] \in Local
  BY DEF CallInv, TypeInv, TypeOK
<1>1. ASSUME NEW p \in Procs, StepOf(p)
      PROVE  PlanInv'
  <2>1. OthersKept(p)
    BY <1>1, ArgumentsStep DEF CallInv
  <2>2. PlanWhole => PlanWhole'
    BY <1>1, PlanKept
  <2>3. \A t \in Tasks : status[t] # "absent" => status'[t] # "absent"
    BY <1>1, TaskRowsKept
  <2>4. ASSUME NEW q \in Procs, Publishing(loc'[q])
        PROVE  PlanWhole'
    <3>1. CASE q # p
      BY <2>1, <2>2, <2>4, <3>1 DEF OthersKept, PlanInv, PublishedPlanIsWhole
    <3>2. CASE q = p /\ PlanStored(p)
      <4>1. PlanWhole
        BY <3>2 DEF PlanStored, PlanInserted, PlanInv, PlanWhole
      <4>2. QED
        BY <2>2, <4>1
    <3>3. CASE q = p /\ Publishing(loc[p])
      BY <2>2, <3>3 DEF PlanInv, PublishedPlanIsWhole
    <3>4. QED
      BY <1>1, <2>4, <3>1, <3>2, <3>3, PublishingBefore
  <2>5. ASSUME NEW q \in Procs, loc'[q].pc = "createTasks", NEW t \in Tasks \ loc'[q].todo
        PROVE  status'[t] # "absent"
    <3>1. CASE q # p
      BY <2>1, <2>3, <2>5, <3>1 DEF OthersKept, PlanInv
    <3>2. CASE q = p
      <4>1. loc'[p].pc = "createTasks" /\ t \notin loc'[p].todo
        BY <2>5, <3>2
      <4>2. CASE loc'[p].todo = Tasks
        BY <4>1, <4>2
      <4>3. CASE loc[p].pc = "createTasks" /\ loc'[p].todo = loc[p].todo
        BY <2>3, <4>1, <4>3 DEF PlanInv
      <4>4. ASSUME loc[p].pc = "createTasks", NEW u \in Tasks,
                   loc'[p].todo = loc[p].todo \ {u}, status'[u] # "absent"
            PROVE  status'[t] # "absent"
        BY <2>3, <4>1, <4>4 DEF PlanInv
      <4>5. QED
        BY <1>1, <4>1, <4>2, <4>3, <4>4, InsertingBefore
    <3>3. QED
      BY <3>1, <3>2
  <2>6. QED
    BY <2>4, <2>5 DEF PlanInv, PublishedPlanIsWhole
<1>2. CASE Crash
  <2>1. \A q \in Procs : loc'[q] = Idle
    BY <1>2 DEF Crash
  <2>2. QED
    BY <2>1, IdleShape DEF PlanInv, PublishedPlanIsWhole, Publishing
<1>3. ASSUME UNCHANGED <<rows, loc>>
      PROVE  PlanInv'
  <2>1. UNCHANGED <<status, depRows, loc>>
    BY <1>3 DEF rows
  <2>2. QED
    BY <2>1 DEF PlanInv, PublishedPlanIsWhole, Publishing, PlanWhole
<1>4. QED
  BY <1>1, <1>2, <1>3, StepCases DEF Elapse, vars

\* At the start nothing is published, or the plan has been stored.
LEMMA PlanInit == Init \/ PlannedInit => PlanInv
<1>1. ASSUME Init
      PROVE  PlanInv
  BY <1>1, IdleShape DEF Init, PlanInv, PublishedPlanIsWhole, Publishing
<1>2. ASSUME PlannedInit
      PROVE  PlanInv
  BY <1>2 DEF PlannedInit, PlanInv, PublishedPlanIsWhole, PlanWhole
<1>3. QED
  BY <1>1, <1>2

\* A StartRun that goes on past CreateTasks, to publish its plan or to mark its first
\* tasks ready, has the whole plan in the database, whatever the other goroutines
\* and the faults do meanwhile: CreateTasks reports the failure of any insert, and no
\* row of a plan is ever deleted.
THEOREM PlanStoredWhole ==
    (Spec => []PublishedPlanIsWhole) /\ (PlannedSpec => []PublishedPlanIsWhole)
<1>1. Init \/ PlannedInit => CallInv /\ PlanInv
  BY CallInit, PlanInit
<1>2. CallInv /\ PlanInv /\ [Next]_vars => CallInv' /\ PlanInv'
  BY CallInvStep, PlanInvStep
<1>3. PlanInv => PublishedPlanIsWhole
  BY DEF PlanInv
<1>4. QED
  BY <1>1, <1>2, <1>3, PTL DEF Spec, PlannedSpec

\* A planned run keeps its whole plan in every interleaving and through every
\* fault: the rows of a plan are only ever inserted.
THEOREM PlanKeptWhole == PlannedSpec => []PlanIsWhole
<1>1. DagInv => PlanIsWhole
  BY DEF DagInv, RowsSound, PlanIsWhole
<1>2. QED
  BY <1>1, DagInvariant, PTL
=============================================================================
