------------------------ MODULE OrchestratorStepProofs ------------------------
(***************************************************************************)
(* What each step does to the local variables of the process that takes    *)
(* it, field by field: the facts every later proof needs of the helpers.   *)
(* Then CallInv, the first invariant that rests on them: who calls the two *)
(* status updates with what, and how the attempts are numbered.            *)
(***************************************************************************)
EXTENDS OrchestratorProofs

\* m and l agree on what a process has read and has still to visit.
Frame(m, l) ==
    /\ m.op = l.op /\ m.run = l.run /\ m.seen = l.seen /\ m.latest = l.latest
    /\ m.spare = l.spare /\ m.todo = l.todo /\ m.block = l.block /\ m.busy = l.busy

\* m and l are inside the same call of UpdateTaskStatus.
SameCall(m, l) ==
    m.task = l.task /\ m.no = l.no /\ m.to = l.to /\ m.site = l.site /\ m.retry = l.retry

NoCall(m) == m.task = NoTask /\ m.no = 0 /\ m.to = "absent" /\ m.site = "none" /\ m.retry = FALSE

\* m remembers nothing but its control point, its operation and its run.
Fresh(m) ==
    /\ m.seen = Idle.seen /\ m.latest = Idle.latest
    /\ m.spare = {} /\ m.todo = {} /\ m.block = {} /\ m.busy = {}
    /\ NoCall(m)

\* completeTaskAttempt has returned to l's caller.
Returned(m, l) ==
    IF l.op = "exec" THEN m.pc = "getRun" /\ m.op = "reconcile" /\ Fresh(m)
                     ELSE m.pc = "timeouts" /\ Frame(m, l) /\ NoCall(m)

\* UpdateTaskStatus has returned to l's caller, without an error ...
Updated(m, l) ==
    \/ l.site = "mark" /\ m.pc = "mark" /\ Frame(m, l) /\ NoCall(m)
    \/ l.site = "dispatch" /\ m.pc = "increment" /\ Frame(m, l) /\ SameCall(m, l)
    \/ /\ l.site = "complete" /\ l.retry
       /\ m.pc = "readTask" /\ m.site = "retry" /\ m.to = "ready" /\ m.task = l.task
       /\ m.no = l.no /\ m.retry = l.retry /\ Frame(m, l)
    \/ l.site = "complete" /\ ~l.retry /\ Returned(m, l)
    \/ l.site = "retry" /\ Returned(m, l)
    \/ /\ l.site = "cancel" /\ l.todo = {}
       /\ m.pc = "readRun" /\ m.to = "cancelled" /\ m.site = "none" /\ m.task = NoTask
       /\ Frame(m, l)
    \/ l.site = "cancel" /\ l.todo # {} /\ m.pc = "cancel" /\ Frame(m, l) /\ NoCall(m)

\* ... or with one.
Refused(m, l) ==
    \/ m = Idle /\ ~(l.site \in {"complete", "retry"} /\ l.op = "exec")
    \/ l.site = "dispatch" /\ m.pc = "dispatch" /\ Frame(m, l) /\ NoCall(m)
    \/ l.site \in {"complete", "retry"} /\ l.op = "exec" /\ Returned(m, l)

\* UpdateRunStatus(to) has returned to l's caller, the run being in status cur.
RunMoved(m, l, to, cur) ==
    \/ m = Idle
    \/ l.op = "start" /\ to = "dispatching" /\ m.pc = "listForMark" /\ m.op = "start" /\ Fresh(m)
    \/ /\ l.op = "reconcile" /\ ~TerminalRun(cur)
       /\ m.pc = "listForDispatch" /\ m.op = "reconcile" /\ Fresh(m)
-----------------------------------------------------------------------------
(***************************************************************************)
(* The helpers                                                             *)
(***************************************************************************)
\* A goroutine that is not inside the service remembers nothing.
LEMMA IdleShape ==
    /\ Idle \in Local /\ Idle.pc = "idle" /\ Idle.op = "none" /\ Idle.run = "absent"
    /\ Fresh(Idle)
<1>1. Idle.pc = "idle" /\ Idle.op = "none" /\ Idle.run = "absent"
  BY DEF Idle
<1>2. /\ Idle.spare = {} /\ Idle.todo = {} /\ Idle.block = {} /\ Idle.busy = {}
      /\ Idle.task = NoTask /\ Idle.no = 0 /\ Idle.to = "absent" /\ Idle.site = "none"
      /\ Idle.retry = FALSE
  BY DEF Idle
<1>3. QED
  BY <1>1, <1>2, IdleFacts DEF Fresh, NoCall

\* Changing the control point changes nothing else.
LEMMA PcShape ==
    ASSUME NEW l \in Local, NEW pc \in PCs
    PROVE  LET m == [l EXCEPT !.pc = pc]
           IN  m \in Local /\ m.pc = pc /\ Frame(m, l) /\ SameCall(m, l) /\ m.old = l.old
<1> DEFINE m == [l EXCEPT !.pc = pc]
<1>1. m \in Local /\ m.pc = pc /\ m.old = l.old
  BY DEF Local
<1>2. Frame(m, l)
  BY DEF Local, Frame
<1>3. SameCall(m, l)
  BY DEF Local, SameCall
<1>4. QED
  BY <1>1, <1>2, <1>3

\* Clear forgets the call and nothing else.
LEMMA ClearShape ==
    ASSUME NEW l \in Local
    PROVE  Clear(l) \in Local /\ Clear(l).pc = l.pc /\ Frame(Clear(l), l) /\ NoCall(Clear(l))
<1>1. Clear(l) \in Local /\ Clear(l).pc = l.pc
  BY ClearFacts
<1>2. Frame(Clear(l), l)
  BY DEF Clear, Local, Frame
<1>3. NoCall(Clear(l))
  BY DEF Clear, Local, NoCall
<1>4. QED
  BY <1>1, <1>2, <1>3

\* Two steps that leave something alone leave it alone together.
LEMMA FrameCompose ==
    ASSUME NEW m, NEW k, NEW l, Frame(m, k), Frame(k, l)
    PROVE  Frame(m, l)
  BY DEF Frame

\* ... and a process outside a call stays outside.
LEMMA NoCallKept ==
    ASSUME NEW m, NEW k, SameCall(m, k), NoCall(k)
    PROVE  NoCall(m)
  BY DEF SameCall, NoCall

\* A function entered afresh, with the operation and the run it works for.
LEMMA EnterShape ==
    ASSUME NEW pc, NEW op, NEW http
    PROVE  LET m == [Idle EXCEPT !.pc = pc, !.op = op, !.http = http]
           IN  m.pc = pc /\ m.op = op /\ Fresh(m)
<1> DEFINE m(k) == [k EXCEPT !.pc = pc, !.op = op, !.http = http]
<1>1. \A k \in Local : m(k).pc = pc /\ m(k).op = op
  BY DEF Local
<1>2. \A k \in Local :
        /\ m(k).seen = k.seen /\ m(k).latest = k.latest /\ m(k).spare = k.spare
        /\ m(k).todo = k.todo /\ m(k).block = k.block /\ m(k).busy = k.busy
        /\ m(k).task = k.task /\ m(k).no = k.no /\ m(k).to = k.to /\ m(k).site = k.site
        /\ m(k).retry = k.retry
  BY DEF Local
<1>3. m(Idle).pc = pc /\ m(Idle).op = op
  BY <1>1, IdleShape
<1>4. Fresh(m(Idle))
  <2> HIDE DEF m
  <2>1. QED
    BY <1>2, IdleShape DEF Fresh, NoCall
<1>5. QED
  BY <1>3, <1>4

\* The goroutine of an attempt that has been completed reconciles the run.
LEMMA GetRunShape ==
    LET m == [Idle EXCEPT !.pc = "getRun", !.op = "reconcile"]
    IN  m.pc = "getRun" /\ m.op = "reconcile" /\ Fresh(m)
<1> DEFINE m(k) == [k EXCEPT !.pc = "getRun", !.op = "reconcile"]
<1>1. \A k \in Local : m(k).pc = "getRun" /\ m(k).op = "reconcile"
  BY DEF Local
<1>2. \A k \in Local :
        /\ m(k).seen = k.seen /\ m(k).latest = k.latest /\ m(k).spare = k.spare
        /\ m(k).todo = k.todo /\ m(k).block = k.block /\ m(k).busy = k.busy
        /\ m(k).task = k.task /\ m(k).no = k.no /\ m(k).to = k.to /\ m(k).site = k.site
        /\ m(k).retry = k.retry
  BY DEF Local
<1>3. m(Idle).pc = "getRun" /\ m(Idle).op = "reconcile"
  BY <1>1, IdleShape
<1>4. Fresh(m(Idle))
  <2> HIDE DEF m
  <2>1. QED
    BY <1>2, IdleShape DEF Fresh, NoCall
<1>5. QED
  BY <1>3, <1>4

\* The dispatch loop goes on only while there is something it can start.
LEMMA DispatchingShape ==
    ASSUME NEW l \in Local
    PROVE  \/ Dispatching(l) = Idle
           \/ /\ Dispatching(l).pc = "dispatch" /\ Frame(Dispatching(l), l)
              /\ SameCall(Dispatching(l), l)
<1>1. "dispatch" \in PCs
  BY DEF PCs
<1>2. QED
  BY <1>1, PcShape DEF Dispatching

\* completeTaskAttempt returns.
LEMMA AfterCompleteShape ==
    ASSUME NEW l \in Local
    PROVE  Returned(AfterComplete(l), l)
<1>1. "timeouts" \in PCs
  BY DEF PCs
<1> DEFINE m == [Clear(l) EXCEPT !.pc = "timeouts"]
<1>2. m.pc = "timeouts" /\ Frame(m, Clear(l)) /\ SameCall(m, Clear(l))
  BY <1>1, ClearShape, PcShape
<1>3. Frame(m, l) /\ NoCall(m)
  BY <1>2, ClearShape, FrameCompose, NoCallKept
<1> DEFINE g == [Idle EXCEPT !.pc = "getRun", !.op = "reconcile"]
<1>4. g.pc = "getRun" /\ g.op = "reconcile" /\ Fresh(g)
  BY GetRunShape
<1>5. AfterComplete(l) = IF l.op = "exec" THEN g ELSE m
  BY DEF AfterComplete
<1>6. QED
  <2> HIDE DEF g, m
  <2>1. QED
    BY <1>2, <1>3, <1>4, <1>5 DEF Returned

\* UpdateTaskStatus returns without an error ...
LEMMA TaskUpdatedShape ==
    ASSUME NEW l \in Local, l.site # "none"
    PROVE  Updated(TaskUpdated(l), l)
<1>0. {"mark", "cancel", "increment", "readRun", "readTask"} \subseteq PCs
  BY DEF PCs
<1>1. ASSUME NEW pc \in PCs
      PROVE  LET m == [Clear(l) EXCEPT !.pc = pc] IN m.pc = pc /\ Frame(m, l) /\ NoCall(m)
  <2> DEFINE m == [Clear(l) EXCEPT !.pc = pc]
  <2>1. m.pc = pc /\ Frame(m, Clear(l)) /\ SameCall(m, Clear(l))
    BY ClearShape, PcShape
  <2>2. Frame(m, l) /\ NoCall(m)
    BY <2>1, ClearShape, FrameCompose, NoCallKept
  <2>3. QED
    BY <2>1, <2>2
<1>2. CASE l.site = "mark"
  BY <1>0, <1>1, <1>2 DEF TaskUpdated, Updated
<1>3. CASE l.site = "dispatch"
  BY <1>0, <1>3, PcShape DEF TaskUpdated, Updated
<1>4. CASE l.site = "complete" /\ l.retry
  <2> DEFINE m == [l EXCEPT !.pc = "readTask", !.to = "ready", !.old = "absent", !.site = "retry"]
  <2>1. /\ m.pc = "readTask" /\ m.site = "retry" /\ m.to = "ready" /\ m.task = l.task
        /\ m.no = l.no /\ m.retry = l.retry
    BY DEF Local
  <2>2. Frame(m, l)
    BY DEF Local, Frame
  <2>3. QED
    BY <1>4, <2>1, <2>2 DEF TaskUpdated, Updated
<1>5. CASE l.site = "complete" /\ ~l.retry
  BY <1>5, AfterCompleteShape DEF TaskUpdated, Updated
<1>6. CASE l.site = "retry"
  BY <1>6, AfterCompleteShape DEF TaskUpdated, Updated
<1>7. CASE l.site = "cancel" /\ l.todo = {}
  <2> DEFINE m(k) == [k EXCEPT !.pc = "readRun", !.to = "cancelled"]
  <2>1. \A k \in Local : /\ m(k).pc = "readRun" /\ m(k).to = "cancelled"
                         /\ m(k).site = k.site /\ m(k).task = k.task
    BY DEF Local
  <2>2. \A k \in Local : Frame(m(k), k)
    BY DEF Local, Frame
  <2>3. /\ m(Clear(l)).pc = "readRun" /\ m(Clear(l)).to = "cancelled"
        /\ m(Clear(l)).site = "none" /\ m(Clear(l)).task = NoTask /\ Frame(m(Clear(l)), l)
    <3>1. Clear(l) \in Local /\ Frame(Clear(l), l) /\ NoCall(Clear(l))
      BY ClearShape
    <3> HIDE DEF m
    <3>2. Frame(m(Clear(l)), l)
      BY <2>2, <3>1, FrameCompose
    <3>3. QED
      BY <2>1, <3>1, <3>2 DEF NoCall
  <2>4. TaskUpdated(l) = m(Clear(l))
    BY <1>7 DEF TaskUpdated
  <2>5. QED
    <3> HIDE DEF m
    <3>1. QED
      BY <1>7, <2>3, <2>4 DEF Updated
<1>8. CASE l.site = "cancel" /\ l.todo # {}
  BY <1>0, <1>1, <1>8 DEF TaskUpdated, Updated
<1>9. QED
  BY <1>2, <1>3, <1>4, <1>5, <1>6, <1>7, <1>8 DEF Local

\* ... or with one.
LEMMA TaskRefusedShape ==
    ASSUME NEW l \in Local
    PROVE  Refused(TaskRefused(l), l)
<1>1. CASE l.site = "dispatch"
  <2>1. \/ Dispatching(Clear(l)) = Idle
        \/ /\ Dispatching(Clear(l)).pc = "dispatch" /\ Frame(Dispatching(Clear(l)), l)
           /\ NoCall(Dispatching(Clear(l)))
    <3>1. Clear(l) \in Local /\ Frame(Clear(l), l) /\ NoCall(Clear(l))
      BY ClearShape
    <3>2. QED
      BY <3>1, DispatchingShape, FrameCompose, NoCallKept
  <2>2. QED
    BY <1>1, <2>1 DEF TaskRefused, Refused
<1>2. CASE l.site \in {"complete", "retry"} /\ l.op = "exec"
  BY <1>2, AfterCompleteShape DEF TaskRefused, Refused
<1>3. QED
  BY <1>1, <1>2 DEF TaskRefused, Refused

\* UpdateRunStatus returns.
LEMMA RunUpdatedShape ==
    ASSUME NEW l, NEW cur
    PROVE  RunMoved(RunUpdated(l, cur), l, l.to, cur)
<1> DEFINE a == [Idle EXCEPT !.pc = "listForMark", !.op = "start", !.http = l.http]
           b == [Idle EXCEPT !.pc = "listForDispatch", !.op = "reconcile", !.http = l.http]
<1>1. a.pc = "listForMark" /\ a.op = "start" /\ Fresh(a)
  BY EnterShape
<1>2. b.pc = "listForDispatch" /\ b.op = "reconcile" /\ Fresh(b)
  BY EnterShape
<1>3. RunUpdated(l, cur) = IF l.op = "start" /\ l.to = "dispatching" THEN a
                           ELSE IF l.op = "reconcile" /\ ~TerminalRun(cur) THEN b ELSE Idle
  BY DEF RunUpdated
<1>4. QED
  <2> HIDE DEF a, b
  <2>1. QED
    BY <1>1, <1>2, <1>3 DEF RunMoved

\* transitionRun gives up, finds nothing to do, or asks the store.
LEMMA TransitionShape ==
    ASSUME NEW l \in Local, NEW to \in RunStatus
    PROVE  LET m == Transition(l, to) IN
           \/ ~CanTransitionRun(l.run, to) /\ m = Idle
           \/ l.run = to /\ RunMoved(m, l, to, to)
           \/ /\ CanTransitionRun(l.run, to) /\ m.pc = "readRun" /\ m.to = to
              /\ m.task = l.task /\ m.site = l.site /\ Frame(m, l)
<1> DEFINE m == [l EXCEPT !.pc = "readRun", !.to = to]
           k == [l EXCEPT !.to = to]
<1>1. m.pc = "readRun" /\ m.to = to /\ m.task = l.task /\ m.site = l.site
  BY DEF Local
<1>2. Frame(m, l)
  BY DEF Local, Frame
<1>3. k.to = to /\ k.op = l.op
  BY DEF Local
<1>4. RunMoved(RunUpdated(k, l.run), k, k.to, l.run)
  BY RunUpdatedShape
<1>5. RunMoved(RunUpdated(k, l.run), l, to, l.run)
  BY <1>3, <1>4 DEF RunMoved
<1>6. QED
  BY <1>1, <1>2, <1>5 DEF Transition

\* An attempt has been completed and its task is about to be.
LEMMA CompletingShape ==
    ASSUME NEW l \in Local, NEW t, NEW n, NEW o, NEW r
    PROVE  LET m == Completing(l, t, n, o, r) IN
           /\ m.pc = "readTask" /\ m.site = "complete" /\ m.task = t /\ m.no = n
           /\ m.to = CompletedTo(o) /\ m.retry = r /\ Frame(m, l)
<1> DEFINE m == Completing(l, t, n, o, r)
<1>1. /\ m.pc = "readTask" /\ m.site = "complete" /\ m.task = t /\ m.no = n
      /\ m.to = CompletedTo(o) /\ m.retry = r
  BY DEF Completing, Local
<1>2. Frame(m, l)
  BY DEF Completing, Local, Frame
<1>3. QED
  BY <1>1, <1>2
-----------------------------------------------------------------------------
(***************************************************************************)
(* The actions, for the process p that takes them: l is loc[p], m loc'[p]. *)
(***************************************************************************)
OthersKept(p) == \A q \in Procs \ {p} : loc'[q] = loc[q]

\* A step of p is a step of p only.
LEMMA BecomeShape ==
    ASSUME TypeInv, NEW p \in Procs, NEW m, Become(p, m)
    PROVE  loc'[p] = m /\ OthersKept(p)
  BY DEF TypeInv, TypeOK, Become, OthersKept

\* What UpdateTaskStatus is called with, from local variables l.
Calling(k, l) ==
    /\ k.task \in Tasks /\ k.op = l.op /\ k.run = l.run /\ k.seen = l.seen
    /\ k.latest = l.latest /\ k.spare = l.spare /\ k.busy = l.busy
    /\ \/ /\ l.pc = "mark" /\ k.site = "mark" /\ k.task \in l.todo
          /\ k.to = IF k.task \in l.block THEN "blocked" ELSE "ready"
          /\ k.todo = l.todo \ {k.task} /\ k.block = l.block \ {k.task}
       \/ /\ l.pc = "dispatch" /\ k.site = "dispatch" /\ k.task \in Dispatchable(l)
          /\ k.to = "running" /\ k.todo = l.todo \ {k.task} /\ k.block = l.block
       \/ /\ l.pc = "cancel" /\ k.site = "cancel" /\ k.task \in l.todo
          /\ k.to = "cancelled" /\ k.todo = l.todo \ {k.task} /\ k.block = l.block
       \/ l.pc = "readTask" /\ k = l

\* UpdateTaskStatus after its read of the row.
ReadDone(m, k) ==
    LET cur == status[k.task] IN
    \/ ~CanTransitionTask(cur, k.to) /\ Refused(m, k)
    \/ cur = k.to /\ Updated(m, k)
    \/ /\ cur # k.to /\ CanTransitionTask(cur, k.to)
       /\ m.pc = "casTask" /\ m.old = cur /\ SameCall(m, k) /\ Frame(m, k)

CallStep(p) == Mark(p) \/ Dispatch(p) \/ UpdateCompleted(p) \/ CancelTask(p)

\* The four callers of UpdateTaskStatus.
LEMMA CallShape ==
    ASSUME TypeInv, NEW p \in Procs, CallStep(p), Arguments(loc[p])
    PROVE  /\ \E k \in Local : Calling(k, loc[p]) /\ ReadTask(p, k) /\ k.site # "none"
           /\ UNCHANGED <<runStatus, status, count, depRows, attempt, env>>
<1> DEFINE l == loc[p]
<1>0. l \in Local /\ LocalsMeaningful(l) /\ {"blocked", "ready", "running", "cancelled"} \subseteq TaskStatus
  BY DEF TypeInv, TypeOK, TaskStatus
<1>1. CASE Mark(p)
  <2> DEFINE k(t) == [l EXCEPT !.task = t, !.site = "mark", !.todo = @ \ {t}, !.block = @ \ {t},
                               !.to = IF t \in l.block THEN "blocked" ELSE "ready"]
  <2>1. PICK t \in l.todo : ReadTask(p, k(t))
    BY <1>1 DEF Mark
  <2>2. t \in Tasks
    BY <1>0 DEF Local
  <2>3. k(t) \in Local
    BY <1>0, <2>2 DEF Local
  <2>4. /\ k(t).task = t /\ k(t).op = l.op /\ k(t).run = l.run /\ k(t).seen = l.seen
        /\ k(t).latest = l.latest /\ k(t).spare = l.spare /\ k(t).busy = l.busy
    BY <1>0 DEF Local
  <2>5. /\ k(t).site = "mark" /\ k(t).todo = l.todo \ {t} /\ k(t).block = l.block \ {t}
        /\ k(t).to = IF t \in l.block THEN "blocked" ELSE "ready"
    BY <1>0 DEF Local
  <2>6. Calling(k(t), l) /\ k(t).site # "none"
    <3>1. l.pc = "mark"
      BY <1>1 DEF Mark
    <3> HIDE DEF k
    <3>2. QED
      BY <2>2, <2>4, <2>5, <3>1 DEF Calling
  <2>7. QED
    BY <1>1, <2>1, <2>3, <2>6 DEF Mark
<1>2. CASE Dispatch(p)
  <2> DEFINE k(t) == [l EXCEPT !.task = t, !.to = "running", !.site = "dispatch", !.todo = @ \ {t}]
  <2>1. PICK t \in Dispatchable(l) : ReadTask(p, k(t))
    BY <1>2 DEF Dispatch
  <2>2. t \in Tasks
    BY <1>0 DEF Local, Dispatchable
  <2>3. k(t) \in Local
    BY <1>0, <2>2 DEF Local
  <2>4. /\ k(t).task = t /\ k(t).op = l.op /\ k(t).run = l.run /\ k(t).seen = l.seen
        /\ k(t).latest = l.latest /\ k(t).spare = l.spare /\ k(t).busy = l.busy
    BY <1>0 DEF Local
  <2>5. /\ k(t).site = "dispatch" /\ k(t).todo = l.todo \ {t} /\ k(t).block = l.block
        /\ k(t).to = "running"
    BY <1>0 DEF Local
  <2>6. Calling(k(t), l) /\ k(t).site # "none"
    <3>1. l.pc = "dispatch"
      BY <1>2 DEF Dispatch
    <3> HIDE DEF k
    <3>2. QED
      BY <2>1, <2>2, <2>4, <2>5, <3>1 DEF Calling
  <2>7. QED
    BY <1>2, <2>1, <2>3, <2>6 DEF Dispatch
<1>3. CASE UpdateCompleted(p)
  <2>1. l.pc = "readTask" /\ ReadTask(p, l) /\ l.task \in Tasks /\ l.site # "none"
    BY <1>0, <1>3 DEF UpdateCompleted, LocalsMeaningful, UpdatingTask, Arguments
  <2>2. Calling(l, l)
    BY <2>1 DEF Calling
  <2>3. QED
    BY <1>0, <1>3, <2>1, <2>2 DEF UpdateCompleted
<1>4. CASE CancelTask(p)
  <2> DEFINE k(t) == [l EXCEPT !.task = t, !.to = "cancelled", !.site = "cancel", !.todo = @ \ {t}]
  <2>1. PICK t \in l.todo : ReadTask(p, k(t))
    BY <1>4 DEF CancelTask
  <2>2. t \in Tasks
    BY <1>0 DEF Local
  <2>3. k(t) \in Local
    BY <1>0, <2>2 DEF Local
  <2>4. /\ k(t).task = t /\ k(t).op = l.op /\ k(t).run = l.run /\ k(t).seen = l.seen
        /\ k(t).latest = l.latest /\ k(t).spare = l.spare /\ k(t).busy = l.busy
    BY <1>0 DEF Local
  <2>5. /\ k(t).site = "cancel" /\ k(t).todo = l.todo \ {t} /\ k(t).block = l.block
        /\ k(t).to = "cancelled"
    BY <1>0 DEF Local
  <2>6. Calling(k(t), l) /\ k(t).site # "none"
    <3>1. l.pc = "cancel"
      BY <1>4 DEF CancelTask
    <3> HIDE DEF k
    <3>2. QED
      BY <2>2, <2>4, <2>5, <3>1 DEF Calling
  <2>7. QED
    BY <1>4, <2>1, <2>3, <2>6 DEF CancelTask
<1>5. QED
  BY <1>1, <1>2, <1>3, <1>4 DEF CallStep

\* The read of the row in UpdateTaskStatus.
LEMMA ReadTaskShape ==
    ASSUME TypeInv, NEW p \in Procs, NEW k \in Local, k.site # "none", ReadTask(p, k)
    PROVE  ReadDone(loc'[p], k) /\ OthersKept(p)
<1>1. Refused(TaskRefused(k), k) /\ Updated(TaskUpdated(k), k)
  BY TaskRefusedShape, TaskUpdatedShape
<1> DEFINE m == [k EXCEPT !.pc = "casTask", !.old = status[k.task]]
<1>2. m.pc = "casTask" /\ m.old = status[k.task]
  BY DEF Local
<1>3. SameCall(m, k) /\ Frame(m, k)
  BY DEF Local, SameCall, Frame
<1>4. \/ Become(p, TaskRefused(k)) /\ ~CanTransitionTask(status[k.task], k.to)
      \/ Become(p, TaskUpdated(k)) /\ status[k.task] = k.to
      \/ /\ Become(p, m) /\ status[k.task] # k.to
         /\ CanTransitionTask(status[k.task], k.to)
  BY DEF ReadTask
<1>5. QED
  <2> HIDE DEF m
  <2>1. QED
    BY <1>1, <1>2, <1>3, <1>4, BecomeShape DEF ReadDone

\* The UPDATE of the row in UpdateTaskStatus.
CasTaskDone(m, l) ==
    \/ /\ status[l.task] = l.old /\ Updated(m, l)
       /\ status' = [status EXCEPT ![l.task] = l.to]
    \/ /\ status[l.task] # l.old /\ Updated(m, l) /\ status' = status
       /\ status[l.task] = l.to \/ TerminalTask(status[l.task])
    \/ /\ status[l.task] # l.old /\ Refused(m, l) /\ status' = status
       /\ status[l.task] # l.to /\ ~TerminalTask(status[l.task])

LEMMA CasTaskShape ==
    ASSUME TypeInv, NEW p \in Procs, CasTask(p), Arguments(loc[p])
    PROVE  /\ loc[p].pc = "casTask" /\ CasTaskDone(loc'[p], loc[p]) /\ OthersKept(p)
           /\ UNCHANGED <<runStatus, count, depRows, attempt, env>>
<1> DEFINE l == loc[p]
<1>1. l \in Local /\ l.pc = "casTask" /\ l.site # "none"
  BY DEF TypeInv, TypeOK, CasTask, Arguments, UpdatingTask
<1>2. Refused(TaskRefused(l), l) /\ Updated(TaskUpdated(l), l)
  BY <1>1, TaskRefusedShape, TaskUpdatedShape
<1>3. \A m : Become(p, m) => loc'[p] = m /\ OthersKept(p)
  BY BecomeShape
<1>4. CasTaskDone(loc'[p], l) /\ OthersKept(p)
  BY <1>2, <1>3 DEF CasTask, CasTaskDone, TaskRowAsRead
<1>5. QED
  BY <1>1, <1>4 DEF CasTask

\* UpdateRunStatus, in the same two halves.
LEMMA RunShape ==
    ASSUME TypeInv, NEW p \in Procs
    PROVE  LET l == loc[p]
               m == loc'[p]
           IN
           /\ ReadRun(p) =>
                /\ l.pc = "readRun" /\ OthersKept(p)
                /\ UNCHANGED <<runStatus, status, count, depRows, attempt, env>>
                /\ \/ ~CanTransitionRun(runStatus, l.to) /\ m = Idle
                   \/ runStatus = l.to /\ RunMoved(m, l, l.to, runStatus)
                   \/ /\ CanTransitionRun(runStatus, l.to)
                      /\ m.pc = "casRun" /\ m.old = runStatus /\ SameCall(m, l) /\ Frame(m, l)
           /\ CasRun(p) =>
                /\ l.pc = "casRun" /\ OthersKept(p)
                /\ UNCHANGED <<status, count, depRows, attempt, env>>
                /\ \/ /\ runStatus = l.old /\ runStatus' = l.to
                      /\ RunMoved(m, l, l.to, l.to)
                   \/ /\ runStatus # l.old /\ runStatus' = runStatus
                      /\ runStatus = l.to \/ TerminalRun(runStatus)
                      /\ RunMoved(m, l, l.to, runStatus)
                   \/ runStatus # l.old /\ runStatus' = runStatus /\ m = Idle
<1> DEFINE l == loc[p]
           k == [l EXCEPT !.pc = "casRun", !.old = runStatus]
<1>0. l \in Local
  BY DEF TypeInv, TypeOK
<1>1. \A m : Become(p, m) => loc'[p] = m /\ OthersKept(p)
  BY BecomeShape
<1>2. \A cur : RunMoved(RunUpdated(l, cur), l, l.to, cur)
  BY RunUpdatedShape
<1>3. k.pc = "casRun" /\ k.old = runStatus
  BY <1>0 DEF Local
<1>4. SameCall(k, l) /\ Frame(k, l)
  BY <1>0 DEF Local, SameCall, Frame
<1>5. ASSUME ReadRun(p)
      PROVE  /\ l.pc = "readRun" /\ OthersKept(p)
             /\ \/ ~CanTransitionRun(runStatus, l.to) /\ loc'[p] = Idle
                \/ runStatus = l.to /\ RunMoved(loc'[p], l, l.to, runStatus)
                \/ CanTransitionRun(runStatus, l.to) /\ loc'[p] = k
             /\ UNCHANGED <<runStatus, status, count, depRows, attempt, env>>
  BY <1>1, <1>2, <1>5 DEF ReadRun
<1>6. ASSUME CasRun(p)
      PROVE  /\ l.pc = "casRun" /\ OthersKept(p)
             /\ \/ /\ runStatus = l.old /\ runStatus' = l.to
                   /\ RunMoved(loc'[p], l, l.to, l.to)
                \/ /\ runStatus # l.old /\ runStatus' = runStatus
                   /\ runStatus = l.to \/ TerminalRun(runStatus)
                   /\ RunMoved(loc'[p], l, l.to, runStatus)
                \/ runStatus # l.old /\ runStatus' = runStatus /\ loc'[p] = Idle
             /\ UNCHANGED <<status, count, depRows, attempt, env>>
  BY <1>1, <1>2, <1>6 DEF CasRun, RunRowAsRead
<1>7. QED
  <2> HIDE DEF k
  <2>1. QED
    BY <1>3, <1>4, <1>5, <1>6

\* StartRun up to the first update of the run.
LEMMA StartShape ==
    ASSUME TypeInv, NEW p \in Procs
    PROVE  LET l == loc[p]
               m == loc'[p]
           IN
           /\ StartRun(p) =>
                /\ l = Idle /\ OthersKept(p) /\ runStatus = "absent" /\ runStatus' = "planning"
                /\ UNCHANGED <<status, count, depRows, attempt, env>>
                /\ m.pc = "createTasks" /\ m.op = "start" /\ m.run = "planning"
                /\ m.todo = Tasks /\ m.latest = Idle.latest /\ NoCall(m)
           /\ InsertTask(p) =>
                /\ l.pc = "createTasks" /\ OthersKept(p)
                /\ UNCHANGED <<runStatus, count, depRows, attempt, events, env>>
                /\ m.pc = l.pc /\ m.op = l.op /\ m.run = l.run /\ m.latest = l.latest
                /\ SameCall(m, l)
                /\ \E t \in l.todo : /\ m.todo = l.todo \ {t}
                                     /\ status' = [status EXCEPT ![t] = "pending"]
           /\ CreateTasksFails(p) =>
                /\ l.pc = "createTasks" /\ OthersKept(p)
                /\ UNCHANGED <<runStatus, status, count, depRows, attempt, calls, overdue,
                               interrupted>>
                /\ faults' = [faults EXCEPT !.insert = @ - 1]
                /\ \/ m = Idle /\ (~CanTransitionRun(l.run, "failed") \/ l.run = "failed")
                   \/ /\ m.pc = "readRun" /\ m.to = "failed" /\ m.op = l.op
                      /\ m.task = l.task /\ m.site = l.site /\ m.latest = l.latest
           /\ PlanStored(p) =>
                /\ l.pc = "createTasks" /\ PlanInserted(l) /\ OthersKept(p)
                /\ UNCHANGED <<runStatus, status, count, depRows, attempt, env>>
                /\ \/ m = Idle
                   \/ RunMoved(m, l, "dispatching", "dispatching")
                   \/ /\ m.pc = "readRun" /\ m.to = "dispatching" /\ m.task = l.task
                      /\ m.site = l.site /\ Frame(m, l)
<1> DEFINE l == loc[p]
<1>0. l \in Local /\ {"failed", "dispatching", "planning"} \subseteq RunStatus
      /\ "createTasks" \in PCs
  BY DEF TypeInv, TypeOK, RunStatus, PCs
<1>1. \A m : Become(p, m) => loc'[p] = m /\ OthersKept(p)
  BY BecomeShape
<1>2. ASSUME StartRun(p)
      PROVE  /\ loc'[p].pc = "createTasks" /\ loc'[p].op = "start" /\ loc'[p].run = "planning"
             /\ loc'[p].todo = Tasks /\ loc'[p].latest = Idle.latest /\ NoCall(loc'[p])
             /\ l = Idle /\ OthersKept(p)
  <2> DEFINE m(k) == [k EXCEPT !.pc = "createTasks", !.op = "start", !.http = TRUE,
                               !.run = "planning", !.todo = Tasks]
  <2>1. \A k \in Local :
          /\ m(k).pc = "createTasks" /\ m(k).op = "start" /\ m(k).run = "planning"
          /\ m(k).todo = Tasks /\ m(k).latest = k.latest /\ m(k).task = k.task
          /\ m(k).no = k.no /\ m(k).to = k.to /\ m(k).site = k.site /\ m(k).retry = k.retry
    BY DEF Local
  <2>2. loc'[p] = m(Idle) /\ OthersKept(p) /\ l = Idle
    BY <1>1, <1>2 DEF StartRun
  <2>3. QED
    <3> HIDE DEF m
    <3>1. QED
      BY <2>1, <2>2, IdleShape DEF NoCall, Fresh
<1>3. ASSUME InsertTask(p)
      PROVE  /\ loc'[p].pc = l.pc /\ loc'[p].op = l.op /\ loc'[p].run = l.run
             /\ loc'[p].latest = l.latest /\ SameCall(loc'[p], l) /\ OthersKept(p)
             /\ \E t \in l.todo : /\ loc'[p].todo = l.todo \ {t}
                                  /\ status' = [status EXCEPT ![t] = "pending"]
  <2> DEFINE m(t) == [l EXCEPT !.todo = @ \ {t}]
  <2>1. PICK t \in l.todo : Become(p, m(t)) /\ status' = [status EXCEPT ![t] = "pending"]
    BY <1>3 DEF InsertTask
  <2>2. /\ m(t).pc = l.pc /\ m(t).op = l.op /\ m(t).run = l.run /\ m(t).latest = l.latest
        /\ m(t).todo = l.todo \ {t}
    BY <1>0 DEF Local
  <2>3. SameCall(m(t), l)
    BY <1>0 DEF Local, SameCall
  <2>4. QED
    BY <1>1, <2>1, <2>2, <2>3
<1>4. ASSUME CreateTasksFails(p)
      PROVE  /\ OthersKept(p)
             /\ \/ /\ loc'[p] = Idle
                   /\ ~CanTransitionRun(l.run, "failed") \/ l.run = "failed"
                \/ /\ loc'[p].pc = "readRun" /\ loc'[p].to = "failed" /\ loc'[p].op = l.op
                   /\ loc'[p].task = l.task /\ loc'[p].site = l.site
                   /\ loc'[p].latest = l.latest
  <2> DEFINE k == [l EXCEPT !.todo = {}]
  <2>1. /\ k \in Local /\ k.run = l.run /\ k.op = l.op /\ k.task = l.task /\ k.site = l.site
        /\ k.latest = l.latest
    BY <1>0 DEF Local
  <2>2. loc'[p] = Transition(k, "failed") /\ OthersKept(p)
    BY <1>1, <1>4 DEF CreateTasksFails
  <2> HIDE DEF k
  <2>3. \/ ~CanTransitionRun(k.run, "failed") /\ loc'[p] = Idle
        \/ k.run = "failed" /\ RunMoved(loc'[p], k, "failed", "failed")
        \/ /\ loc'[p].pc = "readRun" /\ loc'[p].to = "failed" /\ loc'[p].task = k.task
           /\ loc'[p].site = k.site /\ Frame(loc'[p], k)
    BY <1>0, <2>1, <2>2, TransitionShape
  <2>4. QED
    BY <2>1, <2>2, <2>3 DEF RunMoved, Frame, TerminalRun
<1>5. ASSUME PlanStored(p)
      PROVE  /\ OthersKept(p)
             /\ \/ loc'[p] = Idle
                \/ RunMoved(loc'[p], l, "dispatching", "dispatching")
                \/ /\ loc'[p].pc = "readRun" /\ loc'[p].to = "dispatching"
                   /\ loc'[p].task = l.task /\ loc'[p].site = l.site /\ Frame(loc'[p], l)
  <2>1. loc'[p] = Transition(l, "dispatching") /\ OthersKept(p)
    BY <1>1, <1>5 DEF PlanStored
  <2>2. QED
    BY <1>0, <2>1, TransitionShape
<1>6. StartRun(p) => /\ runStatus = "absent" /\ runStatus' = "planning"
                     /\ UNCHANGED <<status, count, depRows, attempt, env>>
  BY DEF StartRun
<1>7. InsertTask(p) => /\ l.pc = "createTasks"
                       /\ UNCHANGED <<runStatus, count, depRows, attempt, events, env>>
  BY DEF InsertTask
<1>8. CreateTasksFails(p) =>
        /\ l.pc = "createTasks" /\ faults' = [faults EXCEPT !.insert = @ - 1]
        /\ UNCHANGED <<runStatus, status, count, depRows, attempt, calls, overdue, interrupted>>
  BY DEF CreateTasksFails, rows
<1>9. PlanStored(p) => /\ l.pc = "createTasks" /\ PlanInserted(l)
                       /\ UNCHANGED <<runStatus, status, count, depRows, attempt, env>>
  BY DEF PlanStored
<1>10. QED
  BY <1>2, <1>3, <1>4, <1>5, <1>6, <1>7, <1>8, <1>9

\* ReconcileRun up to its second list of tasks.
LEMMA ListShape ==
    ASSUME TypeInv, NEW p \in Procs
    PROVE  LET l == loc[p]
               m == loc'[p]
           IN
           /\ Poll(p) \/ GetRun(p) =>
                /\ OthersKept(p) /\ UNCHANGED <<rows, env>>
                /\ \/ m = Idle
                   \/ /\ ~TerminalRun(runStatus)
                      /\ m.pc = "listForTimeout" /\ m.op = "reconcile" /\ m.run = runStatus
                      /\ Fresh(m)
           /\ ListForTimeout(p) =>
                /\ l.pc = "listForTimeout" /\ OthersKept(p) /\ UNCHANGED <<rows, env>>
                /\ m.pc = "listAttempts" /\ m.op = l.op /\ m.run = l.run /\ m.latest = l.latest
                /\ m.busy = Running(status) /\ SameCall(m, l)
                /\ m.spare = {t \in Running(status) : MayRetry(t, count[t])}
           /\ ListAttempts(p) =>
                /\ l.pc = "listAttempts" /\ OthersKept(p) /\ UNCHANGED <<rows, env>>
                /\ m.pc = "timeouts" /\ m.op = l.op /\ m.run = l.run /\ m.spare = l.spare
                /\ m.todo = {t \in l.busy : m.latest[t] # 0} /\ SameCall(m, l)
                /\ \A t \in Tasks : m.latest[t] = 0 \/ m.latest[t] \in RunningAttempts(t)
           /\ ListForMark(p) =>
                /\ l.pc \in {"listForMark", "timeouts"} /\ OthersKept(p)
                /\ UNCHANGED <<rows, env>>
                /\ m.pc = "listDeps" /\ m.op = l.op /\ m.run = l.run /\ m.seen = status
                /\ m.latest = Idle.latest /\ m.todo = {} /\ m.spare = {} /\ NoCall(m)
           /\ ListDeps(p) =>
                /\ l.pc = "listDeps" /\ OthersKept(p) /\ UNCHANGED <<rows, env>>
                /\ m.pc = "mark" /\ m.op = l.op /\ m.run = l.run /\ m.latest = l.latest
                /\ m.spare = l.spare /\ SameCall(m, l)
                /\ \A t \in m.todo : t \in Tasks /\ l.seen[t] \in {"pending", "blocked"}
           /\ ListForDispatch(p) =>
                /\ l.pc = "listForDispatch" /\ OthersKept(p) /\ UNCHANGED <<rows, env>>
                /\ \/ m = Idle
                   \/ /\ m.pc = "dispatch" /\ m.op = l.op /\ m.run = l.run
                      /\ m.latest = l.latest /\ m.spare = l.spare /\ SameCall(m, l)
                      /\ m.todo = {t \in Tasks : status[t] = "ready"}
                      /\ m.busy = Running(status)
<1> DEFINE l == loc[p]
           m == loc'[p]
<1>0. l \in Local /\ status \in [Tasks -> TaskStatus]
  BY DEF TypeInv, TypeOK
<1>1. \A k : Become(p, k) => m = k /\ OthersKept(p)
  BY BecomeShape
<1>2. ASSUME Poll(p) \/ GetRun(p)
      PROVE  /\ OthersKept(p)
             /\ \/ m = Idle
                \/ /\ ~TerminalRun(runStatus)
                   /\ m.pc = "listForTimeout" /\ m.op = "reconcile" /\ m.run = runStatus
                   /\ Fresh(m)
  <2> DEFINE k(i, h) == [i EXCEPT !.pc = "listForTimeout", !.op = "reconcile", !.http = h,
                                  !.run = runStatus]
  <2>1. \A h : \A i \in Local :
          /\ k(i, h).pc = "listForTimeout" /\ k(i, h).op = "reconcile"
          /\ k(i, h).run = runStatus /\ k(i, h).seen = i.seen /\ k(i, h).latest = i.latest
          /\ k(i, h).spare = i.spare /\ k(i, h).todo = i.todo /\ k(i, h).block = i.block
          /\ k(i, h).busy = i.busy
    BY DEF Local
  <2>2. \A h : \A i \in Local : SameCall(k(i, h), i)
    BY DEF Local, SameCall
  <2>3. PICK h : Become(p, IF TerminalRun(runStatus) THEN Idle ELSE k(Idle, h))
    BY <1>2 DEF Poll, GetRun, Reconciling
  <2> HIDE DEF k
  <2>4. Fresh(k(Idle, h))
    BY <2>1, <2>2, IdleShape, NoCallKept DEF Fresh
  <2>5. QED
    BY <1>1, <2>1, <2>3, <2>4, IdleShape
<1>3. ASSUME ListForTimeout(p)
      PROVE  /\ OthersKept(p)
             /\ m.pc = "listAttempts" /\ m.op = l.op /\ m.run = l.run /\ m.latest = l.latest
             /\ m.busy = Running(status) /\ SameCall(m, l)
             /\ m.spare = {t \in Running(status) : MayRetry(t, count[t])}
  <2> DEFINE spare == {t \in Running(status) : MayRetry(t, count[t])}
             k(b, s) == [l EXCEPT !.pc = "listAttempts", !.busy = b, !.spare = s]
  <2>1. \A b, s : /\ k(b, s).pc = "listAttempts" /\ k(b, s).op = l.op /\ k(b, s).run = l.run
                  /\ k(b, s).latest = l.latest /\ k(b, s).busy = b /\ k(b, s).spare = s
                  /\ SameCall(k(b, s), l)
    BY <1>0 DEF Local, SameCall
  <2>2. Become(p, k(Running(status), spare))
    BY <1>3 DEF ListForTimeout
  <2>3. QED
    <3> HIDE DEF k
    <3>1. QED
      BY <1>1, <2>1, <2>2
<1>4. ASSUME ListAttempts(p)
      PROVE  /\ OthersKept(p)
             /\ m.pc = "timeouts" /\ m.op = l.op /\ m.run = l.run /\ m.spare = l.spare
             /\ m.todo = {t \in l.busy : m.latest[t] # 0} /\ SameCall(m, l)
             /\ \A t \in Tasks : m.latest[t] = 0 \/ m.latest[t] \in RunningAttempts(t)
  <2> DEFINE k(n, d) == [l EXCEPT !.pc = "timeouts", !.busy = {}, !.latest = n, !.todo = d]
  <2>1. \A n, d : /\ k(n, d).pc = "timeouts" /\ k(n, d).op = l.op /\ k(n, d).run = l.run
                  /\ k(n, d).spare = l.spare /\ k(n, d).latest = n /\ k(n, d).todo = d
                  /\ SameCall(k(n, d), l)
    BY <1>0 DEF Local, SameCall
  <2>2. PICK latest \in [Tasks -> 0 .. MaxAttempts] :
          /\ \A t \in Tasks : IF t \in l.busy THEN LatestRunning(t, latest[t]) ELSE latest[t] = 0
          /\ Become(p, k(latest, {t \in l.busy : latest[t] # 0}))
    BY <1>4 DEF ListAttempts
  <2>3. \A t \in Tasks : latest[t] = 0 \/ latest[t] \in RunningAttempts(t)
    BY <2>2 DEF LatestRunning
  <2>4. QED
    <3> HIDE DEF k
    <3>1. QED
      BY <1>1, <2>1, <2>2, <2>3
<1>5. ASSUME ListForMark(p)
      PROVE  /\ OthersKept(p)
             /\ m.pc = "listDeps" /\ m.op = l.op /\ m.run = l.run /\ m.seen = status
             /\ m.latest = Idle.latest /\ m.todo = {} /\ m.spare = {} /\ NoCall(m)
  <2> DEFINE k(i) == [i EXCEPT !.pc = "listDeps", !.op = l.op, !.http = l.http,
                               !.run = l.run, !.seen = status]
  <2>1. \A i \in Local :
          /\ k(i).pc = "listDeps" /\ k(i).op = l.op /\ k(i).run = l.run /\ k(i).seen = status
          /\ k(i).latest = i.latest /\ k(i).todo = i.todo /\ k(i).spare = i.spare
          /\ k(i).task = i.task /\ k(i).no = i.no /\ k(i).to = i.to /\ k(i).site = i.site
          /\ k(i).retry = i.retry
    BY DEF Local
  <2>2. Become(p, k(Idle))
    BY <1>5 DEF ListForMark
  <2>3. QED
    <3> HIDE DEF k
    <3>1. QED
      BY <1>1, <2>1, <2>2, IdleShape DEF NoCall, Fresh
<1>6. ASSUME ListDeps(p)
      PROVE  /\ OthersKept(p)
             /\ m.pc = "mark" /\ m.op = l.op /\ m.run = l.run /\ m.latest = l.latest
             /\ m.spare = l.spare /\ SameCall(m, l)
             /\ \A t \in m.todo : t \in Tasks /\ l.seen[t] \in {"pending", "blocked"}
  <2> DEFINE k(d, b) == [l EXCEPT !.pc = "mark", !.seen = Idle.seen, !.todo = d, !.block = b]
  <2>1. \A d, b : /\ k(d, b).pc = "mark" /\ k(d, b).op = l.op /\ k(d, b).run = l.run
                  /\ k(d, b).latest = l.latest /\ k(d, b).spare = l.spare
                  /\ k(d, b).todo = d /\ SameCall(k(d, b), l)
    BY <1>0 DEF Local, SameCall
  <2>2. PICK d, b : /\ Become(p, k(d, b))
                    /\ \A t \in d : t \in Tasks /\ l.seen[t] \in {"pending", "blocked"}
    <3> DEFINE waiting == {t \in Tasks : l.seen[t] \in {"pending", "blocked"}}
               ready   == {t \in waiting : Runnable(l.seen, ParentsIn(depRows, t))}
               block   == {t \in waiting : /\ l.seen[t] = "pending"
                                           /\ Blocked(l.seen, ParentsIn(depRows, t))}
    <3>1. Become(p, k(ready \cup block, block))
      BY <1>6 DEF ListDeps
    <3>2. \A t \in ready \cup block : t \in Tasks /\ l.seen[t] \in {"pending", "blocked"}
      OBVIOUS
    <3>3. QED
      BY <3>1, <3>2
  <2>3. QED
    <3> HIDE DEF k
    <3>1. QED
      BY <1>1, <2>1, <2>2
<1>7. ASSUME ListForDispatch(p)
      PROVE  /\ OthersKept(p)
             /\ \/ m = Idle
                \/ /\ m.pc = "dispatch" /\ m.op = l.op /\ m.run = l.run
                   /\ m.latest = l.latest /\ m.spare = l.spare /\ SameCall(m, l)
                   /\ m.todo = {t \in Tasks : status[t] = "ready"}
                   /\ m.busy = Running(status)
  <2> DEFINE todo == {t \in Tasks : status[t] = "ready"}
             k == [l EXCEPT !.todo = todo, !.busy = Running(status)]
  <2>1. k \in Local
    BY <1>0 DEF Local, Running
  <2>2. /\ k.op = l.op /\ k.run = l.run /\ k.latest = l.latest /\ k.spare = l.spare
        /\ k.todo = todo /\ k.busy = Running(status)
    BY <1>0 DEF Local
  <2>3. SameCall(k, l)
    BY <1>0 DEF Local, SameCall
  <2>4. m = Dispatching(k) /\ OthersKept(p)
    BY <1>1, <1>7 DEF ListForDispatch
  <2> HIDE DEF k, todo
  <2>5. m = Idle \/ (m.pc = "dispatch" /\ Frame(m, k) /\ SameCall(m, k))
    BY <2>1, <2>4, DispatchingShape
  <2>6. QED
    BY <2>2, <2>3, <2>4, <2>5 DEF todo, Frame, SameCall
<1>8. QED
  BY <1>2, <1>3, <1>4, <1>5, <1>6, <1>7 DEF Poll, GetRun, ListForTimeout, ListAttempts,
     ListForMark, ListDeps, ListForDispatch

\* Ending an attempt, by its provider's answer or by its timeout.
LEMMA CompleteShape ==
    ASSUME TypeInv, NEW p \in Procs
    PROVE  LET l == loc[p]
               m == loc'[p]
           IN
           /\ TimeOut(p) =>
                /\ l.pc = "timeouts" /\ OthersKept(p)
                /\ UNCHANGED <<runStatus, status, count, depRows, events, env>>
                /\ m.op = l.op /\ m.run = l.run /\ m.latest = l.latest /\ m.spare = l.spare
                /\ m.todo \subseteq l.todo \ {m.task}
                /\ m.pc = "readTask" /\ m.site = "complete" /\ m.to = "failed"
                /\ m.task \in l.todo /\ m.no = l.latest[m.task] /\ Due(m.task, m.no)
                /\ m.retry = (m.task \in l.spare)
                /\ CompleteAttempt(m.task, m.no, "timed_out")
           /\ \A c \in calls : ExecutorReturns(p, c) =>
                /\ l = Idle /\ OthersKept(p) /\ calls' = calls \ {c}
                /\ UNCHANGED <<runStatus, status, count, depRows, events, overdue,
                               interrupted, faults>>
                /\ m.op = "exec" /\ m.run = "absent" /\ m.latest = Idle.latest
                /\ m.spare = {} /\ m.todo = {}
                /\ m.pc = "readTask" /\ m.site = "complete" /\ m.task = c[1] /\ m.no = c[2]
                /\ m.retry => MayRetry(c[1], c[2]) /\ m.to = "failed"
                /\ \E o \in {"succeeded", "failed", "timed_out"} :
                        CompleteAttempt(c[1], c[2], o) /\ m.to = CompletedTo(o)
<1> DEFINE l == loc[p]
           m == loc'[p]
<1>0. l \in Local
  BY DEF TypeInv, TypeOK
<1>1. \A k : Become(p, k) => m = k /\ OthersKept(p)
  BY BecomeShape
<1>2. ASSUME TimeOut(p)
      PROVE  /\ OthersKept(p)
             /\ m.op = l.op /\ m.run = l.run /\ m.latest = l.latest /\ m.spare = l.spare
             /\ m.todo \subseteq l.todo \ {m.task}
             /\ m.pc = "readTask" /\ m.site = "complete" /\ m.to = "failed"
             /\ m.task \in l.todo /\ m.no = l.latest[m.task] /\ Due(m.task, m.no)
             /\ m.retry = (m.task \in l.spare)
             /\ CompleteAttempt(m.task, m.no, "timed_out")
  <2> DEFINE k(d) == [l EXCEPT !.todo = @ \ d]
  <2>1. PICK t \in l.todo, passed \in SUBSET l.todo :
          /\ Due(t, l.latest[t])
          /\ CompleteAttempt(t, l.latest[t], "timed_out")
          /\ Become(p, Completing(k(passed \cup {t}), t, l.latest[t], "timed_out", t \in l.spare))
    BY <1>2 DEF TimeOut
  <2>2. \A d : /\ k(d) \in Local /\ k(d).op = l.op /\ k(d).run = l.run
               /\ k(d).latest = l.latest /\ k(d).spare = l.spare /\ k(d).todo = l.todo \ d
    BY <1>0 DEF Local
  <2> HIDE DEF k
  <2>3. /\ OthersKept(p) /\ m.pc = "readTask" /\ m.site = "complete" /\ m.task = t
        /\ m.no = l.latest[t] /\ m.to = CompletedTo("timed_out") /\ m.retry = (t \in l.spare)
        /\ Frame(m, k(passed \cup {t}))
    BY <1>1, <2>1, <2>2, CompletingShape
  <2>4. QED
    BY <2>1, <2>2, <2>3 DEF Frame, CompletedTo
<1>3. ASSUME NEW c \in calls, ExecutorReturns(p, c)
      PROVE  /\ OthersKept(p)
             /\ m.op = "exec" /\ m.run = "absent" /\ m.latest = Idle.latest
             /\ m.spare = {} /\ m.todo = {}
             /\ m.pc = "readTask" /\ m.site = "complete" /\ m.task = c[1] /\ m.no = c[2]
             /\ m.retry => MayRetry(c[1], c[2]) /\ m.to = "failed"
             /\ \E o \in {"succeeded", "failed", "timed_out"} :
                     CompleteAttempt(c[1], c[2], o) /\ m.to = CompletedTo(o)
  <2> DEFINE k(i) == [i EXCEPT !.op = "exec"]
  <2>1. PICK o \in OutcomesOf(c) :
          LET result == AttemptResult(o)
              retry  == o \in {"retryable", "timed_out"} /\ MayRetry(c[1], c[2])
          IN  /\ CompleteAttempt(c[1], c[2], result)
              /\ Become(p, Completing(k(Idle), c[1], c[2], result, retry))
    BY <1>3 DEF ExecutorReturns
  <2> DEFINE result == AttemptResult(o)
             retry  == o \in {"retryable", "timed_out"} /\ MayRetry(c[1], c[2])
  <2>2. \A i \in Local : /\ k(i) \in Local /\ k(i).op = "exec" /\ k(i).run = i.run
                         /\ k(i).latest = i.latest /\ k(i).spare = i.spare /\ k(i).todo = i.todo
    BY DEF Local
  <2>3. /\ result \in {"succeeded", "failed", "timed_out"}
        /\ retry => CompletedTo(result) = "failed"
    BY ConfigAssumption DEF AttemptResult, OutcomesOf, CompletedTo
  <2> HIDE DEF k, result
  <2>4. /\ OthersKept(p) /\ m.pc = "readTask" /\ m.site = "complete" /\ m.task = c[1]
        /\ m.no = c[2] /\ m.to = CompletedTo(result) /\ m.retry = retry /\ Frame(m, k(Idle))
    <3>1. CompleteAttempt(c[1], c[2], result)
          /\ Become(p, Completing(k(Idle), c[1], c[2], result, retry))
      BY <2>1 DEF result
    <3> HIDE DEF retry
    <3>2. k(Idle) \in Local
      BY <2>2, IdleShape
    <3>3. QED
      BY <1>1, <3>1, <3>2, CompletingShape
  <2>5. CompleteAttempt(c[1], c[2], result)
    BY <2>1 DEF result
  <2>6. QED
    BY <2>2, <2>3, <2>4, <2>5, IdleShape DEF Frame, Fresh
<1>4. TimeOut(p) => /\ l.pc = "timeouts"
                    /\ UNCHANGED <<runStatus, status, count, depRows, events, env>>
  BY DEF TimeOut
<1>5. \A c \in calls : ExecutorReturns(p, c) =>
        /\ l = Idle /\ calls' = calls \ {c}
        /\ UNCHANGED <<runStatus, status, count, depRows, events, overdue, interrupted, faults>>
  BY DEF ExecutorReturns
<1>6. QED
  BY <1>2, <1>3, <1>4, <1>5

\* Claiming a task.
LEMMA ClaimShape ==
    ASSUME TypeInv, NEW p \in Procs
    PROVE  LET l == loc[p]
               m == loc'[p]
           IN
           /\ Increment(p) =>
                /\ l.pc = "increment" /\ OthersKept(p)
                /\ UNCHANGED <<runStatus, status, depRows, attempt, events, env>>
                /\ count' = [count EXCEPT ![l.task] = @ + 1]
                /\ m.pc = "reread" /\ Frame(m, l) /\ SameCall(m, l)
           /\ Reread(p) =>
                /\ l.pc = "reread" /\ OthersKept(p) /\ UNCHANGED <<rows, env>>
                /\ m.pc = "createAttempt" /\ Frame(m, l)
                /\ m.task = l.task /\ m.to = l.to /\ m.site = l.site /\ m.retry = l.retry
                /\ m.no = IF count[l.task] = 0 THEN 1 ELSE count[l.task]
           /\ CreateAttempt(p) =>
                /\ l.pc = "createAttempt" /\ OthersKept(p) /\ attempt[l.task][l.no] = "absent"
                /\ UNCHANGED <<runStatus, status, count, depRows, overdue, interrupted, faults>>
                /\ attempt' = [attempt EXCEPT ![l.task][l.no] = "running"]
                /\ calls' = calls \cup {<<l.task, l.no>>}
                /\ \/ m = Idle
                   \/ /\ m.pc = "dispatch" /\ m.op = l.op /\ m.run = l.run
                      /\ m.latest = l.latest /\ m.spare = l.spare /\ m.todo = l.todo
                      /\ m.busy = l.busy \cup {l.task} /\ NoCall(m)
           /\ AttemptExists(p) =>
                /\ l.pc = "createAttempt" /\ OthersKept(p) /\ attempt[l.task][l.no] # "absent"
                /\ UNCHANGED <<rows, env>> /\ m = Idle
<1> DEFINE l == loc[p]
           m == loc'[p]
<1>0. /\ l \in Local
      /\ l.pc = "createAttempt" => l.task \in Tasks
  BY DEF TypeInv, TypeOK, LocalsMeaningful, UpdatingTask
<1>1. \A k : Become(p, k) => m = k /\ OthersKept(p)
  BY BecomeShape
<1>2. ASSUME Increment(p)
      PROVE  OthersKept(p) /\ m.pc = "reread" /\ Frame(m, l) /\ SameCall(m, l)
  <2> DEFINE k == [l EXCEPT !.pc = "reread"]
  <2>1. Become(p, k)
    BY <1>2 DEF Increment
  <2>2. k.pc = "reread"
    BY <1>0 DEF Local
  <2>3. Frame(k, l) /\ SameCall(k, l)
    BY <1>0 DEF Local, Frame, SameCall
  <2> HIDE DEF k
  <2>4. QED
    BY <1>1, <2>1, <2>2, <2>3
<1>3. ASSUME Reread(p)
      PROVE  /\ OthersKept(p) /\ m.pc = "createAttempt" /\ Frame(m, l)
             /\ m.task = l.task /\ m.to = l.to /\ m.site = l.site /\ m.retry = l.retry
             /\ m.no = IF count[l.task] = 0 THEN 1 ELSE count[l.task]
  <2> DEFINE k(n) == [l EXCEPT !.pc = "createAttempt", !.no = n]
  <2>1. \A n : /\ k(n).pc = "createAttempt" /\ k(n).task = l.task /\ k(n).to = l.to
               /\ k(n).site = l.site /\ k(n).retry = l.retry /\ k(n).no = n
    BY <1>0 DEF Local
  <2>2. \A n : Frame(k(n), l)
    BY <1>0 DEF Local, Frame
  <2>3. Become(p, k(IF count[l.task] = 0 THEN 1 ELSE count[l.task]))
    BY <1>3 DEF Reread
  <2> HIDE DEF k
  <2>4. QED
    BY <1>1, <2>1, <2>2, <2>3
<1>4. ASSUME CreateAttempt(p)
      PROVE  /\ OthersKept(p)
             /\ \/ m = Idle
                \/ /\ m.pc = "dispatch" /\ m.op = l.op /\ m.run = l.run
                   /\ m.latest = l.latest /\ m.spare = l.spare /\ m.todo = l.todo
                   /\ m.busy = l.busy \cup {l.task} /\ NoCall(m)
  <2> DEFINE k == [l EXCEPT !.busy = @ \cup {l.task}]
  <2>0. l.task \in Tasks
    <3>1. l.pc = "createAttempt"
      BY <1>4 DEF CreateAttempt
    <3>2. QED
      BY <1>0, <3>1
  <2>1. /\ k \in Local /\ k.op = l.op /\ k.run = l.run /\ k.latest = l.latest
        /\ k.spare = l.spare /\ k.todo = l.todo /\ k.busy = l.busy \cup {l.task}
    BY <1>0, <2>0 DEF Local
  <2>2. Become(p, Dispatching(Clear(k)))
    BY <1>4 DEF CreateAttempt
  <2> HIDE DEF k
  <2>3. Clear(k) \in Local /\ Frame(Clear(k), k) /\ NoCall(Clear(k))
    BY <2>1, ClearShape
  <2>4. m = Idle \/ (m.pc = "dispatch" /\ Frame(m, Clear(k)) /\ SameCall(m, Clear(k)))
    BY <1>1, <2>2, <2>3, DispatchingShape
  <2>5. m = Idle \/ (m.pc = "dispatch" /\ Frame(m, k) /\ NoCall(m))
    BY <2>3, <2>4, FrameCompose, NoCallKept
  <2>6. QED
    BY <1>1, <2>1, <2>2, <2>5 DEF Frame
<1>5. ASSUME AttemptExists(p)
      PROVE  OthersKept(p) /\ m = Idle
  BY <1>1, <1>5 DEF AttemptExists
<1>6. Increment(p) => /\ l.pc = "increment"
                      /\ UNCHANGED <<runStatus, status, depRows, attempt, events, env>>
                      /\ count' = [count EXCEPT ![l.task] = @ + 1]
  BY DEF Increment
<1>7. Reread(p) => l.pc = "reread" /\ UNCHANGED <<rows, env>>
  BY DEF Reread
<1>8. CreateAttempt(p) =>
        /\ l.pc = "createAttempt" /\ attempt[l.task][l.no] = "absent"
        /\ UNCHANGED <<runStatus, status, count, depRows, overdue, interrupted, faults>>
        /\ attempt' = [attempt EXCEPT ![l.task][l.no] = "running"]
        /\ calls' = calls \cup {<<l.task, l.no>>}
  BY DEF CreateAttempt
<1>9. AttemptExists(p) => /\ l.pc = "createAttempt" /\ attempt[l.task][l.no] # "absent"
                          /\ UNCHANGED <<rows, env>>
  BY DEF AttemptExists
<1>10. QED
  BY <1>2, <1>3, <1>4, <1>5, <1>6, <1>7, <1>8, <1>9

\* The run's own status: recomputed, or about to be cancelled.
LEMMA CancelShape ==
    ASSUME TypeInv, NEW p \in Procs
    PROVE  LET l == loc[p]
               m == loc'[p]
               to == DerivedRunStatus(status)
           IN
           /\ Recompute(p) =>
                /\ l.pc = "mark" /\ l.op = "reconcile" /\ OthersKept(p)
                /\ UNCHANGED <<rows, env>>
                /\ \/ m = Idle
                   \/ l.run = to /\ RunMoved(m, l, to, to)
                   \/ /\ m.pc = "readRun" /\ m.to = to /\ m.task = l.task /\ m.site = l.site
                      /\ Frame(m, l)
           /\ CancelRun(p) =>
                /\ l = Idle /\ OthersKept(p) /\ runStatus # "absent" /\ ~TerminalRun(runStatus)
                /\ UNCHANGED <<rows, calls, overdue, interrupted>>
                /\ faults.cancel > 0 /\ faults' = [faults EXCEPT !.cancel = @ - 1]
                /\ m.pc = "cancelList" /\ m.op = "cancel" /\ m.run = runStatus /\ Fresh(m)
           /\ CancelList(p) =>
                /\ l.pc = "cancelList" /\ OthersKept(p) /\ UNCHANGED <<rows, env>>
                /\ \/ m = Idle /\ (~CanTransitionRun(l.run, "cancelled") \/ l.run = "cancelled")
                   \/ /\ \A t \in Tasks : status[t] \notin Unsettled
                      /\ m.pc = "readRun" /\ m.to = "cancelled" /\ m.task = l.task
                      /\ m.site = l.site /\ Frame(m, l)
                   \/ /\ m.pc = "cancel" /\ m.op = l.op /\ m.run = l.run
                      /\ m.latest = l.latest /\ SameCall(m, l)
                      /\ m.todo = {t \in Tasks : status[t] \in Unsettled}
<1> DEFINE l == loc[p]
           m == loc'[p]
<1>0. l \in Local /\ "cancelled" \in RunStatus /\ DerivedRunStatus(status) \in RunStatus
  BY DEF TypeInv, TypeOK, RunStatus, DerivedRunStatus
<1>1. \A k : Become(p, k) => m = k /\ OthersKept(p)
  BY BecomeShape
<1>2. ASSUME Recompute(p)
      PROVE  LET to == DerivedRunStatus(status) IN
             /\ OthersKept(p)
             /\ \/ m = Idle
                \/ l.run = to /\ RunMoved(m, l, to, to)
                \/ /\ m.pc = "readRun" /\ m.to = to /\ m.task = l.task /\ m.site = l.site
                   /\ Frame(m, l)
  <2>1. m = Transition(l, DerivedRunStatus(status)) /\ OthersKept(p)
    BY <1>1, <1>2 DEF Recompute
  <2>2. QED
    BY <1>0, <2>1, TransitionShape
<1>3. ASSUME CancelRun(p)
      PROVE  /\ OthersKept(p) /\ m.pc = "cancelList" /\ m.op = "cancel" /\ m.run = runStatus
             /\ Fresh(m)
  <2> DEFINE k(i) == [i EXCEPT !.pc = "cancelList", !.op = "cancel", !.http = TRUE,
                               !.run = runStatus]
  <2>1. \A i \in Local :
          /\ k(i).pc = "cancelList" /\ k(i).op = "cancel" /\ k(i).run = runStatus
          /\ k(i).seen = i.seen /\ k(i).latest = i.latest /\ k(i).spare = i.spare
          /\ k(i).todo = i.todo /\ k(i).block = i.block /\ k(i).busy = i.busy
    BY DEF Local
  <2>2. \A i \in Local : SameCall(k(i), i)
    BY DEF Local, SameCall
  <2>3. Become(p, k(Idle))
    BY <1>3 DEF CancelRun
  <2> HIDE DEF k
  <2>4. Fresh(k(Idle))
    BY <2>1, <2>2, IdleShape, NoCallKept DEF Fresh
  <2>5. QED
    BY <1>1, <2>1, <2>3, <2>4, IdleShape
<1>4. ASSUME CancelList(p)
      PROVE  /\ OthersKept(p)
             /\ \/ m = Idle /\ (~CanTransitionRun(l.run, "cancelled") \/ l.run = "cancelled")
                \/ /\ \A t \in Tasks : status[t] \notin Unsettled
                   /\ m.pc = "readRun" /\ m.to = "cancelled" /\ m.task = l.task
                   /\ m.site = l.site /\ Frame(m, l)
                \/ /\ m.pc = "cancel" /\ m.op = l.op /\ m.run = l.run
                   /\ m.latest = l.latest /\ SameCall(m, l)
                   /\ m.todo = {t \in Tasks : status[t] \in Unsettled}
  <2> DEFINE todo == {t \in Tasks : status[t] # "cancelled" /\ CanTransitionTask(status[t], "cancelled")}
             k(d) == [l EXCEPT !.pc = "cancel", !.todo = d]
  <2>1. todo = {t \in Tasks : status[t] \in Unsettled}
    BY DEF CanTransitionTask, Unsettled
  <2>2. \A d : /\ k(d).pc = "cancel" /\ k(d).op = l.op /\ k(d).run = l.run
               /\ k(d).latest = l.latest /\ k(d).todo = d
    BY <1>0 DEF Local
  <2>3. \A d : SameCall(k(d), l)
    BY <1>0 DEF Local, SameCall
  <2>4. Become(p, IF todo = {} THEN Transition(l, "cancelled") ELSE k(todo))
    BY <1>4 DEF CancelList
  <2> HIDE DEF k, todo
  <2>5. CASE todo = {}
    <3>1. m = Transition(l, "cancelled") /\ OthersKept(p)
      BY <1>1, <2>4, <2>5
    <3>2. \A t \in Tasks : status[t] \notin Unsettled
      BY <2>1, <2>5
    <3>3. \/ ~CanTransitionRun(l.run, "cancelled") /\ m = Idle
          \/ l.run = "cancelled" /\ RunMoved(m, l, "cancelled", "cancelled")
          \/ /\ m.pc = "readRun" /\ m.to = "cancelled" /\ m.task = l.task
             /\ m.site = l.site /\ Frame(m, l)
      BY <1>0, <3>1, TransitionShape
    <3>4. QED
      BY <3>1, <3>2, <3>3 DEF RunMoved, TerminalRun
  <2>6. CASE todo # {}
    BY <1>1, <2>1, <2>2, <2>3, <2>4, <2>6
  <2>7. QED
    BY <2>5, <2>6
<1>5. Recompute(p) => l.pc = "mark" /\ l.op = "reconcile" /\ UNCHANGED <<rows, env>>
  BY DEF Recompute
<1>6. CancelRun(p) =>
        /\ l = Idle /\ runStatus # "absent" /\ ~TerminalRun(runStatus)
        /\ UNCHANGED <<rows, calls, overdue, interrupted>>
        /\ faults.cancel > 0 /\ faults' = [faults EXCEPT !.cancel = @ - 1]
  BY DEF CancelRun
<1>7. CancelList(p) => l.pc = "cancelList" /\ UNCHANGED <<rows, env>>
  BY DEF CancelList
<1>8. QED
  BY <1>2, <1>3, <1>4, <1>5, <1>6, <1>7

\* The steps that drop what the process holds, or add a dependency row.
LEMMA DropShape ==
    ASSUME TypeInv, NEW p \in Procs
    PROVE  /\ FinishStart(p) => loc'[p] = Idle /\ OthersKept(p) /\ UNCHANGED <<rows, env>>
           /\ Abort(p) => /\ loc'[p] = Idle /\ OthersKept(p)
                          /\ UNCHANGED <<rows, calls, overdue, interrupted>>
                          /\ faults.abort > 0 /\ faults' = [faults EXCEPT !.abort = @ - 1]
           /\ InsertDep(p) => /\ loc[p].pc = "createTasks" /\ loc[p].todo = {}
                              /\ UNCHANGED <<runStatus, status, count, attempt, events, env, loc>>
                              /\ depRows \subseteq depRows'
<1>1. \A k : Become(p, k) => loc'[p] = k /\ OthersKept(p)
  BY BecomeShape
<1>2. QED
  BY <1>1 DEF FinishStart, Abort, InsertDep
-----------------------------------------------------------------------------
(***************************************************************************)
(* CallInv: the arguments                                                  *)
(***************************************************************************)
\* k is inside a call of UpdateTaskStatus and carries what Arguments says.
CallArguments(k) ==
    /\ k.op # "none" /\ (k.op = "exec" => k.site \in {"complete", "retry"})
    /\ k.op = "cancel" <=> k.site = "cancel"
    /\ k.site = "mark" => k.to \in {"ready", "blocked"}
    /\ k.site = "dispatch" => k.to = "running"
    /\ k.site = "complete" => k.to \in {"succeeded", "failed"}
    /\ k.site = "retry" => k.to = "ready" /\ k.retry
    /\ k.site = "cancel" => k.to = "cancelled"

\* Outside such a call there is little to say.
LEMMA OutsideArguments ==
    ASSUME NEW m, m.site = "none", m.pc \notin UpdatingTask,
           \/ m.op \in {"start", "reconcile"} /\ m.pc \notin {"cancelList", "cancel"}
           \/ m.op = "none" /\ m.pc = "idle"
           \/ (m.op = "cancel" /\ m.pc \in {"cancelList", "cancel", "readRun", "casRun"}),
           m.pc \in {"readRun", "casRun"} =>
             /\ m.op = "start" => m.to \in {"dispatching", "failed"}
             /\ m.op = "cancel" => m.to = "cancelled"
    PROVE  Arguments(m)
  BY DEF Arguments

\* A goroutine that has just entered a function, or has returned.
LEMMA FreshArguments ==
    /\ Arguments(Idle)
    /\ \A m : /\ Fresh(m) /\ m.pc \notin UpdatingTask \cup {"readRun", "casRun"}
              /\ \/ m.op \in {"start", "reconcile"} /\ m.pc \notin {"cancelList", "cancel"}
                 \/ m.op = "cancel" /\ m.pc = "cancelList"
              => Arguments(m)
<1>1. Arguments(Idle)
  BY IdleShape DEF Arguments, Fresh, NoCall, UpdatingTask
<1>2. ASSUME NEW m, Fresh(m), m.pc \notin UpdatingTask \cup {"readRun", "casRun"},
             \/ m.op \in {"start", "reconcile"} /\ m.pc \notin {"cancelList", "cancel"}
             \/ m.op = "cancel" /\ m.pc = "cancelList"
      PROVE  Arguments(m)
  BY <1>2, OutsideArguments DEF Fresh, NoCall
<1>3. QED
  BY <1>1, <1>2

\* Where a call of UpdateTaskStatus leads.
LEMMA ReturnArguments ==
    ASSUME NEW k \in Local, CallArguments(k), k.site # "none", NEW m
    PROVE  /\ Returned(m, k) /\ k.site \in {"complete", "retry"} => Arguments(m)
           /\ Updated(m, k) => Arguments(m)
           /\ Refused(m, k) => Arguments(m)
<1>0. k.op \in {"start", "reconcile", "exec", "cancel"}
  BY DEF Local, CallArguments
<1>1. ASSUME Returned(m, k), k.site \in {"complete", "retry"}
      PROVE  Arguments(m)
  BY <1>0, <1>1, FreshArguments, OutsideArguments
     DEF Returned, Frame, NoCall, CallArguments, UpdatingTask
<1>2. ASSUME Updated(m, k)
      PROVE  Arguments(m)
  <2>1. CASE k.site \in {"complete", "retry"} /\ Returned(m, k)
    BY <1>1, <2>1
  <2>2. CASE ~(k.site \in {"complete", "retry"} /\ Returned(m, k))
    BY <1>0, <1>2, <2>2 DEF Updated, Frame, NoCall, SameCall, CallArguments, Arguments,
                            UpdatingTask, Claiming
  <2>3. QED
    BY <2>1, <2>2
<1>3. ASSUME Refused(m, k)
      PROVE  Arguments(m)
  <2>1. CASE m.pc = "dispatch" /\ k.site = "dispatch" /\ Frame(m, k) /\ NoCall(m)
    BY <1>0, <2>1, OutsideArguments DEF Frame, NoCall, CallArguments, UpdatingTask
  <2>2. QED
    BY <1>1, <1>3, <2>1, FreshArguments DEF Refused
<1>4. QED
  BY <1>1, <1>2, <1>3

\* A process at one of its control points carries what the call needs.
LEMMA CallingArguments ==
    ASSUME NEW l \in Local, NEW k \in Local, Arguments(l)
    PROVE  /\ l.pc \in {"readTask", "casTask"} => CallArguments(l) /\ l.site # "none"
           /\ Calling(k, l) => CallArguments(k)
<1>1. l.pc \in {"readTask", "casTask"} => CallArguments(l) /\ l.site # "none"
  BY DEF Arguments, CallArguments, UpdatingTask, Local
<1>2. ASSUME Calling(k, l), l.pc # "readTask"
      PROVE  CallArguments(k)
  <2>1. l.site = "none" /\ l.pc \in {"mark", "dispatch", "cancel"}
    <3>1. l.pc \in {"mark", "dispatch", "cancel"}
      BY <1>2 DEF Calling
    <3>2. QED
      BY <3>1 DEF Arguments, Claiming, Local
  <2>2. l.op \notin {"none", "exec"} /\ (l.op = "cancel" <=> l.pc = "cancel")
    BY <2>1 DEF Arguments
  <2>3. CASE l.pc = "cancel"
    BY <1>2, <2>2, <2>3 DEF Calling, CallArguments
  <2>4. CASE l.pc \in {"mark", "dispatch"}
    BY <1>2, <2>2, <2>4 DEF Calling, CallArguments
  <2>5. QED
    BY <2>1, <2>3, <2>4
<1>3. QED
  BY <1>1, <1>2 DEF Calling

\* UpdateTaskStatus: the four callers, its read and its update.
LEMMA CallKeepsArguments ==
    ASSUME TypeInv, NEW p \in Procs, Arguments(loc[p]), CallStep(p) \/ CasTask(p)
    PROVE  Arguments(loc'[p])
<1> DEFINE l == loc[p]
           m == loc'[p]
<1>0. l \in Local
  BY DEF TypeInv, TypeOK
<1>1. CASE CallStep(p)
  <2>1. PICK k \in Local : Calling(k, l) /\ ReadTask(p, k) /\ k.site # "none"
    BY <1>1, CallShape
  <2>2. CallArguments(k)
    BY <1>0, <2>1, CallingArguments
  <2>3. ReadDone(m, k)
    BY <2>1, ReadTaskShape
  <2>4. CASE m.pc = "casTask" /\ SameCall(m, k) /\ Frame(m, k)
    BY <2>1, <2>2, <2>4 DEF SameCall, Frame, CallArguments, Arguments, UpdatingTask, Local
  <2>5. QED
    BY <2>1, <2>2, <2>3, <2>4, ReturnArguments DEF ReadDone
<1>2. CASE CasTask(p)
  <2>1. CasTaskDone(m, l) /\ CallArguments(l) /\ l.site # "none"
    BY <1>0, <1>2, CasTaskShape, CallingArguments
  <2>2. QED
    BY <1>0, <2>1, ReturnArguments DEF CasTaskDone
<1>3. QED
  BY <1>1, <1>2

\* Between two calls a process carries no task, and works for one of the
\* handlers.
LEMMA AtRest ==
    ASSUME NEW l \in Local, Arguments(l), l.pc \notin UpdatingTask \cup {"idle"}
    PROVE  /\ l.site = "none"
           /\ \/ l.op \in {"start", "reconcile"} /\ l.pc \notin {"cancelList", "cancel"}
              \/ l.op = "cancel" /\ l.pc \in {"cancelList", "cancel", "readRun", "casRun"}
<1>1. l.site = "none"
  BY DEF Arguments, UpdatingTask, Claiming, Local
<1>2. l.op \in {"start", "reconcile", "cancel"}
  BY <1>1 DEF Arguments, Local
<1>3. QED
  BY <1>1, <1>2 DEF Arguments, UpdatingTask

\* UpdateRunStatus has returned, or has not been called.
LEMMA RunMovedArguments ==
    ASSUME NEW m, NEW l, NEW to, NEW cur, RunMoved(m, l, to, cur)
    PROVE  Arguments(m)
<1>1. CASE m = Idle
  BY <1>1, FreshArguments
<1>2. CASE /\ Fresh(m) /\ m.pc \in {"listForMark", "listForDispatch"}
           /\ m.op \in {"start", "reconcile"}
  BY <1>2, FreshArguments DEF UpdatingTask
<1>3. QED
  BY <1>1, <1>2 DEF RunMoved

\* StartRun up to its first update of the run.
LEMMA StartKeepsArguments ==
    ASSUME TypeInv, NEW p \in Procs, Arguments(loc[p]),
           StartRun(p) \/ InsertTask(p) \/ CreateTasksFails(p) \/ PlanStored(p)
    PROVE  Arguments(loc'[p])
<1> DEFINE l == loc[p]
           m == loc'[p]
<1>0. l \in Local
  BY DEF TypeInv, TypeOK
<1>1. CASE StartRun(p)
  <2>1. m.pc = "createTasks" /\ m.op = "start" /\ NoCall(m)
    BY <1>1, StartShape
  <2>2. QED
    BY <2>1, OutsideArguments DEF NoCall, UpdatingTask
<1>2. ASSUME l.pc = "createTasks"
      PROVE  l.site = "none" /\ l.op \in {"start", "reconcile"}
  BY <1>0, <1>2, AtRest DEF UpdatingTask
<1>3. CASE InsertTask(p)
  <2>1. l.pc = "createTasks" /\ m.pc = l.pc /\ m.op = l.op /\ SameCall(m, l)
    BY <1>3, StartShape
  <2>2. QED
    BY <1>2, <2>1, OutsideArguments DEF SameCall, UpdatingTask
<1>4. CASE CreateTasksFails(p)
  <2>1. /\ l.pc = "createTasks"
        /\ \/ m = Idle
           \/ m.pc = "readRun" /\ m.to = "failed" /\ m.op = l.op /\ m.site = l.site
    BY <1>4, StartShape
  <2>2. QED
    BY <1>2, <2>1, FreshArguments, OutsideArguments DEF UpdatingTask
<1>5. CASE PlanStored(p)
  <2>1. /\ l.pc = "createTasks"
        /\ \/ m = Idle
           \/ RunMoved(m, l, "dispatching", "dispatching")
           \/ m.pc = "readRun" /\ m.to = "dispatching" /\ m.site = l.site /\ Frame(m, l)
    BY <1>5, StartShape
  <2>2. QED
    BY <1>2, <2>1, FreshArguments, RunMovedArguments, OutsideArguments DEF Frame, UpdatingTask
<1>6. QED
  BY <1>1, <1>3, <1>4, <1>5

\* UpdateRunStatus.
LEMMA RunKeepsArguments ==
    ASSUME TypeInv, NEW p \in Procs, Arguments(loc[p]), ReadRun(p) \/ CasRun(p)
    PROVE  Arguments(loc'[p])
<1> DEFINE l == loc[p]
           m == loc'[p]
<1>0. l \in Local
  BY DEF TypeInv, TypeOK
<1>1. CASE m = Idle
  BY <1>1, FreshArguments
<1>2. CASE \E cur : RunMoved(m, l, l.to, cur)
  BY <1>2, RunMovedArguments
<1>3. CASE l.pc = "readRun" /\ m.pc = "casRun" /\ SameCall(m, l) /\ Frame(m, l)
  <2>1. /\ l.site = "none" /\ l.op \in {"start", "reconcile", "cancel"}
        /\ l.op = "start" => l.to \in {"dispatching", "failed"}
        /\ l.op = "cancel" => l.to = "cancelled"
    BY <1>0, <1>3, AtRest DEF Arguments, UpdatingTask
  <2>2. m.site = "none" /\ m.op = l.op /\ m.to = l.to
    BY <1>3, <2>1 DEF SameCall, Frame
  <2>3. QED
    BY <1>3, <2>1, <2>2, OutsideArguments DEF UpdatingTask
<1>4. QED
  BY <1>1, <1>2, <1>3, RunShape

\* ReconcileRun and CancelRun between their updates.
LEMMA ListKeepsArguments ==
    ASSUME TypeInv, NEW p \in Procs, Arguments(loc[p]),
           \/ Poll(p) \/ GetRun(p) \/ ListForTimeout(p) \/ ListAttempts(p) \/ ListForMark(p)
           \/ ListDeps(p) \/ ListForDispatch(p) \/ Recompute(p) \/ CancelRun(p) \/ CancelList(p)
    PROVE  Arguments(loc'[p])
<1> DEFINE l == loc[p]
           m == loc'[p]
<1>0. l \in Local
  BY DEF TypeInv, TypeOK
<1>1. ASSUME l.pc \in {"listForTimeout", "listAttempts", "listForMark", "timeouts", "listDeps",
                       "listForDispatch", "mark"}
      PROVE  l.site = "none" /\ l.op \in {"start", "reconcile"}
  BY <1>0, <1>1, AtRest DEF UpdatingTask
<1>2. CASE Poll(p) \/ GetRun(p)
  <2>1. m = Idle \/ (m.pc = "listForTimeout" /\ m.op = "reconcile" /\ Fresh(m))
    BY <1>2, ListShape
  <2>2. QED
    BY <2>1, FreshArguments DEF UpdatingTask
<1>3. CASE ListForTimeout(p)
  <2>1. l.pc = "listForTimeout" /\ m.pc = "listAttempts" /\ m.op = l.op /\ SameCall(m, l)
    BY <1>3, ListShape
  <2>2. QED
    BY <1>1, <2>1, OutsideArguments DEF SameCall, UpdatingTask
<1>4. CASE ListAttempts(p)
  <2>1. l.pc = "listAttempts" /\ m.pc = "timeouts" /\ m.op = l.op /\ SameCall(m, l)
    BY <1>4, ListShape
  <2>2. QED
    BY <1>1, <2>1, OutsideArguments DEF SameCall, UpdatingTask
<1>5. CASE ListForMark(p)
  <2>1. /\ l.pc \in {"listForMark", "timeouts"} /\ m.pc = "listDeps" /\ m.op = l.op
        /\ NoCall(m)
    BY <1>5, ListShape
  <2>2. QED
    BY <1>1, <2>1, OutsideArguments DEF NoCall, UpdatingTask
<1>6. CASE ListDeps(p)
  <2>1. l.pc = "listDeps" /\ m.pc = "mark" /\ m.op = l.op /\ SameCall(m, l)
    BY <1>6, ListShape
  <2>2. QED
    BY <1>1, <2>1, OutsideArguments DEF SameCall, UpdatingTask
<1>7. CASE ListForDispatch(p)
  <2>1. /\ l.pc = "listForDispatch"
        /\ m = Idle \/ (m.pc = "dispatch" /\ m.op = l.op /\ SameCall(m, l))
    BY <1>7, ListShape
  <2>2. QED
    BY <1>1, <2>1, FreshArguments, OutsideArguments DEF SameCall, UpdatingTask
<1>8. CASE Recompute(p)
  <2>1. /\ l.pc = "mark" /\ l.op = "reconcile"
        /\ \/ m = Idle
           \/ \E to : RunMoved(m, l, to, to)
           \/ m.pc = "readRun" /\ m.site = l.site /\ Frame(m, l)
    BY <1>8, CancelShape
  <2>2. QED
    BY <1>1, <2>1, FreshArguments, RunMovedArguments, OutsideArguments DEF Frame, UpdatingTask
<1>9. CASE CancelRun(p)
  <2>1. m.pc = "cancelList" /\ m.op = "cancel" /\ Fresh(m)
    BY <1>9, CancelShape
  <2>2. QED
    BY <2>1, FreshArguments DEF UpdatingTask
<1>10. CASE CancelList(p)
  <2>1. /\ l.pc = "cancelList"
        /\ \/ m = Idle
           \/ m.pc = "readRun" /\ m.to = "cancelled" /\ m.site = l.site /\ Frame(m, l)
           \/ m.pc = "cancel" /\ m.op = l.op /\ SameCall(m, l)
    BY <1>10, CancelShape
  <2>2. l.site = "none" /\ l.op = "cancel"
    BY <1>0, <2>1, AtRest DEF UpdatingTask
  <2>3. QED
    BY <2>1, <2>2, FreshArguments, OutsideArguments DEF Frame, SameCall, UpdatingTask
<1>11. QED
  BY <1>2, <1>3, <1>4, <1>5, <1>6, <1>7, <1>8, <1>9, <1>10

\* Claiming a task and ending an attempt.
LEMMA AttemptKeepsArguments ==
    ASSUME TypeInv, NEW p \in Procs, Arguments(loc[p]),
           \/ Increment(p) \/ Reread(p) \/ CreateAttempt(p) \/ AttemptExists(p)
           \/ TimeOut(p) \/ \E c \in calls : ExecutorReturns(p, c)
    PROVE  Arguments(loc'[p])
<1> DEFINE l == loc[p]
           m == loc'[p]
<1>0. l \in Local
  BY DEF TypeInv, TypeOK
<1>1. ASSUME l.pc \in Claiming
      PROVE  l.site = "dispatch" /\ l.to = "running" /\ l.op \in {"start", "reconcile"}
  <2>1. l.site = "dispatch" /\ l.to = "running"
    BY <1>0, <1>1 DEF Arguments, Claiming, UpdatingTask, Local
  <2>2. QED
    BY <1>0, <1>1, <2>1 DEF Arguments, Claiming, Local
<1>2. CASE Increment(p) \/ Reread(p)
  <2>1. /\ l.pc \in Claiming /\ m.pc \in Claiming
        /\ m.site = l.site /\ m.to = l.to /\ m.op = l.op
    BY <1>2, ClaimShape DEF Claiming, SameCall, Frame
  <2>2. QED
    BY <1>1, <2>1 DEF Arguments, Claiming, UpdatingTask
<1>3. CASE CreateAttempt(p) \/ AttemptExists(p)
  <2>1. l.pc \in Claiming /\ (m = Idle \/ (m.pc = "dispatch" /\ m.op = l.op /\ NoCall(m)))
    BY <1>3, ClaimShape DEF Claiming
  <2>2. QED
    BY <1>1, <2>1, FreshArguments, OutsideArguments DEF NoCall, UpdatingTask
<1>4. CASE TimeOut(p)
  <2>1. /\ l.pc = "timeouts" /\ m.op = l.op
        /\ m.pc = "readTask" /\ m.site = "complete" /\ m.to = "failed"
    BY <1>4, CompleteShape
  <2>2. l.op \in {"start", "reconcile"}
    BY <1>0, <2>1, AtRest DEF UpdatingTask
  <2>3. QED
    BY <2>1, <2>2 DEF Arguments, UpdatingTask
<1>5. ASSUME NEW c \in calls, ExecutorReturns(p, c)
      PROVE  Arguments(m)
  <2>1. m.op = "exec" /\ m.pc = "readTask" /\ m.site = "complete" /\ \E o : m.to = CompletedTo(o)
    BY <1>5, CompleteShape
  <2>2. QED
    BY <2>1 DEF Arguments, UpdatingTask, CompletedTo
<1>6. QED
  BY <1>2, <1>3, <1>4, <1>5
-----------------------------------------------------------------------------
(***************************************************************************)
(* CallInv: the attempts' numbers                                          *)
(***************************************************************************)
\* The steps that write no attempt and no count, and list none.
PlainStep(p) ==
    \/ StartRun(p) \/ InsertTask(p) \/ CreateTasksFails(p) \/ PlanStored(p) \/ FinishStart(p)
    \/ Poll(p) \/ GetRun(p) \/ ListForTimeout(p) \/ ListForMark(p) \/ ListDeps(p)
    \/ ListForDispatch(p) \/ CallStep(p) \/ CasTask(p) \/ Recompute(p) \/ ReadRun(p) \/ CasRun(p)
    \/ AttemptExists(p) \/ CancelRun(p) \/ CancelList(p) \/ Abort(p)

\* A call of UpdateTaskStatus that returns keeps the list of attempts or drops it.
LEMMA ReturnLatest ==
    ASSUME NEW m, NEW k, Updated(m, k) \/ Refused(m, k)
    PROVE  /\ m.latest = k.latest \/ m.latest = Idle.latest
           /\ m.pc \notin {"reread", "createAttempt"}
<1>1. ASSUME Returned(m, k)
      PROVE  /\ m.latest = k.latest \/ m.latest = Idle.latest
             /\ m.pc \notin {"reread", "createAttempt"}
  BY <1>1 DEF Returned, Fresh, Frame
<1>2. CASE Updated(m, k)
  BY <1>1, <1>2 DEF Updated, Frame
<1>3. CASE Refused(m, k)
  BY <1>1, <1>3, IdleShape DEF Refused, Frame
<1>4. QED
  BY <1>2, <1>3

\* Such a step keeps the list of attempts or drops it, and ends no call.
LEMMA PlainShape ==
    ASSUME TypeInv, NEW p \in Procs, Arguments(loc[p]), PlainStep(p)
    PROVE  /\ OthersKept(p)
           /\ UNCHANGED <<count, attempt, calls>>
           /\ loc'[p].latest = loc[p].latest \/ loc'[p].latest = Idle.latest
           /\ loc'[p].pc \notin {"reread", "createAttempt"}
<1> DEFINE l == loc[p]
           m == loc'[p]
           Goal == /\ OthersKept(p)
                   /\ UNCHANGED <<count, attempt, calls>>
                   /\ m.latest = l.latest \/ m.latest = Idle.latest
                   /\ m.pc \notin {"reread", "createAttempt"}
<1>0. Idle.pc = "idle" /\ l \in Local
  BY IdleShape DEF TypeInv, TypeOK
<1>1. ASSUME NEW to, NEW cur, RunMoved(m, l, to, cur)
      PROVE  m.latest = Idle.latest /\ m.pc \notin {"reread", "createAttempt"}
  BY <1>0, <1>1 DEF RunMoved, Fresh
<1>2. CASE StartRun(p) \/ InsertTask(p) \/ CreateTasksFails(p)
  BY <1>0, <1>2, StartShape DEF env
<1>3. CASE PlanStored(p)
  BY <1>0, <1>1, <1>3, StartShape DEF Frame, env
<1>4. CASE FinishStart(p) \/ Abort(p)
  BY <1>0, <1>4, DropShape DEF rows, env
<1>5. CASE Poll(p) \/ GetRun(p) \/ ListForTimeout(p)
  <2>1. UNCHANGED <<rows, env>> /\ OthersKept(p)
    BY <1>5, ListShape
  <2>2. /\ m.latest = l.latest \/ m.latest = Idle.latest
        /\ m.pc \notin {"reread", "createAttempt"}
    BY <1>0, <1>5, ListShape DEF Fresh
  <2>3. QED
    BY <2>1, <2>2 DEF rows, env
<1>6. CASE ListForMark(p) \/ ListDeps(p) \/ ListForDispatch(p)
  <2>1. UNCHANGED <<rows, env>> /\ OthersKept(p)
    BY <1>6, ListShape
  <2>2. /\ m.latest = l.latest \/ m.latest = Idle.latest
        /\ m.pc \notin {"reread", "createAttempt"}
    BY <1>0, <1>6, ListShape
  <2>3. QED
    BY <2>1, <2>2 DEF rows, env
<1>7. CASE CallStep(p)
  <2>1. PICK k \in Local : Calling(k, l) /\ ReadTask(p, k) /\ k.site # "none"
    BY <1>7, CallShape
  <2>2. k.latest = l.latest
    BY <2>1 DEF Calling
  <2>3. ReadDone(m, k) /\ OthersKept(p)
    BY <2>1, ReadTaskShape
  <2>4. UNCHANGED <<count, attempt, calls>>
    BY <1>7, CallShape DEF env
  <2>5. QED
    BY <2>2, <2>3, <2>4, ReturnLatest DEF ReadDone, Frame
<1>8. CASE CasTask(p)
  BY <1>8, CasTaskShape, ReturnLatest DEF CasTaskDone, env
<1>9. CASE ReadRun(p) \/ CasRun(p)
  <2>1. UNCHANGED <<count, attempt, calls>> /\ OthersKept(p)
    BY <1>9, RunShape DEF env
  <2>2. \/ m = Idle \/ \E cur : RunMoved(m, l, l.to, cur)
        \/ m.pc = "casRun" /\ Frame(m, l)
    BY <1>9, RunShape
  <2>3. QED
    BY <1>0, <1>1, <2>1, <2>2 DEF Frame
<1>10. CASE AttemptExists(p)
  BY <1>0, <1>10, ClaimShape DEF rows, env
<1>11. CASE Recompute(p) \/ CancelRun(p) \/ CancelList(p)
  <2>1. UNCHANGED <<count, attempt, calls>> /\ OthersKept(p)
    BY <1>11, CancelShape DEF rows, env
  <2>2. \/ m = Idle \/ \E to : RunMoved(m, l, to, to)
        \/ m.pc = "readRun" /\ Frame(m, l)
        \/ m.pc = "cancelList" /\ Fresh(m)
        \/ m.pc = "cancel" /\ m.latest = l.latest
    BY <1>11, CancelShape
  <2>3. QED
    BY <1>0, <1>1, <2>1, <2>2 DEF Frame, Fresh
<1>12. QED
  BY <1>2, <1>3, <1>4, <1>5, <1>6, <1>7, <1>8, <1>9, <1>10, <1>11 DEF PlainStep

\* The steps of a process, sorted by what they do to the attempts.
StepOf(p) ==
    \/ PlainStep(p) \/ InsertDep(p) \/ ListAttempts(p)
    \/ TimeOut(p) \/ \E c \in calls : ExecutorReturns(p, c)
    \/ Increment(p) \/ Reread(p) \/ CreateAttempt(p)

\* Every step is one of them, a restart, an attempt that reaches its timeout, or none.
LEMMA StepCases ==
    ASSUME [Next]_vars
    PROVE  \/ \E p \in Procs : StepOf(p)
           \/ Crash
           \/ \E c \in Tasks \X AttemptNos : Elapse(c)
           \/ UNCHANGED vars
<1>1. ASSUME NEW p \in Procs,
             \/ StartRun(p) \/ Poll(p) \/ CancelRun(p) \/ \E c \in calls : ExecutorReturns(p, c)
             \/ Proceed(p) \/ CreateTasksFails(p) \/ Abort(p)
      PROVE  StepOf(p)
  BY <1>1 DEF StepOf, PlainStep, CallStep, Proceed
<1>2. QED
  BY <1>1 DEF Next

\* What each of the other rows and sets is written by.
LEMMA WritesOnly ==
    ASSUME NEW p \in Procs, StepOf(p)
    PROVE  /\ UNCHANGED <<overdue, interrupted>>
           /\ ~CasTask(p) /\ ~InsertTask(p) => status' = status
           /\ ~CasRun(p) /\ ~StartRun(p) => runStatus' = runStatus
           /\ ~InsertDep(p) => depRows' = depRows
BY DEF StepOf, PlainStep, CallStep, InsertTask, InsertDep, PlanStored, FinishStart, GetRun,
   ListForTimeout, ListAttempts, TimeOut, ListForMark, ListDeps, Mark, Recompute, ReadRun, CasRun,
   CasTask, ListForDispatch, Dispatch, Increment, Reread, CreateAttempt, AttemptExists,
   UpdateCompleted, CancelList, CancelTask, StartRun, Poll, ExecutorReturns, CreateTasksFails,
   CancelRun, Abort, rows, env

\* A step of p changes no other process, and p's arguments are right after it.
LEMMA ArgumentsStep ==
    ASSUME TypeInv, NEW p \in Procs, StepOf(p), \A q \in Procs : Arguments(loc[q])
    PROVE  OthersKept(p) /\ \A q \in Procs : Arguments(loc'[q])
<1>1. OthersKept(p)
  <2>1. CASE PlainStep(p)
    BY <2>1, PlainShape
  <2>2. CASE InsertDep(p)
    BY <2>2, DropShape DEF OthersKept
  <2>3. CASE ListAttempts(p)
    BY <2>3, ListShape
  <2>4. CASE TimeOut(p) \/ \E c \in calls : ExecutorReturns(p, c)
    BY <2>4, CompleteShape
  <2>5. CASE Increment(p) \/ Reread(p) \/ CreateAttempt(p)
    BY <2>5, ClaimShape
  <2>6. QED
    BY <2>1, <2>2, <2>3, <2>4, <2>5 DEF StepOf
<1>2. CASE PlainStep(p)
  <2>1. ASSUME FinishStart(p) \/ Abort(p)
        PROVE  Arguments(loc'[p])
    <3>1. loc'[p] = Idle
      BY <2>1, DropShape
    <3>2. QED
      BY <3>1, FreshArguments
  <2>2. Arguments(loc'[p])
    BY <1>2, <2>1, StartKeepsArguments, RunKeepsArguments, ListKeepsArguments,
       AttemptKeepsArguments, CallKeepsArguments DEF PlainStep
  <2>3. QED
    BY <1>1, <2>2 DEF OthersKept
<1>3. CASE InsertDep(p)
  <2>1. loc' = loc
    BY <1>3 DEF InsertDep
  <2>2. QED
    BY <1>1, <2>1
<1>4. CASE ~PlainStep(p) /\ ~InsertDep(p)
  <2>1. Arguments(loc'[p])
    BY <1>4, ListKeepsArguments, AttemptKeepsArguments DEF StepOf
  <2>2. QED
    BY <1>1, <2>1 DEF OthersKept
<1>5. QED
  BY <1>2, <1>3, <1>4
-----------------------------------------------------------------------------
(***************************************************************************)
(* The attempts                                                            *)
(***************************************************************************)
\* AttemptsNumbered for one process.
Numbered(l) ==
    /\ \A t \in Tasks : l.latest[t] # 0 => attempt[t][l.latest[t]] # "absent"
    /\ l.pc = "reread" => count[l.task] # 0
    /\ l.pc = "createAttempt" => l.no <= count[l.task]

\* No row of the attempts is deleted and no number is given back.
Grown == \A t \in Tasks :
    /\ count[t] <= count'[t]
    /\ \A n \in AttemptNos : attempt[t][n] # "absent" => attempt'[t][n] # "absent"

\* What a process has listed, and the number it is about to use, stay good.
LEMMA NumberedStable ==
    ASSUME TypeInv, TypeInv', Grown, NEW l \in Local, LocalsMeaningful(l), Numbered(l)
    PROVE  Numbered(l)'
<1>1. /\ count \in [Tasks -> 0 .. MaxAttempts] /\ count' \in [Tasks -> 0 .. MaxAttempts]
      /\ MaxAttempts \in Nat
  BY BoundsAssumption DEF TypeInv, TypeOK
<1>2. l.no \in Nat /\ \A t \in Tasks : l.latest[t] \in 0 .. MaxAttempts
  BY <1>1 DEF Local
<1>3. l.pc \in {"reread", "createAttempt"} => l.task \in Tasks
  BY DEF LocalsMeaningful, UpdatingTask
<1>4. ASSUME NEW t \in Tasks, l.latest[t] # 0
      PROVE  attempt'[t][l.latest[t]] # "absent"
  BY <1>1, <1>2, <1>4 DEF Grown, Numbered, AttemptNos
<1>5. /\ l.pc = "reread" => count'[l.task] # 0
      /\ l.pc = "createAttempt" => l.no <= count'[l.task]
  BY <1>1, <1>2, <1>3 DEF Grown, Numbered
<1>6. QED
  BY <1>4, <1>5 DEF Numbered

\* The rows of the attempts, as CallInv has them.
RowsNumbered ==
    /\ \A t \in Tasks, n \in AttemptNos : attempt[t][n] # "absent" => n <= count[t]
    /\ \A c \in calls : attempt[c[1]][c[2]] # "absent"

\* The attempts are numbered by the count, process by process.
LEMMA NumberedParts ==
    AttemptsNumbered <=> RowsNumbered /\ \A p \in Procs : Numbered(loc[p])
BY DEF AttemptsNumbered, RowsNumbered, Numbered

\* Writing an attempt that exists, or the one next to be inserted, keeps the rows
\* numbered.
LEMMA WriteNumbered ==
    ASSUME TypeInv, RowsNumbered, NEW t \in Tasks, NEW n \in AttemptNos, NEW o,
           o # "absent", n <= count[t],
           attempt' = [attempt EXCEPT ![t][n] = o], count' = count,
           calls' \subseteq calls \cup {<<t, n>>}
    PROVE  Grown /\ RowsNumbered' /\ attempt'[t][n] = o
<1>1. /\ attempt \in [Tasks -> [AttemptNos -> AttemptStatus]] /\ calls \subseteq Tasks \X AttemptNos
      /\ count \in [Tasks -> 0 .. MaxAttempts] /\ MaxAttempts \in Nat
  BY BoundsAssumption DEF TypeInv, TypeOK
<1>2. \A u \in Tasks, k \in AttemptNos :
        attempt'[u][k] = IF u = t /\ k = n THEN o ELSE attempt[u][k]
  BY <1>1
<1>3. Grown
  BY <1>1, <1>2 DEF Grown
<1>4. \A u \in Tasks, k \in AttemptNos : attempt'[u][k] # "absent" => k <= count'[u]
  BY <1>2 DEF RowsNumbered
<1>5. ASSUME NEW c \in calls'
      PROVE  attempt'[c[1]][c[2]] # "absent"
  <2>1. c[1] \in Tasks /\ c[2] \in AttemptNos
    BY <1>1
  <2>2. c \in calls => attempt[c[1]][c[2]] # "absent"
    BY DEF RowsNumbered
  <2>3. c \notin calls => c[1] = t /\ c[2] = n
    BY <1>5
  <2>4. QED
    BY <1>2, <2>1, <2>2, <2>3
<1>6. QED
  BY <1>2, <1>3, <1>4, <1>5 DEF RowsNumbered

\* A goroutine that is not inside the service has nothing to number.
LEMMA UnlistedNumbered ==
    ASSUME NEW l \in Local, NEW m, Numbered(l),
           m.latest = l.latest \/ m.latest = Idle.latest,
           m.pc \notin {"reread", "createAttempt"}
    PROVE  Numbered(m)
<1>1. \A t \in Tasks : Idle.latest[t] = 0
  BY DEF Idle
<1>2. QED
  BY <1>1 DEF Numbered

\* What a process of the next state has listed, whoever took the step.
LEMMA NumberedOthers ==
    ASSUME TypeInv, TypeInv', Grown, NEW p \in Procs, OthersKept(p),
           \A q \in Procs : Numbered(loc[q]), Numbered(loc[p])', RowsNumbered'
    PROVE  AttemptsNumbered'
<1>1. ASSUME NEW q \in Procs \ {p}
      PROVE  Numbered(loc[q])'
  <2>1. loc[q] \in Local /\ LocalsMeaningful(loc[q]) /\ loc'[q] = loc[q]
    BY DEF TypeInv, TypeOK, OthersKept
  <2>2. ASSUME NEW l \in Local, l = loc[q]
        PROVE  Numbered(l)'
    BY <2>1, <2>2, NumberedStable
  <2>3. QED
    BY <2>1, <2>2
<1>2. (\A q \in Procs : Numbered(loc[q])') /\ RowsNumbered' => AttemptsNumbered'
  BY DEF AttemptsNumbered, RowsNumbered, Numbered
<1>3. QED
  BY <1>1, <1>2

\* Steps that write neither an attempt nor a count.
LEMMA QuietNumbered ==
    ASSUME TypeInv, TypeInv', AttemptsNumbered, NEW p \in Procs, Arguments(loc[p]),
           PlainStep(p) \/ InsertDep(p) \/ ListAttempts(p) \/ Reread(p)
    PROVE  AttemptsNumbered'
<1> DEFINE l == loc[p]
           m == loc'[p]
<1>0. /\ l \in Local /\ m \in Local /\ LocalsMeaningful(l) /\ LocalsMeaningful(m)
      /\ count \in [Tasks -> 0 .. MaxAttempts] /\ MaxAttempts \in Nat
  BY BoundsAssumption DEF TypeInv, TypeOK
<1>1. RowsNumbered /\ \A q \in Procs : Numbered(loc[q])
  BY NumberedParts
<1>2. OthersKept(p) /\ UNCHANGED <<count, attempt, calls>>
  <2>1. CASE PlainStep(p)
    BY <2>1, PlainShape
  <2>2. CASE InsertDep(p)
    BY <2>2, DropShape DEF OthersKept, env
  <2>3. CASE ListAttempts(p)
    BY <2>3, ListShape DEF rows, env
  <2>4. CASE Reread(p)
    BY <2>4, ClaimShape DEF rows, env
  <2>5. QED
    BY <2>1, <2>2, <2>3, <2>4
<1>3. Numbered(m)
  <2>1. CASE PlainStep(p)
    BY <1>0, <1>1, <2>1, PlainShape, UnlistedNumbered
  <2>2. CASE InsertDep(p)
    BY <1>1, <2>2, DropShape
  <2>3. CASE ListAttempts(p)
    <3>1. /\ m.pc = "timeouts"
          /\ \A t \in Tasks : m.latest[t] = 0 \/ m.latest[t] \in RunningAttempts(t)
      BY <2>3, ListShape
    <3>2. QED
      BY <3>1 DEF Numbered, RunningAttempts
  <2>4. CASE Reread(p)
    <3>1. /\ l.pc = "reread" /\ Frame(m, l) /\ m.pc = "createAttempt" /\ m.task = l.task
          /\ m.no = IF count[l.task] = 0 THEN 1 ELSE count[l.task]
      BY <2>4, ClaimShape
    <3>2. l.task \in Tasks
      BY <1>0, <3>1 DEF LocalsMeaningful, UpdatingTask
    <3>3. m.no <= count[m.task]
      BY <1>0, <1>1, <3>1, <3>2 DEF Numbered
    <3>4. QED
      BY <1>1, <3>1, <3>3 DEF Numbered, Frame
  <2>5. QED
    BY <2>1, <2>2, <2>3, <2>4
<1>4. Grown /\ RowsNumbered' /\ Numbered(loc[p])'
  <2>1. Grown
    BY <1>0, <1>2 DEF Grown
  <2>2. RowsNumbered'
    BY <1>1, <1>2 DEF RowsNumbered
  <2>3. Numbered(loc[p])'
    BY <1>2, <1>3 DEF Numbered
  <2>4. QED
    BY <2>1, <2>2, <2>3
<1>5. QED
  BY <1>1, <1>2, <1>4, NumberedOthers

\* Steps that write the row of an attempt.
LEMMA WriteKeepsNumbered ==
    ASSUME TypeInv, TypeInv', AttemptsNumbered, NEW p \in Procs,
           TimeOut(p) \/ CreateAttempt(p) \/ \E c \in calls : ExecutorReturns(p, c)
    PROVE  AttemptsNumbered' /\ Grown
<1> DEFINE l == loc[p]
           m == loc'[p]
           Written ==
             \E t \in Tasks, n \in AttemptNos, o \in {"running", "succeeded", "failed", "timed_out"} :
                /\ n <= count[t] /\ attempt' = [attempt EXCEPT ![t][n] = o]
                /\ calls' \subseteq calls \cup {<<t, n>>}
<1>0. /\ l \in Local /\ m \in Local /\ LocalsMeaningful(l)
      /\ count \in [Tasks -> 0 .. MaxAttempts] /\ MaxAttempts \in Nat
      /\ calls \subseteq Tasks \X AttemptNos /\ interrupted \cup overdue \subseteq Tasks \X AttemptNos
  BY BoundsAssumption DEF TypeInv, TypeOK
<1>1. RowsNumbered /\ \A q \in Procs : Numbered(loc[q])
  BY NumberedParts
<1>2. /\ OthersKept(p) /\ m.pc \notin {"reread", "createAttempt"} /\ count' = count
      /\ m.latest = l.latest \/ m.latest = Idle.latest
      /\ Written
  <2>1. CASE TimeOut(p)
    <3>1. /\ m.task \in l.todo /\ m.no = l.latest[m.task] /\ Due(m.task, m.no)
          /\ CompleteAttempt(m.task, m.no, "timed_out") /\ m.latest = l.latest
          /\ m.pc = "readTask" /\ OthersKept(p) /\ UNCHANGED <<count, env>>
      BY <2>1, CompleteShape
    <3>2. m.task \in Tasks /\ m.no \in AttemptNos
      BY <1>0, <3>1 DEF Due
    <3>3. attempt[m.task][m.no] # "absent"
      BY <1>1, <3>1, <3>2 DEF Numbered, AttemptNos
    <3>4. m.no <= count[m.task]
      BY <1>1, <3>2, <3>3 DEF RowsNumbered
    <3>5. QED
      BY <3>1, <3>2, <3>4 DEF CompleteAttempt, env
  <2>2. ASSUME NEW c \in calls, ExecutorReturns(p, c)
        PROVE  /\ OthersKept(p) /\ m.pc \notin {"reread", "createAttempt"} /\ count' = count
               /\ m.latest = l.latest \/ m.latest = Idle.latest
               /\ Written
    <3>1. /\ OthersKept(p) /\ calls' = calls \ {c} /\ count' = count
          /\ m.pc = "readTask" /\ m.latest = Idle.latest
          /\ \E o \in {"succeeded", "failed", "timed_out"} : CompleteAttempt(c[1], c[2], o)
      BY <2>2, CompleteShape
    <3>2. c[1] \in Tasks /\ c[2] \in AttemptNos
      BY <1>0
    <3>3. c[2] <= count[c[1]]
      BY <1>1, <3>2 DEF RowsNumbered
    <3>4. QED
      BY <3>1, <3>2, <3>3 DEF CompleteAttempt
  <2>3. CASE CreateAttempt(p)
    <3>1. /\ l.pc = "createAttempt" /\ OthersKept(p) /\ count' = count
          /\ attempt' = [attempt EXCEPT ![l.task][l.no] = "running"]
          /\ calls' = calls \cup {<<l.task, l.no>>}
          /\ m.pc \in {"idle", "dispatch"} /\ m.latest \in {l.latest, Idle.latest}
      BY <2>3, ClaimShape, IdleShape
    <3>2. l.task \in Tasks /\ l.no \in AttemptNos /\ l.no <= count[l.task]
      BY <1>0, <1>1, <3>1 DEF LocalsMeaningful, UpdatingTask, Local, AttemptNos, Numbered
    <3>3. QED
      BY <3>1, <3>2
  <2>4. QED
    BY <2>1, <2>2, <2>3
<1>3. PICK t \in Tasks, n \in AttemptNos, o \in {"running", "succeeded", "failed", "timed_out"} :
            /\ n <= count[t] /\ attempt' = [attempt EXCEPT ![t][n] = o]
            /\ calls' \subseteq calls \cup {<<t, n>>}
  BY <1>2
<1>4. Grown /\ RowsNumbered'
  BY <1>1, <1>2, <1>3, WriteNumbered
<1>5. Numbered(loc[p])'
  <2>1. Numbered(m)
    BY <1>0, <1>1, <1>2, UnlistedNumbered
  <2>2. ASSUME NEW u \in Tasks, m.latest[u] # 0
        PROVE  attempt'[u][m.latest[u]] # "absent"
    BY <1>0, <1>4, <2>1, <2>2 DEF Numbered, Grown, Local, AttemptNos
  <2>3. QED
    BY <1>2, <2>2 DEF Numbered
<1>6. QED
  BY <1>1, <1>2, <1>4, <1>5, NumberedOthers

\* IncrementTaskAttempt gives out a number no attempt has yet.
LEMMA IncrementNumbered ==
    ASSUME TypeInv, TypeInv', AttemptsNumbered, NEW p \in Procs, Increment(p)
    PROVE  AttemptsNumbered' /\ Grown
<1> DEFINE l == loc[p]
           m == loc'[p]
<1>0. /\ l \in Local /\ m \in Local /\ l.task \in Tasks
      /\ count \in [Tasks -> 0 .. MaxAttempts] /\ MaxAttempts \in Nat
  BY BoundsAssumption DEF TypeInv, TypeOK, LocalsMeaningful, UpdatingTask, Increment
<1>1. RowsNumbered /\ \A q \in Procs : Numbered(loc[q])
  BY NumberedParts
<1>2. /\ OthersKept(p) /\ attempt' = attempt /\ calls' = calls
      /\ count' = [count EXCEPT ![l.task] = @ + 1]
      /\ m.pc = "reread" /\ m.latest = l.latest /\ m.task = l.task
  BY ClaimShape DEF Frame, SameCall, env
<1>3. /\ \A t \in Tasks : count'[t] = IF t = l.task THEN count[t] + 1 ELSE count[t]
      /\ \A t \in Tasks : count[t] <= count'[t]
  BY <1>0, <1>2
<1>4. Grown
  BY <1>2, <1>3 DEF Grown
<1>5. ASSUME NEW t \in Tasks, NEW n \in AttemptNos, attempt'[t][n] # "absent"
      PROVE  n <= count'[t]
  <2>1. n <= count[t] /\ n \in Int /\ count[t] \in Int /\ count'[t] \in Int
    BY <1>0, <1>1, <1>2, <1>3, <1>5 DEF RowsNumbered, AttemptNos
  <2>2. QED
    BY <1>3, <2>1
<1>6. RowsNumbered'
  BY <1>1, <1>2, <1>5 DEF RowsNumbered
<1>7. Numbered(loc[p])'
  BY <1>0, <1>1, <1>2, <1>3 DEF Numbered
<1>8. QED
  BY <1>1, <1>2, <1>4, <1>6, <1>7, NumberedOthers

\* A step uses the faults up, one at a time.
LEMMA FaultsFall ==
    ASSUME TypeInv, [Next]_vars
    PROVE  /\ faults'.crash <= faults.crash /\ faults'.abort <= faults.abort
           /\ faults'.cancel <= faults.cancel
           /\ Crash => faults'.crash < faults.crash
           /\ \A p \in Procs : /\ Abort(p) => faults'.abort < faults.abort
                               /\ CancelRun(p) => faults'.cancel < faults.cancel
<1>0. faults \in [crash : Nat, abort : Nat, insert : Nat, overdue : Nat, cancel : Nat]
  BY DEF TypeInv, TypeOK
<1>1. ASSUME NEW p \in Procs, Proceed(p) \/ StartRun(p) \/ Poll(p) \/ \E c \in calls : ExecutorReturns(p, c)
      PROVE  faults' = faults
  BY <1>1 DEF Proceed, InsertTask, InsertDep, PlanStored, FinishStart, GetRun, ListForTimeout,
     ListAttempts, TimeOut, ListForMark, ListDeps, Mark, Recompute, ReadRun, CasRun, CasTask,
     ListForDispatch, Dispatch, Increment, Reread, CreateAttempt, AttemptExists, UpdateCompleted,
     CancelList, CancelTask, StartRun, Poll, ExecutorReturns, env
<1>2. ASSUME NEW p \in Procs
      PROVE  /\ CreateTasksFails(p) => faults' = [faults EXCEPT !.insert = @ - 1]
             /\ CancelRun(p) => faults' = [faults EXCEPT !.cancel = @ - 1]
             /\ Abort(p) => faults' = [faults EXCEPT !.abort = @ - 1]
  BY DEF CreateTasksFails, CancelRun, Abort
<1>3. /\ Crash => faults' = [faults EXCEPT !.crash = @ - 1]
      /\ (\E c \in Tasks \X AttemptNos : Elapse(c)) => faults' = [faults EXCEPT !.overdue = @ - 1]
  BY DEF Crash, Elapse
<1>4. \/ faults' = faults
      \/ faults' = [faults EXCEPT !.insert = @ - 1]
      \/ faults' = [faults EXCEPT !.cancel = @ - 1]
      \/ faults' = [faults EXCEPT !.abort = @ - 1]
      \/ faults' = [faults EXCEPT !.crash = @ - 1]
      \/ faults' = [faults EXCEPT !.overdue = @ - 1]
  BY <1>1, <1>2, <1>3 DEF Next, vars, env
<1>5. QED
  BY <1>0, <1>2, <1>3, <1>4

\* ... so the bounds hold, and whoever was undisturbed after it was so before.
LEMMA FaultsStep ==
    ASSUME TypeInv, FaultsCounted, [Next]_vars
    PROVE  /\ FaultsCounted'
           /\ Undisturbed' => Undisturbed /\ ~Crash /\ \A p \in Procs : ~Abort(p)
<1>1. /\ faults \in [crash : Nat, abort : Nat, insert : Nat, overdue : Nat, cancel : Nat]
      /\ TypeInv'
  BY TypeStep DEF TypeInv, TypeOK
<1>2. faults' \in [crash : Nat, abort : Nat, insert : Nat, overdue : Nat, cancel : Nat]
  BY <1>1 DEF TypeInv, TypeOK
<1>3. QED
  BY <1>1, <1>2, FaultsFall, BoundsAssumption DEF FaultsCounted, Undisturbed

\* Nothing has been called, listed or inserted at the start.
LEMMA CallInit == Init \/ PlannedInit => CallInv
<1> SUFFICES ASSUME Init \/ PlannedInit
             PROVE  CallInv
  OBVIOUS
<1>1. TypeInv
  BY TypeOfInit
<1>2. FaultsCounted
  BY BoundsAssumption DEF Init, PlannedInit, NoFaults, FaultsCounted
<1>3. /\ \A t \in Tasks, n \in AttemptNos : attempt[t][n] = "absent"
      /\ calls = {}
  BY DEF Init, PlannedInit
<1>4. ASSUME NEW p \in Procs
      PROVE  Arguments(loc[p]) /\ Numbered(loc[p])
  <2> DEFINE first == [Idle EXCEPT !.pc = "readRun", !.op = "start", !.http = TRUE,
                                   !.run = "planning", !.to = "dispatching"]
  <2>1. loc[p] = Idle \/ loc[p] = first
    BY DEF Init, PlannedInit
  <2>2. first.pc = "readRun" /\ first.op = "start" /\ first.to = "dispatching"
        /\ first.site = "none" /\ first.latest = Idle.latest
    BY DEF Idle
  <2>3. Arguments(first) /\ Arguments(Idle)
    BY <2>2, FreshArguments, OutsideArguments DEF UpdatingTask
  <2>4. \A t \in Tasks : Idle.latest[t] = 0
    BY DEF Idle
  <2> HIDE DEF first
  <2>5. Numbered(first) /\ Numbered(Idle)
    BY <2>2, <2>4, IdleShape DEF Numbered
  <2>6. QED
    BY <2>1, <2>3, <2>5
<1>5. QED
  BY <1>1, <1>2, <1>3, <1>4, NumberedParts DEF CallInv, RowsNumbered

\* Every step keeps the attempts numbered and gives up none.
LEMMA NumberedStep ==
    ASSUME CallInv, TypeInv', [Next]_vars
    PROVE  AttemptsNumbered'
<1>0. TypeInv /\ AttemptsNumbered /\ \A p \in Procs : Arguments(loc[p])
  BY DEF CallInv
<1>1. ASSUME NEW p \in Procs, StepOf(p)
      PROVE  AttemptsNumbered'
  BY <1>0, <1>1, QuietNumbered, WriteKeepsNumbered, IncrementNumbered DEF StepOf
<1>2. CASE Crash
  <2>1. \A p \in Procs : loc'[p] = Idle
    BY <1>2 DEF Crash
  <2>2. count' = count /\ attempt' = attempt /\ calls' = {}
    BY <1>2 DEF Crash, rows
  <2>3. \A t \in Tasks : Idle.latest[t] = 0
    BY DEF Idle
  <2>4. QED
    BY <1>0, <2>1, <2>2, <2>3, IdleShape DEF AttemptsNumbered
<1>3. CASE (\E c \in Tasks \X AttemptNos : Elapse(c)) \/ UNCHANGED vars
  <2>1. UNCHANGED <<count, attempt, calls, loc>>
    BY <1>3 DEF Elapse, vars, rows, env
  <2>2. QED
    BY <1>0, <2>1 DEF AttemptsNumbered
<1>4. QED
  BY <1>1, <1>2, <1>3, StepCases

\* CallInv is inductive.
LEMMA CallInvStep == CallInv /\ [Next]_vars => CallInv'
<1> SUFFICES ASSUME CallInv, [Next]_vars
             PROVE  CallInv'
  OBVIOUS
<1>1. TypeInv' /\ FaultsCounted'
  BY TypeStep, FaultsStep DEF CallInv
<1>2. AttemptsNumbered'
  BY <1>1, NumberedStep
<1>3. \A p \in Procs : Arguments(loc'[p])
  <2>1. ASSUME NEW p \in Procs, StepOf(p)
        PROVE  \A q \in Procs : Arguments(loc'[q])
    BY <2>1, ArgumentsStep DEF CallInv
  <2>2. CASE Crash
    BY <2>2, FreshArguments DEF Crash
  <2>3. CASE (\E c \in Tasks \X AttemptNos : Elapse(c)) \/ UNCHANGED vars
    <3>1. loc' = loc
      BY <2>3 DEF Elapse, vars
    <3>2. QED
      BY <3>1 DEF CallInv
  <2>4. QED
    BY <2>1, <2>2, <2>3, StepCases
<1>4. QED
  BY <1>1, <1>2, <1>3 DEF CallInv, Arguments

\* UpdateTaskStatus and UpdateRunStatus are always called with what their caller
\* means, and every attempt has a number its task has counted, although
\* IncrementTaskAttempt and CreateAttempt are two statements and any other
\* goroutine, a restart or an aborted request can come between them.
THEOREM CallInvariant == (Spec => []CallInv) /\ (PlannedSpec => []CallInv)
<1>1. Init \/ PlannedInit => CallInv
  BY CallInit
<1>2. QED
  BY <1>1, CallInvStep, PTL DEF Spec, PlannedSpec
=============================================================================
