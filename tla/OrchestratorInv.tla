--------------------------- MODULE OrchestratorInv ---------------------------
(***************************************************************************)
(* The inductive invariants behind the theorems of OrchestratorProofs:     *)
(* what each process may rely on at each of its control points, although   *)
(* every other process can run between any two of its statements.          *)
(***************************************************************************)
EXTENDS Orchestrator

\* Control points inside, or right after, a call of UpdateTaskStatus.
UpdatingTask == {"readTask", "casTask", "increment", "reread", "createAttempt"}

\* The arguments a process carries from one statement to the next.
LocalsMeaningful(l) ==
    /\ l.pc \in UpdatingTask => l.task \in Tasks
    /\ l.pc = "casTask" => l.old \in TaskStatus /\ CanTransitionTask(l.old, l.to)
    /\ l.pc = "casRun" => l.old \in RunStatus /\ CanTransitionRun(l.old, l.to)
    /\ l.pc = "createAttempt" => l.no # 0

\* The variables have their types, and every process's arguments do.
TypeInv == TypeOK /\ \A p \in Procs : LocalsMeaningful(loc[p])

ParentsDone(t, stat) == \A u \in Parents(t) : stat[u] = "succeeded"

\* Which control points belong to CancelRun and to an UpdateTaskStatus, and who
\* called that.
LocalsConsistent(l) ==
    /\ l.pc # "createTasks"
    /\ l.pc \notin UpdatingTask => l.site = "none" /\ l.task = NoTask
    /\ l.pc \in {"increment", "reread", "createAttempt"} => l.site = "dispatch"
    /\ l.pc \in {"cancelList", "cancel"} \/ l.site = "cancel" => l.op = "cancel"
    /\ l.op = "cancel" =>
            /\ l.pc \in {"cancelList", "cancel", "readTask", "casTask", "readRun", "casRun"}
            /\ l.site \in {"none", "cancel"}
            /\ l.pc \in {"readTask", "casTask"} => l.to = "cancelled"
    /\ l.block \subseteq l.todo
    /\ l.pc # "mark" /\ l.site # "mark" => l.block = {}

\* What a process of a planned run relies on and no other process can undo.
\* Succeeded is the one status that is never left, so a list that shows it
\* cannot be out of date, and what was concluded from it stays true.
LocalsSound(l, stat) ==
    /\ \A t \in Tasks : l.seen[t] = "succeeded" => stat[t] = "succeeded"
    /\ \A t \in l.block : Parents(t) # {}
    /\ l.op # "cancel" => \A t \in l.todo \ l.block : ParentsDone(t, stat)
    /\ l.op # "cancel" /\ l.task # NoTask =>
            ParentsDone(l.task, stat) \/ (l.site = "mark" /\ l.to = "blocked")
    /\ l.task # NoTask => /\ l.to # "pending"
                          /\ l.to = "blocked" => Parents(l.task) # {}
    /\ l.pc \in {"readRun", "casRun"} /\ l.to = "completed" =>
            \A t \in Tasks : stat[t] = "succeeded"

\* The whole plan is stored, and its dependencies hold in every row.
RowsSound ==
    /\ runStatus # "absent"
    /\ \A t \in Tasks : status[t] # "absent"
    /\ depRows = Deps
    /\ \A t \in Tasks : status[t] \in {"ready", "running", "succeeded", "failed"} =>
            ParentsDone(t, status)
    /\ \A t \in Tasks, n \in AttemptNos : attempt[t][n] # "absent" => ParentsDone(t, status)
    /\ \A c \in calls : ParentsDone(c[1], status)
    /\ CompletedRunIsDone

\* The dependencies of a planned run hold in every row of the database and in
\* the local variables of every process: the invariant that is inductive.
DagInv ==
    /\ TypeInv
    /\ RowsSound
    /\ \A p \in Procs : LocalsConsistent(loc[p]) /\ LocalsSound(loc[p], status)
-----------------------------------------------------------------------------
(***************************************************************************)
(* What UpdateTaskStatus and UpdateRunStatus are called with, and how the  *)
(* attempts are numbered: true of any processes and through every fault.   *)
(***************************************************************************)
Claiming == {"increment", "reread", "createAttempt"}

\* Who calls UpdateTaskStatus, with what, and who calls UpdateRunStatus.
Arguments(l) ==
    /\ l.op = "none" => l.pc = "idle"
    /\ l.op = "exec" => l.site \in {"complete", "retry"}
    /\ l.pc \in UpdatingTask => l.site # "none"
    /\ l.site = "mark" => l.pc = "casTask" /\ l.to \in {"ready", "blocked"}
    /\ l.site = "dispatch" => l.pc \in Claiming \cup {"casTask"} /\ l.to = "running"
    /\ l.site = "complete" => l.pc \in {"readTask", "casTask"} /\ l.to \in {"succeeded", "failed"}
    /\ l.site = "retry" => l.pc \in {"readTask", "casTask"} /\ l.to = "ready" /\ l.retry
    /\ l.site = "cancel" => l.pc = "casTask" /\ l.to = "cancelled" /\ l.op = "cancel"
    /\ l.pc \in {"cancelList", "cancel"} => l.op = "cancel"
    /\ l.op = "cancel" => /\ l.site \in {"none", "cancel"}
                          /\ l.pc \in {"cancelList", "cancel", "casTask", "readRun", "casRun"}
    /\ l.pc \in {"readRun", "casRun"} =>
            /\ l.op = "start"  => l.to \in {"dispatching", "failed"}
            /\ l.op = "cancel" => l.to = "cancelled"

FaultsCounted ==
    faults.crash <= MaxCrashes /\ faults.abort <= MaxAborts /\ faults.cancel <= MaxCancels

\* An attempt has a number its task has counted, and what a process has listed,
\* or is about to insert, has one too.
AttemptsNumbered ==
    /\ \A t \in Tasks, n \in AttemptNos : attempt[t][n] # "absent" => n <= count[t]
    /\ \A c \in calls : attempt[c[1]][c[2]] # "absent"
    /\ \A p \in Procs, t \in Tasks :
            loc[p].latest[t] # 0 => attempt[t][loc[p].latest[t]] # "absent"
    /\ \A p \in Procs : loc[p].pc = "reread" => count[loc[p].task] # 0
    /\ \A p \in Procs : loc[p].pc = "createAttempt" => loc[p].no <= count[loc[p].task]

CallInv ==
    /\ TypeInv
    /\ FaultsCounted
    /\ AttemptsNumbered
    /\ \A p \in Procs : Arguments(loc[p])
-----------------------------------------------------------------------------
(***************************************************************************)
(* Without restarts and aborted requests, no running task is left alone.   *)
(***************************************************************************)
Undisturbed == faults.crash = MaxCrashes /\ faults.abort = MaxAborts

\* A process with local variables l has yet to insert the attempt of t, or to
\* record the end of the one it has completed.
InHand(l, t) ==
    /\ l.task = t
    /\ \/ l.pc = "increment"
       \/ l.pc = "reread" /\ attempt[t][count[t]] = "absent"
       \/ l.pc = "createAttempt" /\ attempt[t][l.no] = "absent"
       \/ l.site = "complete" /\ l.pc = "readTask"
       \/ l.site = "complete" /\ l.pc = "casTask" /\ l.old = "running"

TasksOwned ==
    \A t \in Running(status) :
        RunningAttempts(t) # {} \/ \E p \in Procs : InHand(loc[p], t)

OwnerInv == CallInv /\ (Undisturbed => TasksOwned)
-----------------------------------------------------------------------------
(***************************************************************************)
(* As long as no attempt reaches its timeout, one that has succeeded keeps *)
(* its output: failTimedOutTasks ends only attempts nobody works on.  A    *)
(* success is recorded, and logged, only after it.                         *)
(***************************************************************************)
OutputsSound ==
    /\ \A c \in calls : attempt[c[1]][c[2]] = "running" /\ c \notin interrupted
    /\ \A c \in interrupted : attempt[c[1]][c[2]] \in {"running", "timed_out"}
    /\ \A p \in Procs : LET l == loc[p] IN
            l.pc \in {"readTask", "casTask"} /\ l.to = "succeeded" =>
                l.no \in AttemptNos /\ attempt[l.task][l.no] = "succeeded"
    /\ SucceededTaskHasOutput
    /\ SuccessEventsBacked

OutputInv == TypeInv /\ (overdue = {} => OutputsSound)
-----------------------------------------------------------------------------
(***************************************************************************)
(* StartRun inserts the plan row by row, and others may see the half of it.*)
(***************************************************************************)
PlanWhole == depRows = Deps /\ \A t \in Tasks : status[t] # "absent"

\* StartRun has gone past CreateTasks without an error.
Publishing(l) ==
    /\ l.op = "start"
    /\ l.pc \notin {"idle", "createTasks"}
    /\ l.pc \in {"readRun", "casRun"} => l.to = "dispatching"

\* A StartRun that goes on has stored its whole plan, in every interleaving and
\* through every fault (another process may move the run on before that).
PublishedPlanIsWhole == \A p \in Procs : Publishing(loc[p]) => PlanWhole

PlanInv ==
    /\ PublishedPlanIsWhole
    /\ \A p \in Procs : loc[p].pc = "createTasks" =>
            \A t \in Tasks \ loc[p].todo : status[t] # "absent"
=============================================================================
