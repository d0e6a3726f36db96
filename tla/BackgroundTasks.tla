--------------------------- MODULE BackgroundTasks ---------------------------
(***************************************************************************)
(* The background tasks of one session (agent/background/manager.go,       *)
(* types.go): commands an agent left running in its container, each with   *)
(* the goroutine that waits for its result (runAdopt, completeTask) and a  *)
(* stall watchdog, killed by a tool call at any time, and the list of      *)
(* notifications they fill.                                                *)
(*                                                                         *)
(* A step is one critical section: the code takes the task's lock, or the  *)
(* manager's, several times in one function, and anything may happen in    *)
(* between.  The list of notifications is a set: every reader takes all of *)
(* the session's.  Output, UI events and the age a task must have before   *)
(* Cleanup drops it are left out; so is Spawn, whose goroutine ends like   *)
(* runAdopt's and which the server never calls.                            *)
(***************************************************************************)
EXTENDS Integers, FiniteSets

CONSTANT Tasks    \* the tasks the session's agent starts, in any order

VARIABLES
    status,           \* Task.Status, "new" before SpawnAdopt
    listed,           \* Manager.tasks
    runner,           \* where the goroutine of runAdopt stands
    exit,             \* the AdoptResult in resultCh, "none" while the command runs
    verdict,          \* how runAdopt found that the command ended
    cancel,           \* Task.cancel: not stored yet, stored, called
    killing,          \* tasks whose Kill has still to call Cancel
    notified,         \* Task.notified
    dog,              \* where the task's stallWatchdog stands
    stalledNotified,  \* Task.stalledNotified
    notes,            \* Manager.notifications
    woken             \* goroutines started on wakeFunc that have not looked yet

bgVars == <<status, listed, runner, exit, verdict, cancel, killing, notified,
            dog, stalledNotified, notes, woken>>
-----------------------------------------------------------------------------
Ends == {"completed", "failed"}
TaskStatus == {"new", "running", "killed"} \cup Ends

\* A notification; a stalled task is still running.
Note == [task : Tasks, status : Ends \cup {"stalled"}]
EndNote(t) == [task |-> t, status |-> status[t]]
StallNote(t) == [task |-> t, status |-> "stalled"]

BgTypeOK ==
    /\ status \in [Tasks -> TaskStatus]
    /\ listed \subseteq Tasks
    /\ runner \in [Tasks -> {"none", "starting", "waiting", "ended", "settled",
                             "reporting", "done"}]
    /\ exit \in [Tasks -> Ends \cup {"none"}]
    /\ verdict \in [Tasks -> Ends \cup {"none"}]
    /\ cancel \in [Tasks -> {"unset", "armed", "called"}]
    /\ killing \subseteq Tasks
    /\ notified \subseteq Tasks
    /\ dog \in [Tasks -> {"none", "watching", "suspicious", "marked", "done"}]
    /\ stalledNotified \subseteq Tasks
    /\ notes \subseteq Note
    /\ woken \in Nat

BgInit ==
    /\ status = [t \in Tasks |-> "new"]
    /\ listed = {}
    /\ runner = [t \in Tasks |-> "none"]
    /\ exit = [t \in Tasks |-> "none"]
    /\ verdict = [t \in Tasks |-> "none"]
    /\ cancel = [t \in Tasks |-> "unset"]
    /\ killing = {}
    /\ notified = {}
    /\ dog = [t \in Tasks |-> "none"]
    /\ stalledNotified = {}
    /\ notes = {}
    /\ woken = 0

\* enqueueNotification: append under the lock, then go wakeFunc.
Enqueue(n) ==
    /\ notes' = notes \cup {n}
    /\ woken' = woken + 1

\* SpawnAdopt; runAdopt is started and has not run.
SpawnAdopt(t) ==
    /\ status[t] = "new"
    /\ status' = [status EXCEPT ![t] = "running"]
    /\ listed' = listed \cup {t}
    /\ runner' = [runner EXCEPT ![t] = "starting"]
    /\ UNCHANGED <<exit, verdict, cancel, killing, notified, dog,
                   stalledNotified, notes, woken>>

\* runAdopt stores the cancel function, whatever the status is by now, and
\* starts the watchdog.
StoreCancel(t) ==
    /\ runner[t] = "starting"
    /\ cancel' = [cancel EXCEPT ![t] = "armed"]
    /\ dog' = [dog EXCEPT ![t] = "watching"]
    /\ runner' = [runner EXCEPT ![t] = "waiting"]
    /\ UNCHANGED <<status, listed, exit, verdict, killing, notified,
                   stalledNotified, notes, woken>>

\* The command ends, or its stream breaks: the stream reader sends its one
\* result.  Kill does not reach the command: its stream has a context of its own.
\* A result that comes when nobody waits for it any more is left out.
CommandEnds(t) ==
    /\ runner[t] \in {"starting", "waiting"}
    /\ exit[t] = "none"
    /\ \E e \in Ends : exit' = [exit EXCEPT ![t] = e]
    /\ UNCHANGED <<status, listed, runner, verdict, cancel, killing, notified,
                   dog, stalledNotified, notes, woken>>

\* The select of runAdopt; both cases may be ready.
ResultArrives(t) ==
    /\ runner[t] = "waiting"
    /\ exit[t] # "none"
    /\ verdict' = [verdict EXCEPT ![t] = exit[t]]
    /\ runner' = [runner EXCEPT ![t] = "ended"]
    /\ UNCHANGED <<status, listed, exit, cancel, killing, notified, dog,
                   stalledNotified, notes, woken>>

\* Mutated: the verdict of a task whose context ended is not filled in.
ContextEndsUnset(t) ==
    /\ runner[t] = "waiting"
    /\ cancel' = [cancel EXCEPT ![t] = "called"]
    /\ runner' = [runner EXCEPT ![t] = "ended"]
    /\ UNCHANGED <<status, listed, exit, verdict, killing, notified, dog,
                   stalledNotified, notes, woken>>

\* Cancelled, or BackgroundExecTimeout has passed.
ContextEnds(t) ==
    /\ runner[t] = "waiting"
    /\ cancel' = [cancel EXCEPT ![t] = "called"]
    /\ verdict' = [verdict EXCEPT ![t] = "failed"]
    /\ runner' = [runner EXCEPT ![t] = "ended"]
    /\ UNCHANGED <<status, listed, exit, killing, notified, dog,
                   stalledNotified, notes, woken>>

\* The goroutine of runAdopt returns; its defer cancels the context.
Returns(t) ==
    /\ runner' = [runner EXCEPT ![t] = "done"]
    /\ cancel' = [cancel EXCEPT ![t] = "called"]

\* Mutated: the status is written whatever it is.
SettleAnyway(t) ==
    /\ runner[t] = "ended"
    /\ status' = [status EXCEPT ![t] = verdict[t]]
    /\ runner' = [runner EXCEPT ![t] = "settled"]
    /\ UNCHANGED <<listed, exit, verdict, cancel, killing, notified, dog,
                   stalledNotified, notes, woken>>

\* Mutated: a killed task keeps its status and is reported all the same.
SettleAndReport(t) ==
    /\ runner[t] = "ended"
    /\ status' = [status EXCEPT ![t] = IF @ = "killed" THEN @ ELSE verdict[t]]
    /\ runner' = [runner EXCEPT ![t] = "settled"]
    /\ UNCHANGED <<listed, exit, verdict, cancel, killing, notified, dog,
                   stalledNotified, notes, woken>>

\* completeTask: a killed task stays killed.
Settle(t) ==
    /\ runner[t] = "ended"
    /\ \/ /\ status[t] = "killed"
          /\ Returns(t)
          /\ UNCHANGED status
       \/ /\ status[t] # "killed"
          /\ status' = [status EXCEPT ![t] = verdict[t]]
          /\ runner' = [runner EXCEPT ![t] = "settled"]
          /\ UNCHANGED cancel
    /\ UNCHANGED <<listed, exit, verdict, killing, notified, dog,
                   stalledNotified, notes, woken>>

\* completeTask: MarkNotified.
MarkNotified(t) ==
    /\ runner[t] = "settled"
    /\ \/ /\ t \in notified
          /\ Returns(t)
          /\ UNCHANGED notified
       \/ /\ t \notin notified
          /\ notified' = notified \cup {t}
          /\ runner' = [runner EXCEPT ![t] = "reporting"]
          /\ UNCHANGED cancel
    /\ UNCHANGED <<status, listed, exit, verdict, killing, dog,
                   stalledNotified, notes, woken>>

\* completeTask: enqueueNotification, with the status it decided.
Report(t) ==
    /\ runner[t] = "reporting"
    /\ Enqueue([task |-> t, status |-> verdict[t]])
    /\ Returns(t)
    /\ UNCHANGED <<status, listed, exit, verdict, killing, notified, dog,
                   stalledNotified>>

\* stallWatchdog, one tick: the task is running, its output has not grown for
\* stallThreshold and ends in a prompt; or it is no longer running; or the
\* context has ended.  A tick that finds output growing changes nothing here.
Watch(t) ==
    /\ dog[t] = "watching"
    /\ \/ /\ status[t] = "running"
          /\ dog' = [dog EXCEPT ![t] = "suspicious"]
       \/ /\ status[t] # "running" \/ cancel[t] = "called"
          /\ dog' = [dog EXCEPT ![t] = "done"]
    /\ UNCHANGED <<status, listed, runner, exit, verdict, cancel, killing,
                   notified, stalledNotified, notes, woken>>

\* MarkStalledNotified; the status it looked at may have changed meanwhile.
MarkStalled(t) ==
    /\ dog[t] = "suspicious"
    /\ \/ /\ t \in stalledNotified
          /\ dog' = [dog EXCEPT ![t] = "done"]
          /\ UNCHANGED stalledNotified
       \/ /\ t \notin stalledNotified
          /\ stalledNotified' = stalledNotified \cup {t}
          /\ dog' = [dog EXCEPT ![t] = "marked"]
    /\ UNCHANGED <<status, listed, runner, exit, verdict, cancel, killing,
                   notified, notes, woken>>

ReportStall(t) ==
    /\ dog[t] = "marked"
    /\ Enqueue(StallNote(t))
    /\ dog' = [dog EXCEPT ![t] = "done"]
    /\ UNCHANGED <<status, listed, runner, exit, verdict, cancel, killing,
                   notified, stalledNotified>>

\* Mutated: the status is not looked at.
KillAny(t) ==
    /\ t \in listed
    /\ status' = [status EXCEPT ![t] = "killed"]
    /\ killing' = killing \cup {t}
    /\ UNCHANGED <<listed, runner, exit, verdict, cancel, notified, dog,
                   stalledNotified, notes, woken>>

\* Kill (KillForSession, bg_status): refused unless the task runs.
Kill(t) ==
    /\ t \in listed
    /\ status[t] = "running"
    /\ status' = [status EXCEPT ![t] = "killed"]
    /\ killing' = killing \cup {t}
    /\ UNCHANGED <<listed, runner, exit, verdict, cancel, notified, dog,
                   stalledNotified, notes, woken>>

\* Task.Cancel does nothing when runAdopt has not stored the function yet.
KillCancels(t) ==
    /\ t \in killing
    /\ killing' = killing \ {t}
    /\ cancel' = [cancel EXCEPT ![t] = IF @ = "unset" THEN "unset" ELSE "called"]
    /\ UNCHANGED <<status, listed, runner, exit, verdict, notified, dog,
                   stalledNotified, notes, woken>>

\* Cleanup drops a task that ended long ago.
Cleanup(t) ==
    /\ t \in listed
    /\ status[t] # "running"
    /\ listed' = listed \ {t}
    /\ UNCHANGED <<status, runner, exit, verdict, cancel, killing, notified, dog,
                   stalledNotified, notes, woken>>

\* DrainNotifications: the caller takes all of the session's.
Drain == notes' = {}

\* RequeueNotifications: nobody is woken.
Requeue(ns) == notes' = notes \cup ns

\* The goroutine of runAdopt, of a Kill or of a watchdog takes its next step.
RunnerStep(t) ==
    StoreCancel(t) \/ ResultArrives(t) \/ Settle(t) \/ MarkNotified(t) \/ Report(t)
DogStep(t)  == Watch(t) \/ MarkStalled(t) \/ ReportStall(t)

BgNext ==
    \E t \in Tasks :
        \/ SpawnAdopt(t) \/ CommandEnds(t) \/ RunnerStep(t) \/ ContextEnds(t)
        \/ DogStep(t) \/ Kill(t) \/ KillCancels(t) \/ Cleanup(t)
=============================================================================
