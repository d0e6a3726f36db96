----------------------------- MODULE TaskReports -----------------------------
(***************************************************************************)
(* What the background task manager and the session's turns promise        *)
(* together: a task runs and ends once, and how it ended is told to an     *)
(* agent of its session at most once, truthfully, and never when the task  *)
(* was killed.                                                             *)
(***************************************************************************)
CONSTANT Tasks

VARIABLES
    status,   \* per task
    told      \* what an agent has been told of its end; "nothing" before

vars == <<status, told>>

Ends == {"completed", "failed"}

Init ==
    /\ status = [t \in Tasks |-> "new"]
    /\ told = [t \in Tasks |-> "nothing"]

Move(t, from, to) ==
    /\ status[t] = from
    /\ status' = [status EXCEPT ![t] = to]
    /\ UNCHANGED told

Start(t)  == Move(t, "new", "running")
End(t)    == \E s \in Ends : Move(t, "running", s)
Kill(t)   == Move(t, "running", "killed")

\* An agent's step takes all the reports that are waiting.
Tell(ts) ==
    /\ \A t \in ts : status[t] \in Ends /\ told[t] = "nothing"
    /\ told' = [t \in Tasks |-> IF t \in ts THEN status[t] ELSE told[t]]
    /\ UNCHANGED status

Next ==
    \/ \E t \in Tasks : Start(t) \/ End(t) \/ Kill(t)
    \/ \E ts \in SUBSET Tasks : Tell(ts)

Spec == Init /\ [][Next]_vars
=============================================================================
