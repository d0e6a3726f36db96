-------------------------------- MODULE DagRun --------------------------------
(***************************************************************************)
(* What the orchestrator promises of one planned run, however its          *)
(* processes interleave, crash or are cut short: a task becomes ready only *)
(* when everything it depends on has succeeded, what has succeeded or was  *)
(* cancelled stays so, the run completes only when every task has          *)
(* succeeded, and a finished run never moves again.                        *)
(*                                                                         *)
(* It deliberately promises no more.  Blocking a task and failing a run    *)
(* have no guard on the other tasks: the code decides both from a list     *)
(* that may be out of date when the decision is written.                   *)
(***************************************************************************)
EXTENDS OrchestratorStates

CONSTANTS Tasks, Deps

VARIABLES runStatus, status

vars == <<runStatus, status>>

Parents(t) == {d[2] : d \in {e \in Deps : e[1] = t}}

Init ==
    /\ runStatus = "planning"
    /\ status = [t \in Tasks |-> "pending"]

Move(t, from, to) ==
    /\ status[t] \in from
    /\ status' = [status EXCEPT ![t] = to]
    /\ UNCHANGED runStatus

Release(t) ==
    /\ \A u \in Parents(t) : status[u] = "succeeded"
    /\ Move(t, {"pending", "blocked"}, "ready")

Block(t) ==
    /\ Parents(t) # {}
    /\ Move(t, {"pending"}, "blocked")

Run(t)     == Move(t, {"ready"}, "running")
Succeed(t) == Move(t, {"running"}, "succeeded")
Fail(t)    == Move(t, {"running"}, "failed")
Retry(t)   == Move(t, {"failed"}, "ready")
Cancel(t)  == Move(t, {"pending", "ready", "running"}, "cancelled")

\* The run follows its transition table; completing it needs every task.
Advance(to) ==
    /\ CanTransitionRun(runStatus, to)
    /\ to = "completed" => \A t \in Tasks : status[t] = "succeeded"
    /\ runStatus' = to
    /\ UNCHANGED status

Next ==
    \/ \E t \in Tasks : \/ Release(t) \/ Block(t) \/ Run(t) \/ Succeed(t)
                        \/ Fail(t) \/ Retry(t) \/ Cancel(t)
    \/ \E to \in RunStatus : Advance(to)

Spec == Init /\ [][Next]_vars
=============================================================================
