-------------------------- MODULE OrchestratorStates --------------------------
(***************************************************************************)
(* The statuses of a run, of a task and of an attempt, and the two         *)
(* transition tables every status write of the orchestrator is checked     *)
(* against (internal/agenthub/orchestrator/state_machine.go, errors.go).   *)
(* "absent" stands for a row that has not been inserted, the code's "".    *)
(***************************************************************************)

RunStatus == {"absent", "draft", "planning", "dispatching", "collecting",
              "completed", "failed", "cancelled"}

TaskStatus == {"absent", "pending", "ready", "running", "succeeded",
               "failed", "blocked", "cancelled"}

\* "absent" again: no attempt row carries that number.  The code also declares
\* "cancelled" for attempts, and never writes it.
AttemptStatus == {"absent", "running", "succeeded", "failed", "timed_out"}

TerminalRun(s) == s \in {"completed", "failed", "cancelled"}

TerminalTask(s) == s \in {"succeeded", "failed", "blocked", "cancelled"}

CanTransitionRun(from, to) ==
    \/ from = to
    \/ from = "absent"      /\ to \in {"draft", "planning"}
    \/ from = "draft"       /\ to \in {"planning", "cancelled"}
    \/ from = "planning"    /\ to \in {"dispatching", "failed", "cancelled"}
    \/ from = "dispatching" /\ to \in {"collecting", "completed", "failed", "cancelled"}
    \/ from = "collecting"  /\ to \in {"dispatching", "completed", "failed", "cancelled"}

\* Two exits from statuses the code calls terminal: a retry takes "failed" back
\* to "ready", and a resolved dependency takes "blocked" back.
CanTransitionTask(from, to) ==
    \/ from = to
    \/ from = "absent"  /\ to \in {"pending", "ready"}
    \/ from = "pending" /\ to \in {"ready", "blocked", "cancelled"}
    \/ from = "ready"   /\ to \in {"running", "cancelled"}
    \/ from = "running" /\ to \in {"succeeded", "failed", "cancelled"}
    \/ from = "failed"  /\ to = "ready"
    \/ from = "blocked" /\ to \in {"ready", "pending"}

=============================================================================
