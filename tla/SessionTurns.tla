----------------------------- MODULE SessionTurns -----------------------------
(***************************************************************************)
(* How the notifications of BackgroundTasks reach an agent                 *)
(* (conversation/flow/resolver_turns.go, resolver_trigger.go, agent.go).   *)
(* A turn of the session's agent takes them at its step boundaries; when   *)
(* the session is idle, a goroutine that wakeFunc started runs a turn of   *)
(* its own to deliver them; when it is not, that goroutine leaves a flag   *)
(* for the turn that ends last.                                            *)
(*                                                                         *)
(* Turns of one session may overlap.  The goroutines of                    *)
(* TriggerBackgroundNotification are alike, so they are counted by where   *)
(* they stand; held is the batch of the one that delivers.  A notification *)
(* counts as heard when it is among the messages of an agent's run, be it  *)
(* a run that fails later.                                                 *)
(*                                                                         *)
(* Runs of heartbeats, schedules and discuss sessions drain notifications  *)
(* of their session too, without entering it.  The runs of a bot on a CLI  *)
(* runtime have no step boundaries that drain.                             *)
(***************************************************************************)
EXTENDS BackgroundTasks

CONSTANTS
    Turns,        \* goroutines of Chat, StreamChat and StreamChatWS
    MaxFaults     \* bound: turns and deliveries that fail

ASSUME FaultsAssumption == MaxFaults \in Nat

VARIABLES
    turn,       \* where each turn stands
    refs,       \* Resolver.sessionTurnRefs
    deferred,   \* Resolver.bgNotifDeferred
    trig,       \* number of trigger goroutines at each point
    held,       \* notifications drained for a delivery whose run has not begun
    heard,      \* notifications that were put before an agent
    returned,   \* notifications of failed deliveries
    faults

turnVars == <<turn, refs, deferred, trig, held, heard, returned, faults>>
vars == <<bgVars, turnVars>>
-----------------------------------------------------------------------------
TrigPhase == {"enter", "defer", "drain", "resolve", "deliver", "exit", "take", "look"}

TypeOK ==
    /\ BgTypeOK
    /\ turn \in [Turns -> {"idle", "entered", "ready", "cli", "stepped", "take", "look"}]
    /\ refs \in Nat
    /\ deferred \in BOOLEAN
    /\ trig \in [TrigPhase -> Nat]
    /\ held \subseteq Note
    /\ heard \subseteq Note
    /\ returned \subseteq Note
    /\ faults \in Nat

Init ==
    /\ BgInit
    /\ turn = [u \in Turns |-> "idle"]
    /\ refs = 0
    /\ deferred = FALSE
    /\ trig = [p \in TrigPhase |-> 0]
    /\ held = {}
    /\ heard = {}
    /\ returned = {}
    /\ faults = MaxFaults

\* The manager's own steps.
Background == BgNext /\ UNCHANGED turnVars

BgRest == UNCHANGED <<status, listed, runner, exit, verdict, cancel, killing,
                      notified, dog, stalledNotified>>

\* One trigger goroutine goes from one point to another.
Goes(from, to) ==
    /\ trig[from] > 0
    /\ trig' = [trig EXCEPT ![from] = @ - 1, ![to] = @ + 1]

\* Mutated: the last turn to leave does not take its count away.
ReleaseLeaks == refs' = IF refs > 1 THEN refs - 1 ELSE refs

\* The releaser of enterSessionTurn and tryEnterIdleSessionTurn: whoever leaves
\* last goes on to look for a deferred notification.
Release == refs' = IF refs > 1 THEN refs - 1 ELSE 0
AfterRelease == IF refs > 1 THEN "idle" ELSE "take"

\* drainBackgroundNotifications, at a step boundary of an agent's run.
StepDrains ==
    /\ heard' = heard \cup notes
    /\ Drain

-----------------------------------------------------------------------------
(* TriggerBackgroundNotification *)

\* HasNotifications.
TriggerLooks ==
    /\ woken > 0
    /\ woken' = woken - 1
    /\ trig' = IF notes = {} THEN trig ELSE [trig EXCEPT !["enter"] = @ + 1]
    /\ BgRest
    /\ UNCHANGED <<notes, turn, refs, deferred, held, heard, returned, faults>>

\* Mutated: a delivery enters like any turn.
TriggerEntersAnyway ==
    /\ Goes("enter", "drain")
    /\ refs' = refs + 1
    /\ UNCHANGED <<bgVars, turn, deferred, held, heard, returned, faults>>

\* tryEnterIdleSessionTurn.
TriggerEnters ==
    /\ \/ /\ refs > 0
          /\ Goes("enter", "defer")
          /\ UNCHANGED refs
       \/ /\ refs = 0
          /\ Goes("enter", "drain")
          /\ refs' = 1
    /\ UNCHANGED <<bgVars, turn, deferred, held, heard, returned, faults>>

\* markDeferredBackgroundNotification; the turn it found may be over by now.
TriggerDefers ==
    /\ trig["defer"] > 0
    /\ trig' = [trig EXCEPT !["defer"] = @ - 1]
    /\ deferred' = TRUE
    /\ UNCHANGED <<bgVars, turn, refs, held, heard, returned, faults>>

TriggerDrains ==
    /\ Goes("drain", IF notes = {} THEN "exit" ELSE "resolve")
    /\ held' = held \cup notes
    /\ Drain
    /\ BgRest
    /\ UNCHANGED <<woken, turn, refs, deferred, heard, returned, faults>>

\* Mutated: the batch of a failed delivery is forgotten.
DeliveryForgets ==
    /\ faults > 0
    /\ faults' = faults - 1
    /\ Goes("resolve", "exit")
    /\ held' = {}
    /\ UNCHANGED <<bgVars, turn, refs, deferred, heard, returned>>

\* The session, its route or the model cannot be resolved: the batch goes back.
DeliveryFails ==
    /\ faults > 0
    /\ faults' = faults - 1
    /\ Goes("resolve", "exit")
    /\ Requeue(held)
    /\ returned' = returned \cup held
    /\ held' = {}
    /\ BgRest
    /\ UNCHANGED <<woken, turn, refs, deferred, heard>>

\* The agent's run begins with the batch; from here on nothing is put back.
DeliveryBegins ==
    /\ Goes("resolve", "deliver")
    /\ heard' = heard \cup held
    /\ held' = {}
    /\ UNCHANGED <<bgVars, turn, refs, deferred, returned, faults>>

DeliverySteps ==
    /\ trig["deliver"] > 0
    /\ notes # {}
    /\ StepDrains
    /\ BgRest
    /\ UNCHANGED <<woken, turn, refs, deferred, trig, held, returned, faults>>

DeliveryEnds ==
    /\ Goes("deliver", "exit")
    /\ UNCHANGED <<bgVars, turn, refs, deferred, held, heard, returned, faults>>

\* The deferred doneTurn.
TriggerLeaves ==
    /\ trig["exit"] > 0
    /\ trig' = IF AfterRelease = "idle" THEN [trig EXCEPT !["exit"] = @ - 1]
                                      ELSE [trig EXCEPT !["exit"] = @ - 1, !["take"] = @ + 1]
    /\ Release
    /\ UNCHANGED <<bgVars, turn, deferred, held, heard, returned, faults>>

-----------------------------------------------------------------------------
(* A turn: Chat, StreamChat, StreamChatWS *)

\* enterSessionTurn.
TurnEnters(u) ==
    /\ turn[u] = "idle"
    /\ turn' = [turn EXCEPT ![u] = "entered"]
    /\ refs' = refs + 1
    /\ UNCHANGED <<bgVars, deferred, trig, held, heard, returned, faults>>

\* resolve has succeeded; runtimeForBot is the native agent or a CLI runtime.
TurnResolves(u) ==
    /\ turn[u] = "entered"
    /\ \E place \in {"ready", "cli"} : turn' = [turn EXCEPT ![u] = place]
    /\ UNCHANGED <<bgVars, refs, deferred, trig, held, heard, returned, faults>>

TurnSteps(u) ==
    /\ turn[u] \in {"ready", "stepped"}
    /\ turn' = [turn EXCEPT ![u] = "stepped"]
    /\ StepDrains
    /\ BgRest
    /\ UNCHANGED <<woken, refs, deferred, trig, held, returned, faults>>

TurnEnds(u) ==
    /\ turn[u] \in {"cli", "stepped"}
    /\ turn' = [turn EXCEPT ![u] = AfterRelease]
    /\ Release
    /\ UNCHANGED <<bgVars, deferred, trig, held, heard, returned, faults>>

\* resolve or the run fails, or the client goes away.
TurnFails(u) ==
    /\ faults > 0
    /\ faults' = faults - 1
    /\ turn[u] \in {"entered", "ready", "cli", "stepped"}
    /\ turn' = [turn EXCEPT ![u] = AfterRelease]
    /\ Release
    /\ UNCHANGED <<bgVars, deferred, trig, held, heard, returned>>

-----------------------------------------------------------------------------
(* maybeTriggerDeferredBackgroundNotifications, by a turn or a trigger that *)
(* left the session idle                                                    *)

\* takeDeferredBackgroundNotification: LoadAndDelete.
TakeDeferred == deferred' = FALSE

\* HasNotifications, then go TriggerBackgroundNotification.
WakeAgain == woken' = IF notes = {} THEN woken ELSE woken + 1

\* Mutated: the flag is cleared and nobody looks.
TurnTakesInVain(u) ==
    /\ turn[u] = "take"
    /\ turn' = [turn EXCEPT ![u] = "idle"]
    /\ TakeDeferred
    /\ UNCHANGED <<bgVars, refs, trig, held, heard, returned, faults>>

TurnTakes(u) ==
    /\ turn[u] = "take"
    /\ turn' = [turn EXCEPT ![u] = IF deferred THEN "look" ELSE "idle"]
    /\ TakeDeferred
    /\ UNCHANGED <<bgVars, refs, trig, held, heard, returned, faults>>

TurnLooks(u) ==
    /\ turn[u] = "look"
    /\ turn' = [turn EXCEPT ![u] = "idle"]
    /\ WakeAgain
    /\ BgRest
    /\ UNCHANGED <<notes, refs, deferred, trig, held, heard, returned, faults>>

TriggerTakes ==
    /\ trig["take"] > 0
    /\ trig' = IF deferred THEN [trig EXCEPT !["take"] = @ - 1, !["look"] = @ + 1]
                           ELSE [trig EXCEPT !["take"] = @ - 1]
    /\ TakeDeferred
    /\ UNCHANGED <<bgVars, turn, refs, held, heard, returned, faults>>

TriggerLooksAgain ==
    /\ trig["look"] > 0
    /\ trig' = [trig EXCEPT !["look"] = @ - 1]
    /\ WakeAgain
    /\ BgRest
    /\ UNCHANGED <<notes, turn, refs, deferred, held, heard, returned, faults>>

-----------------------------------------------------------------------------
Trigger ==
    \/ TriggerLooks \/ TriggerEnters \/ TriggerDefers \/ TriggerDrains
    \/ DeliveryFails \/ DeliveryBegins \/ DeliverySteps \/ DeliveryEnds
    \/ TriggerLeaves \/ TriggerTakes \/ TriggerLooksAgain

Turn(u) ==
    \/ TurnEnters(u) \/ TurnResolves(u) \/ TurnSteps(u) \/ TurnEnds(u) \/ TurnFails(u)
    \/ TurnTakes(u) \/ TurnLooks(u)

\* TriggerHeartbeat, TriggerSchedule and handleReplyWithAgent run the agent without
\* enterSessionTurn: a run of theirs comes to a step boundary.
UncountedSteps ==
    /\ notes # {}
    /\ StepDrains
    /\ BgRest
    /\ UNCHANGED <<woken, turn, refs, deferred, trig, held, returned, faults>>

Next == Background \/ Trigger \/ UncountedSteps \/ \E u \in Turns : Turn(u)

Spec == Init /\ [][Next]_vars

\* Goroutines run on, a task's context ends by its timeout at the latest, and a native
\* agent's turn that resolves takes a step.  Nothing is assumed of commands, kills and
\* Cleanup, nor that anybody ever starts a turn.
Fairness ==
    /\ \A t \in Tasks :
        /\ WF_vars((RunnerStep(t) \/ ContextEnds(t)) /\ UNCHANGED turnVars)
        /\ WF_vars(DogStep(t) /\ UNCHANGED turnVars)
    /\ WF_vars(TriggerLooks)
    /\ WF_vars(TriggerEnters)
    /\ WF_vars(TriggerDefers)
    /\ WF_vars(TriggerDrains)
    /\ WF_vars(DeliveryBegins)
    /\ WF_vars(DeliveryEnds)
    /\ WF_vars(TriggerLeaves)
    /\ WF_vars(TriggerTakes)
    /\ WF_vars(TriggerLooksAgain)
    /\ \A u \in Turns : /\ WF_vars(TurnResolves(u))
                        /\ WF_vars(turn[u] = "ready" /\ TurnSteps(u))
                        /\ WF_vars(TurnEnds(u) \/ TurnTakes(u) \/ TurnLooks(u))

FairSpec == Spec /\ Fairness
-----------------------------------------------------------------------------
(* Properties *)

\* A terminal status is final, though Kill, the result and the timeout race for
\* it and each decides under the task's lock only (completeTask, Kill).
TerminalIsFinal ==
    [][\A t \in Tasks : status[t] \in Ends \cup {"killed"} => status'[t] = status[t]]_vars

EndNotes == {n \in notes \cup held \cup heard : n.status \in Ends}

\* Whatever an agent is told, or is about to be told, of a task's end is how it
\* ended; of a killed task it is told nothing (manager.go:390-393, TestKillTask).
ReportsTruthful ==
    \A n \in EndNotes : n.status = status[n.task] /\ n.task \in notified

\* The report of a task that has been marked notified is in exactly one place:
\* with its goroutine, in the manager's list, in the batch of a delivery, or
\* before an agent.  Draining, requeueing and delivering lose and double none.
ReportConserved ==
    \A t \in notified :
        LET n == EndNote(t)
            places == {p \in {"runner", "list", "batch", "agent"} :
                          \/ p = "runner" /\ runner[t] = "reporting"
                          \/ p = "list"   /\ n \in notes
                          \/ p = "batch"  /\ n \in held
                          \/ p = "agent"  /\ n \in heard}
        IN  Cardinality(places) = 1

\* A notification in the list that no delivery has put back has somebody to
\* come for it: a trigger goroutine, a releaser, or the deferred flag.  (The flag
\* may be all there is: it can be set after the turn that would have taken it.)
PendingIsWatched ==
    notes \subseteq returned
    \/ woken > 0 \/ trig["enter"] > 0 \/ trig["defer"] > 0 \/ trig["drain"] > 0
    \/ deferred \/ trig["look"] > 0 \/ \E u \in Turns : turn[u] = "look"

Delivering == trig["drain"] + trig["resolve"] + trig["deliver"] + trig["exit"]

\* Deliveries never overlap, and the count of turns that decides whether the
\* session is idle is the number of turns under way.
OneDelivery ==
    /\ Delivering <= 1
    /\ refs = Cardinality({u \in Turns : turn[u] \in {"entered", "ready", "cli", "stepped"}}) + Delivering

\* While the session keeps having turns, and its bot stays on the native agent, every
\* notification is put before an agent, whatever races, fails and is put back on the way.
ReportsHeard ==
    []<>(refs > 0) /\ <>[](\A u \in Turns : turn[u] # "cli")
        => \A n \in Note : n \in notes ~> n \in heard

\* What the agents have been told, read off from heard.
Told == [t \in Tasks |->
            IF \E s \in Ends : [task |-> t, status |-> s] \in heard
            THEN CHOOSE s \in Ends : [task |-> t, status |-> s] \in heard
            ELSE "nothing"]

Abstract == INSTANCE TaskReports WITH told <- Told

\* Manager and turns implement TaskReports.
ReportsPromise == Abstract!Spec
=============================================================================
