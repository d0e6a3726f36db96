-------------------------- MODULE SessionTurnsProofs --------------------------
(***************************************************************************)
(* How a task ended is told truthfully, once, and to somebody; a           *)
(* notification is never left without anybody to come for it; and manager  *)
(* and turns together implement TaskReports.  For any number of tasks,     *)
(* turns and failures.                                                     *)
(***************************************************************************)
EXTENDS SessionTurns, FiniteSetTheorems, TLAPS

\* Where the goroutine of a task can be, given the task's status: Kill moves
\* the status under it, and it moves the status once.
RunnerSound ==
    \A t \in Tasks :
        /\ runner[t] = "none" <=> status[t] = "new"
        /\ status[t] = "running" => runner[t] \in {"starting", "waiting", "ended"}
        /\ status[t] \in Ends =>
                runner[t] \in {"settled", "reporting", "done"} /\ status[t] = verdict[t]
        /\ runner[t] \in {"ended", "settled", "reporting"} => verdict[t] \in Ends
        /\ runner[t] \in {"settled", "reporting"} => status[t] \in Ends
        /\ runner[t] = "reporting" => t \in notified
        /\ t \in notified => status[t] \in Ends /\ runner[t] \in {"reporting", "done"}

\* A report of an end outside its goroutine is true, and its goroutine is done.
NotesSound ==
    \A n \in notes \cup held \cup heard :
        n.status \in Ends =>
            n.task \in notified /\ runner[n.task] = "done" /\ n.status = status[n.task]

\* It is in one place only, and once its goroutine is done it is in one.
NotesApart ==
    /\ \A n \in Note : n.status \in Ends => /\ ~ (n \in notes /\ n \in held)
                                            /\ ~ (n \in notes /\ n \in heard)
                                            /\ ~ (n \in held /\ n \in heard)
    /\ \A t \in notified : runner[t] = "done" => EndNote(t) \in notes \cup held \cup heard

ReportInv == RunnerSound /\ NotesSound /\ NotesApart
-----------------------------------------------------------------------------
\* Turns and triggers leave the tasks alone.
LEMMA OthersKeepTasks ==
    Trigger \/ UncountedSteps \/ (\E u \in Turns : Turn(u))
        => UNCHANGED <<status, runner, verdict, notified>>
  BY DEF Trigger, Turn, UncountedSteps, bgVars, BgRest, TriggerLooks, TriggerEnters, TriggerDefers, TriggerDrains,
         DeliveryFails, DeliveryBegins, DeliverySteps, DeliveryEnds, TriggerLeaves, TriggerTakes,
         TriggerLooksAgain, TurnEnters, TurnResolves, TurnSteps, TurnEnds, TurnFails, TurnTakes, TurnLooks

\* The variables keep their types.
LEMMA TypeStep == TypeOK /\ RunnerSound /\ [Next]_vars => TypeOK'
<1> SUFFICES ASSUME TypeOK, RunnerSound, [Next]_vars PROVE TypeOK'
  OBVIOUS
<1> USE DEF TypeOK, BgTypeOK, Note, Ends, TaskStatus, TrigPhase
<1>1. CASE Background
  <2>1. UNCHANGED turnVars
    BY <1>1 DEF Background
  <2>2. PICK t \in Tasks :
            \/ SpawnAdopt(t) \/ CommandEnds(t) \/ RunnerStep(t) \/ ContextEnds(t)
            \/ DogStep(t) \/ Kill(t) \/ KillCancels(t) \/ Cleanup(t)
    BY <1>1 DEF Background, BgNext
  <2>3. CASE SpawnAdopt(t)
    BY <2>1, <2>3 DEF SpawnAdopt, turnVars
  <2>4. CASE StoreCancel(t)
    BY <2>1, <2>4 DEF StoreCancel, turnVars
  <2>5. CASE CommandEnds(t)
    BY <2>1, <2>5 DEF CommandEnds, turnVars
  <2>6. CASE ResultArrives(t)
    BY <2>1, <2>6 DEF ResultArrives, turnVars
  <2>7. CASE ContextEnds(t)
    BY <2>1, <2>7 DEF ContextEnds, turnVars
  <2>8. CASE Settle(t)
    BY <2>1, <2>8 DEF RunnerSound, Settle, Returns, turnVars
  <2>9. CASE MarkNotified(t)
    BY <2>1, <2>9 DEF MarkNotified, Returns, turnVars
  <2>10. CASE Report(t)
    BY <2>1, <2>10 DEF RunnerSound, Report, Returns, Enqueue, turnVars
  <2>11. CASE Watch(t)
    BY <2>1, <2>11 DEF Watch, turnVars
  <2>12. CASE MarkStalled(t)
    BY <2>1, <2>12 DEF MarkStalled, turnVars
  <2>13. CASE ReportStall(t)
    BY <2>1, <2>13 DEF ReportStall, Enqueue, StallNote, turnVars
  <2>14. CASE Kill(t)
    BY <2>1, <2>14 DEF Kill, turnVars
  <2>15. CASE KillCancels(t)
    BY <2>1, <2>15 DEF KillCancels, turnVars
  <2>16. CASE Cleanup(t)
    BY <2>1, <2>16 DEF Cleanup, turnVars
  <2>17. QED
    BY <2>2, <2>3, <2>4, <2>5, <2>6, <2>7, <2>8, <2>9, <2>10, <2>11, <2>12, <2>13, <2>14, <2>15, <2>16
       DEF RunnerStep, DogStep
<1>2. CASE Trigger
  <2>1. CASE TriggerLooks
    BY <2>1 DEF TriggerLooks, BgRest, bgVars
  <2>2. CASE TriggerEnters
    BY <2>2 DEF TriggerEnters, Goes, bgVars
  <2>3. CASE TriggerDefers
    BY <2>3 DEF TriggerDefers, bgVars
  <2>4. CASE TriggerDrains
    BY <2>4 DEF TriggerDrains, Goes, Drain, BgRest, bgVars
  <2>5. CASE DeliveryFails
    BY <2>5 DEF DeliveryFails, Goes, Requeue, BgRest, bgVars
  <2>6. CASE DeliveryBegins
    BY <2>6 DEF DeliveryBegins, Goes, bgVars
  <2>7. CASE DeliverySteps
    BY <2>7 DEF DeliverySteps, StepDrains, Drain, BgRest, bgVars
  <2>8. CASE DeliveryEnds
    BY <2>8 DEF DeliveryEnds, Goes, bgVars
  <2>9. CASE TriggerLeaves
    BY <2>9 DEF TriggerLeaves, Release, AfterRelease, bgVars
  <2>10. CASE TriggerTakes
    <3>1. trig' \in [TrigPhase -> Nat]
      BY <2>10 DEF TriggerTakes
    <3>2. UNCHANGED <<bgVars, turn, refs, held, heard, returned, faults>> /\ deferred' = FALSE
      BY <2>10 DEF TriggerTakes, TakeDeferred
    <3>3. BgTypeOK'
      BY <3>2 DEF bgVars
    <3>4. QED
      BY <3>1, <3>2, <3>3
  <2>11. CASE TriggerLooksAgain
    BY <2>11 DEF TriggerLooksAgain, WakeAgain, BgRest, bgVars
  <2>12. QED
    BY <1>2, <2>1, <2>2, <2>3, <2>4, <2>5, <2>6, <2>7, <2>8, <2>9, <2>10, <2>11 DEF Trigger
<1>3. ASSUME NEW u \in Turns, Turn(u) PROVE TypeOK'
  <2>1. CASE TurnEnters(u)
    BY <2>1 DEF TurnEnters, bgVars
  <2>2. CASE TurnResolves(u)
    BY <2>2 DEF TurnResolves, bgVars
  <2>3. CASE TurnSteps(u)
    BY <2>3 DEF TurnSteps, StepDrains, Drain, BgRest, bgVars
  <2>4. CASE TurnEnds(u)
    BY <2>4 DEF TurnEnds, Release, AfterRelease, bgVars
  <2>5. CASE TurnFails(u)
    BY <2>5 DEF TurnFails, Release, AfterRelease, bgVars
  <2>6. CASE TurnTakes(u)
    BY <2>6 DEF TurnTakes, TakeDeferred, bgVars
  <2>7. CASE TurnLooks(u)
    BY <2>7 DEF TurnLooks, WakeAgain, BgRest, bgVars
  <2>8. QED
    BY <1>3, <2>1, <2>2, <2>3, <2>4, <2>5, <2>6, <2>7 DEF Turn
<1>4. CASE UNCHANGED vars
  BY <1>4 DEF vars, bgVars, turnVars
<1>5. CASE UncountedSteps
  BY <1>5 DEF UncountedSteps, StepDrains, Drain, BgRest, bgVars
<1>6. QED
  BY <1>1, <1>2, <1>3, <1>4, <1>5 DEF Next

\* The initial values have their types.
LEMMA InitType == Init => TypeOK
<1>1. Init => BgTypeOK
  BY DEF Init, BgInit, BgTypeOK, Note, Ends, TaskStatus
<1>2. Init => TypeOK
  <2> SUFFICES ASSUME Init PROVE TypeOK
    OBVIOUS
  <2>1. BgTypeOK
    BY <1>1
  <2>2. trig \in [TrigPhase -> Nat] /\ refs \in Nat /\ faults \in Nat
    BY FaultsAssumption DEF Init
  <2>3. turn \in [Turns -> {"idle", "entered", "ready", "cli", "stepped", "take", "look"}]
    BY DEF Init
  <2>4. held \subseteq Note /\ heard \subseteq Note /\ returned \subseteq Note
    BY DEF Init
  <2>5. deferred \in BOOLEAN
    BY DEF Init
  <2>6. QED
    BY <2>1, <2>2, <2>3, <2>4, <2>5 DEF TypeOK
<1>3. QED
  BY <1>1, <1>2 DEF TypeOK

\* What a step of the manager leaves to a task's goroutine holds on.
LEMMA RunnerStepSound == TypeOK /\ RunnerSound /\ [Next]_vars => RunnerSound'
<1> SUFFICES ASSUME TypeOK, RunnerSound, [Next]_vars PROVE RunnerSound'
  OBVIOUS
<1> USE DEF RunnerSound, Ends
<1>1. CASE Background
  <2>1. UNCHANGED turnVars
    BY <1>1 DEF Background
  <2>2. PICK t \in Tasks :
            \/ SpawnAdopt(t) \/ CommandEnds(t) \/ RunnerStep(t) \/ ContextEnds(t)
            \/ DogStep(t) \/ Kill(t) \/ KillCancels(t) \/ Cleanup(t)
    BY <1>1 DEF Background, BgNext
  <2>3. CASE SpawnAdopt(t)
    BY <2>3 DEF TypeOK, BgTypeOK, TaskStatus, SpawnAdopt
  <2>4. CASE StoreCancel(t)
    BY <2>4 DEF TypeOK, BgTypeOK, TaskStatus, StoreCancel
  <2>5. CASE CommandEnds(t)
    BY <2>5 DEF TypeOK, BgTypeOK, TaskStatus, CommandEnds
  <2>6. CASE ResultArrives(t)
    BY <2>6 DEF TypeOK, BgTypeOK, TaskStatus, ResultArrives
  <2>7. CASE ContextEnds(t)
    BY <2>7 DEF TypeOK, BgTypeOK, TaskStatus, ContextEnds
  <2>8. CASE Settle(t)
    BY <2>8 DEF TypeOK, BgTypeOK, TaskStatus, Settle, Returns
  <2>9. CASE MarkNotified(t)
    BY <2>9 DEF TypeOK, BgTypeOK, TaskStatus, MarkNotified, Returns
  <2>10. CASE Report(t)
    BY <2>10 DEF TypeOK, BgTypeOK, TaskStatus, Report, Returns, Enqueue
  <2>11. CASE Watch(t)
    BY <2>11 DEF TypeOK, BgTypeOK, TaskStatus, Watch
  <2>12. CASE MarkStalled(t)
    BY <2>12 DEF TypeOK, BgTypeOK, TaskStatus, MarkStalled
  <2>13. CASE ReportStall(t)
    BY <2>13 DEF TypeOK, BgTypeOK, TaskStatus, ReportStall, Enqueue, StallNote
  <2>14. CASE Kill(t)
    BY <2>14 DEF TypeOK, BgTypeOK, TaskStatus, Kill
  <2>15. CASE KillCancels(t)
    BY <2>15 DEF TypeOK, BgTypeOK, TaskStatus, KillCancels
  <2>16. CASE Cleanup(t)
    BY <2>16 DEF TypeOK, BgTypeOK, TaskStatus, Cleanup
  <2>17. QED
    BY <2>2, <2>3, <2>4, <2>5, <2>6, <2>7, <2>8, <2>9, <2>10, <2>11, <2>12, <2>13, <2>14, <2>15, <2>16
       DEF RunnerStep, DogStep
<1>2. CASE UNCHANGED <<status, runner, verdict, notified>>
  BY <1>2
<1>3. Trigger \/ UncountedSteps \/ (\E u \in Turns : Turn(u)) \/ UNCHANGED vars
        => UNCHANGED <<status, runner, verdict, notified>>
  BY OthersKeepTasks DEF vars, bgVars
<1>4. QED
  BY <1>1, <1>2, <1>3 DEF Next

\* A report is about a task that ended and will not move again.
ReportedKept ==
    \A t \in notified : /\ t \in notified' /\ status'[t] = status[t]
                        /\ runner[t] = "done" => runner'[t] = "done"

\* Once a task is reported, no step takes that back.
LEMMA ReportedStays == TypeOK /\ RunnerSound /\ [Next]_vars => ReportedKept
<1> SUFFICES ASSUME TypeOK, RunnerSound, [Next]_vars, NEW s \in notified
             PROVE  /\ s \in notified' /\ status'[s] = status[s]
                    /\ runner[s] = "done" => runner'[s] = "done"
  BY DEF ReportedKept
<1> USE DEF RunnerSound, Ends
<1>0. s \in Tasks
  BY DEF TypeOK, BgTypeOK
<1>1. CASE Background
  <2>2. PICK t \in Tasks :
            \/ SpawnAdopt(t) \/ CommandEnds(t) \/ RunnerStep(t) \/ ContextEnds(t)
            \/ DogStep(t) \/ Kill(t) \/ KillCancels(t) \/ Cleanup(t)
    BY <1>1 DEF Background, BgNext
  <2>3. CASE SpawnAdopt(t)
    BY <1>0, <2>3 DEF TypeOK, BgTypeOK, TaskStatus, SpawnAdopt
  <2>4. CASE StoreCancel(t)
    BY <1>0, <2>4 DEF TypeOK, BgTypeOK, TaskStatus, StoreCancel
  <2>5. CASE CommandEnds(t)
    BY <1>0, <2>5 DEF TypeOK, BgTypeOK, TaskStatus, CommandEnds
  <2>6. CASE ResultArrives(t)
    BY <1>0, <2>6 DEF TypeOK, BgTypeOK, TaskStatus, ResultArrives
  <2>7. CASE ContextEnds(t)
    BY <1>0, <2>7 DEF TypeOK, BgTypeOK, TaskStatus, ContextEnds
  <2>8. CASE Settle(t)
    BY <1>0, <2>8 DEF TypeOK, BgTypeOK, TaskStatus, Settle, Returns
  <2>9. CASE MarkNotified(t)
    BY <1>0, <2>9 DEF TypeOK, BgTypeOK, TaskStatus, MarkNotified, Returns
  <2>10. CASE Report(t)
    BY <1>0, <2>10 DEF TypeOK, BgTypeOK, TaskStatus, Report, Returns, Enqueue
  <2>11. CASE Watch(t)
    BY <1>0, <2>11 DEF TypeOK, BgTypeOK, TaskStatus, Watch
  <2>12. CASE MarkStalled(t)
    BY <1>0, <2>12 DEF TypeOK, BgTypeOK, TaskStatus, MarkStalled
  <2>13. CASE ReportStall(t)
    BY <1>0, <2>13 DEF TypeOK, BgTypeOK, TaskStatus, ReportStall, Enqueue, StallNote
  <2>14. CASE Kill(t)
    BY <1>0, <2>14 DEF TypeOK, BgTypeOK, TaskStatus, Kill
  <2>15. CASE KillCancels(t)
    BY <1>0, <2>15 DEF TypeOK, BgTypeOK, TaskStatus, KillCancels
  <2>16. CASE Cleanup(t)
    BY <1>0, <2>16 DEF TypeOK, BgTypeOK, TaskStatus, Cleanup
  <2>17. QED
    BY <2>2, <2>3, <2>4, <2>5, <2>6, <2>7, <2>8, <2>9, <2>10, <2>11, <2>12, <2>13, <2>14, <2>15, <2>16
       DEF RunnerStep, DogStep
<1>2. Trigger \/ UncountedSteps \/ (\E u \in Turns : Turn(u)) \/ UNCHANGED vars
        => UNCHANGED <<status, runner, verdict, notified>>
  BY OthersKeepTasks DEF vars, bgVars
<1>3. QED
  BY <1>1, <1>2 DEF Next

\* What can happen to the notes: a report or a stall is added, they move on, or
\* they stay.
NotesMove ==
    \/ \E t \in Tasks : /\ runner[t] = "reporting" /\ runner'[t] = "done"
                         /\ notes' = notes \cup {[task |-> t, status |-> verdict[t]]}
                         /\ UNCHANGED <<held, heard, status, notified>>
                         /\ \A s \in Tasks \ {t} : runner'[s] = runner[s]
    \/ \E t \in Tasks : /\ notes' = notes \cup {StallNote(t)}
                         /\ UNCHANGED <<held, heard, runner, notified>>
    \/ /\ \/ notes' = {} /\ held' = held \cup notes /\ heard' = heard
          \/ notes' = {} /\ held' = held /\ heard' = heard \cup notes
          \/ notes' = notes /\ held' = {} /\ heard' = heard \cup held
          \/ notes' = notes \cup held /\ held' = {} /\ heard' = heard
       /\ UNCHANGED <<runner, notified>>
    \/ /\ UNCHANGED <<notes, held, heard>>
       /\ \A t \in notified' : runner'[t] = "done" => t \in notified /\ runner[t] = "done"

\* Every step moves reports as NotesMove says.
LEMMA NotesMoves == TypeOK /\ RunnerSound /\ [Next]_vars => NotesMove
<1> SUFFICES ASSUME TypeOK, RunnerSound, [Next]_vars PROVE NotesMove
  OBVIOUS
<1> USE DEF NotesMove
<1>1. CASE Background
  <2>1. UNCHANGED turnVars
    BY <1>1 DEF Background
  <2>2. PICK t \in Tasks :
            \/ SpawnAdopt(t) \/ CommandEnds(t) \/ RunnerStep(t) \/ ContextEnds(t)
            \/ DogStep(t) \/ Kill(t) \/ KillCancels(t) \/ Cleanup(t)
    BY <1>1 DEF Background, BgNext
  <2>3. CASE SpawnAdopt(t)
    BY <2>1, <2>3 DEF TypeOK, BgTypeOK, RunnerSound, SpawnAdopt, turnVars
  <2>4. CASE StoreCancel(t)
    BY <2>1, <2>4 DEF TypeOK, BgTypeOK, RunnerSound, StoreCancel, turnVars
  <2>5. CASE CommandEnds(t)
    BY <2>1, <2>5 DEF TypeOK, BgTypeOK, RunnerSound, CommandEnds, turnVars
  <2>6. CASE ResultArrives(t)
    BY <2>1, <2>6 DEF TypeOK, BgTypeOK, RunnerSound, ResultArrives, turnVars
  <2>7. CASE ContextEnds(t)
    BY <2>1, <2>7 DEF TypeOK, BgTypeOK, RunnerSound, ContextEnds, turnVars
  <2>8. CASE Settle(t)
    BY <2>1, <2>8 DEF TypeOK, BgTypeOK, RunnerSound, Settle, Returns, turnVars
  <2>9. CASE MarkNotified(t)
    BY <2>1, <2>9 DEF TypeOK, BgTypeOK, RunnerSound, MarkNotified, Returns, turnVars
  <2>10. CASE Report(t)
    BY <2>1, <2>10 DEF TypeOK, BgTypeOK, RunnerSound, Report, Returns, Enqueue, turnVars
  <2>11. CASE Watch(t)
    BY <2>1, <2>11 DEF TypeOK, BgTypeOK, RunnerSound, Watch, turnVars
  <2>12. CASE MarkStalled(t)
    BY <2>1, <2>12 DEF TypeOK, BgTypeOK, RunnerSound, MarkStalled, turnVars
  <2>13. CASE ReportStall(t)
    BY <2>1, <2>13 DEF TypeOK, BgTypeOK, RunnerSound, ReportStall, Enqueue, StallNote, turnVars
  <2>14. CASE Kill(t)
    BY <2>1, <2>14 DEF TypeOK, BgTypeOK, RunnerSound, Kill, turnVars
  <2>15. CASE KillCancels(t)
    BY <2>1, <2>15 DEF TypeOK, BgTypeOK, RunnerSound, KillCancels, turnVars
  <2>16. CASE Cleanup(t)
    BY <2>1, <2>16 DEF TypeOK, BgTypeOK, RunnerSound, Cleanup, turnVars
  <2>17. QED
    BY <2>2, <2>3, <2>4, <2>5, <2>6, <2>7, <2>8, <2>9, <2>10, <2>11, <2>12, <2>13, <2>14, <2>15, <2>16
       DEF RunnerStep, DogStep
<1>2. CASE Trigger
  <2>1. CASE TriggerLooks
    BY <2>1 DEF TriggerLooks, BgRest, bgVars
  <2>2. CASE TriggerEnters
    BY <2>2 DEF TriggerEnters, Goes, bgVars
  <2>3. CASE TriggerDefers
    BY <2>3 DEF TriggerDefers, bgVars
  <2>4. CASE TriggerDrains
    BY <2>4 DEF TriggerDrains, Goes, Drain, BgRest, bgVars
  <2>5. CASE DeliveryFails
    BY <2>5 DEF DeliveryFails, Goes, Requeue, BgRest, bgVars
  <2>6. CASE DeliveryBegins
    BY <2>6 DEF DeliveryBegins, Goes, bgVars
  <2>7. CASE DeliverySteps
    BY <2>7 DEF DeliverySteps, StepDrains, Drain, BgRest, bgVars
  <2>8. CASE DeliveryEnds
    BY <2>8 DEF DeliveryEnds, Goes, bgVars
  <2>9. CASE TriggerLeaves
    BY <2>9 DEF TriggerLeaves, Release, AfterRelease, bgVars
  <2>10. CASE TriggerTakes
    BY <2>10 DEF TriggerTakes, TakeDeferred, bgVars
  <2>11. CASE TriggerLooksAgain
    BY <2>11 DEF TriggerLooksAgain, WakeAgain, BgRest, bgVars
  <2>12. QED
    BY <1>2, <2>1, <2>2, <2>3, <2>4, <2>5, <2>6, <2>7, <2>8, <2>9, <2>10, <2>11 DEF Trigger
<1>3. ASSUME NEW u \in Turns, Turn(u) PROVE NotesMove
  <2>1. CASE TurnEnters(u)
    BY <2>1 DEF TurnEnters, bgVars
  <2>2. CASE TurnResolves(u)
    BY <2>2 DEF TurnResolves, bgVars
  <2>3. CASE TurnSteps(u)
    BY <2>3 DEF TurnSteps, StepDrains, Drain, BgRest, bgVars
  <2>4. CASE TurnEnds(u)
    BY <2>4 DEF TurnEnds, Release, AfterRelease, bgVars
  <2>5. CASE TurnFails(u)
    BY <2>5 DEF TurnFails, Release, AfterRelease, bgVars
  <2>6. CASE TurnTakes(u)
    BY <2>6 DEF TurnTakes, TakeDeferred, bgVars
  <2>7. CASE TurnLooks(u)
    BY <2>7 DEF TurnLooks, WakeAgain, BgRest, bgVars
  <2>8. QED
    BY <1>3, <2>1, <2>2, <2>3, <2>4, <2>5, <2>6, <2>7 DEF Turn
<1>4. CASE UNCHANGED vars
  BY <1>4 DEF vars, bgVars, turnVars
<1>5. CASE UncountedSteps
  BY <1>5 DEF UncountedSteps, StepDrains, Drain, BgRest, bgVars
<1>6. QED
  BY <1>1, <1>2, <1>3, <1>4, <1>5 DEF Next

\* Reports outside their goroutines stay true, and stay in one place each.
LEMMA NotesStep ==
    TypeOK /\ TypeOK' /\ RunnerSound /\ NotesSound /\ NotesApart /\ [Next]_vars
        => NotesSound' /\ NotesApart'
<1> SUFFICES ASSUME TypeOK, TypeOK', RunnerSound, NotesSound, NotesApart, [Next]_vars
             PROVE  NotesSound' /\ NotesApart'
  OBVIOUS
<1>1. \A t \in notified : /\ t \in notified' /\ status'[t] = status[t]
                          /\ runner[t] = "done" => runner'[t] = "done"
  BY ReportedStays DEF ReportedKept
<1>2. NotesMove
  BY NotesMoves
<1>3. /\ notified \subseteq Tasks
      /\ notes \subseteq Note /\ held \subseteq Note /\ heard \subseteq Note
      /\ notes' \subseteq Note /\ held' \subseteq Note /\ heard' \subseteq Note
  BY DEF TypeOK, BgTypeOK
<1>4. \A n \in notes \cup held \cup heard :
        n.status \in Ends =>
            n.task \in notified' /\ runner'[n.task] = "done" /\ n.status = status'[n.task]
  BY <1>1, <1>3 DEF NotesSound
<1>5. \A t \in notified : EndNote(t)' = EndNote(t)
  BY <1>1 DEF EndNote
<1>6. CASE \E t \in Tasks : /\ runner[t] = "reporting" /\ runner'[t] = "done"
                            /\ notes' = notes \cup {[task |-> t, status |-> verdict[t]]}
                            /\ UNCHANGED <<held, heard, status, notified>>
                            /\ \A s \in Tasks \ {t} : runner'[s] = runner[s]
  <2>1. PICK t \in Tasks : /\ runner[t] = "reporting" /\ runner'[t] = "done"
                           /\ notes' = notes \cup {[task |-> t, status |-> verdict[t]]}
                           /\ UNCHANGED <<held, heard, status, notified>>
                           /\ \A s \in Tasks \ {t} : runner'[s] = runner[s]
    BY <1>6
  <2>2. t \in notified /\ status[t] = verdict[t]
    BY <2>1 DEF RunnerSound
  <2> DEFINE r == [task |-> t, status |-> verdict[t]]
  <2>3. r \notin notes \cup held \cup heard
    BY <2>1, <2>2 DEF NotesSound, RunnerSound
  <2>4. NotesSound'
    BY <1>4, <2>1, <2>2 DEF NotesSound
  <2>5. \A n \in Note : n.status \in Ends => /\ ~ (n \in notes' /\ n \in held')
                                             /\ ~ (n \in notes' /\ n \in heard')
                                             /\ ~ (n \in held' /\ n \in heard')
    BY <2>1, <2>3 DEF NotesApart
  <2>6. EndNote(t)' = r
    BY <2>1, <2>2 DEF EndNote
  <2>7. \A s \in notified' : runner'[s] = "done" => EndNote(s)' \in notes' \cup held' \cup heard'
    BY <1>3, <1>5, <2>1, <2>6 DEF NotesApart
  <2>8. QED
    BY <2>4, <2>5, <2>7 DEF NotesApart
<1>7. CASE \E t \in Tasks : /\ notes' = notes \cup {StallNote(t)}
                            /\ UNCHANGED <<held, heard, runner, notified>>
  <2>1. PICK t \in Tasks : /\ notes' = notes \cup {StallNote(t)}
                           /\ UNCHANGED <<held, heard, runner, notified>>
    BY <1>7
  <2>2. StallNote(t).status \notin Ends
    BY DEF StallNote, Ends
  <2>3. NotesSound'
    BY <1>4, <2>1, <2>2 DEF NotesSound
  <2>4. \A n \in Note : n.status \in Ends => /\ ~ (n \in notes' /\ n \in held')
                                             /\ ~ (n \in notes' /\ n \in heard')
                                             /\ ~ (n \in held' /\ n \in heard')
    BY <2>1, <2>2 DEF NotesApart
  <2>5. \A s \in notified' : runner'[s] = "done" => EndNote(s)' \in notes' \cup held' \cup heard'
    BY <1>5, <2>1 DEF NotesApart
  <2>6. QED
    BY <2>3, <2>4, <2>5 DEF NotesApart
<1>8. CASE /\ \/ notes' = {} /\ held' = held \cup notes /\ heard' = heard
              \/ notes' = {} /\ held' = held /\ heard' = heard \cup notes
              \/ notes' = notes /\ held' = {} /\ heard' = heard \cup held
              \/ notes' = notes \cup held /\ held' = {} /\ heard' = heard
           /\ UNCHANGED <<runner, notified>>
  <2>1. notes' \cup held' \cup heard' = notes \cup held \cup heard
    BY <1>8
  <2>2. NotesSound'
    BY <1>4, <2>1 DEF NotesSound
  <2>3. \A n \in Note : n.status \in Ends => /\ ~ (n \in notes' /\ n \in held')
                                             /\ ~ (n \in notes' /\ n \in heard')
                                             /\ ~ (n \in held' /\ n \in heard')
    BY <1>8 DEF NotesApart
  <2>4. \A s \in notified' : runner'[s] = "done" => EndNote(s)' \in notes' \cup held' \cup heard'
    BY <1>5, <1>8, <2>1 DEF NotesApart
  <2>5. QED
    BY <2>2, <2>3, <2>4 DEF NotesApart
<1>9. CASE /\ UNCHANGED <<notes, held, heard>>
           /\ \A t \in notified' : runner'[t] = "done" => t \in notified /\ runner[t] = "done"
  <2>1. NotesSound'
    BY <1>4, <1>9 DEF NotesSound
  <2>2. \A s \in notified' : runner'[s] = "done" => s \in notified
    BY <1>9
  <2>3. QED
    BY <1>5, <1>9, <2>1, <2>2 DEF NotesApart
<1>10. QED
  BY <1>2, <1>6, <1>7, <1>8, <1>9 DEF NotesMove

\* No step moves a task out of a terminal status.
LEMMA TerminalStep ==
    TypeOK /\ RunnerSound /\ [Next]_vars =>
        \A t \in Tasks : status[t] \in Ends \cup {"killed"} => status'[t] = status[t]
<1> SUFFICES ASSUME TypeOK, RunnerSound, [Next]_vars,
                    NEW s \in Tasks, status[s] \in Ends \cup {"killed"}
             PROVE  status'[s] = status[s]
  OBVIOUS
<1> USE DEF RunnerSound, Ends
<1>1. CASE Background
  <2>2. PICK t \in Tasks :
            \/ SpawnAdopt(t) \/ CommandEnds(t) \/ RunnerStep(t) \/ ContextEnds(t)
            \/ DogStep(t) \/ Kill(t) \/ KillCancels(t) \/ Cleanup(t)
    BY <1>1 DEF Background, BgNext
  <2>3. CASE SpawnAdopt(t)
    BY <2>3 DEF TypeOK, BgTypeOK, TaskStatus, SpawnAdopt
  <2>4. CASE StoreCancel(t)
    BY <2>4 DEF TypeOK, BgTypeOK, TaskStatus, StoreCancel
  <2>5. CASE CommandEnds(t)
    BY <2>5 DEF TypeOK, BgTypeOK, TaskStatus, CommandEnds
  <2>6. CASE ResultArrives(t)
    BY <2>6 DEF TypeOK, BgTypeOK, TaskStatus, ResultArrives
  <2>7. CASE ContextEnds(t)
    BY <2>7 DEF TypeOK, BgTypeOK, TaskStatus, ContextEnds
  <2>8. CASE Settle(t)
    BY <2>8 DEF TypeOK, BgTypeOK, TaskStatus, Settle, Returns
  <2>9. CASE MarkNotified(t)
    BY <2>9 DEF TypeOK, BgTypeOK, TaskStatus, MarkNotified, Returns
  <2>10. CASE Report(t)
    BY <2>10 DEF TypeOK, BgTypeOK, TaskStatus, Report, Returns, Enqueue
  <2>11. CASE Watch(t)
    BY <2>11 DEF TypeOK, BgTypeOK, TaskStatus, Watch
  <2>12. CASE MarkStalled(t)
    BY <2>12 DEF TypeOK, BgTypeOK, TaskStatus, MarkStalled
  <2>13. CASE ReportStall(t)
    BY <2>13 DEF TypeOK, BgTypeOK, TaskStatus, ReportStall, Enqueue, StallNote
  <2>14. CASE Kill(t)
    BY <2>14 DEF TypeOK, BgTypeOK, TaskStatus, Kill
  <2>15. CASE KillCancels(t)
    BY <2>15 DEF TypeOK, BgTypeOK, TaskStatus, KillCancels
  <2>16. CASE Cleanup(t)
    BY <2>16 DEF TypeOK, BgTypeOK, TaskStatus, Cleanup
  <2>17. QED
    BY <2>2, <2>3, <2>4, <2>5, <2>6, <2>7, <2>8, <2>9, <2>10, <2>11, <2>12, <2>13, <2>14, <2>15, <2>16
       DEF RunnerStep, DogStep
<1>2. Trigger \/ UncountedSteps \/ (\E u \in Turns : Turn(u)) \/ UNCHANGED vars => UNCHANGED status
  BY OthersKeepTasks DEF vars, bgVars
<1>3. QED
  BY <1>1, <1>2 DEF Next

\* A report has one place.
LEMMA OnePlace == TypeOK /\ ReportInv => ReportConserved
<1> SUFFICES ASSUME TypeOK, ReportInv, NEW t \in notified
             PROVE  LET n == EndNote(t)
                        places == {p \in {"runner", "list", "batch", "agent"} :
                                      \/ p = "runner" /\ runner[t] = "reporting"
                                      \/ p = "list"   /\ n \in notes
                                      \/ p = "batch"  /\ n \in held
                                      \/ p = "agent"  /\ n \in heard}
                    IN  Cardinality(places) = 1
  BY DEF ReportConserved
<1> DEFINE n == EndNote(t)
           places == {p \in {"runner", "list", "batch", "agent"} :
                         \/ p = "runner" /\ runner[t] = "reporting"
                         \/ p = "list"   /\ n \in notes
                         \/ p = "batch"  /\ n \in held
                         \/ p = "agent"  /\ n \in heard}
<1>1. t \in Tasks /\ status[t] \in Ends /\ runner[t] \in {"reporting", "done"}
  BY DEF TypeOK, BgTypeOK, ReportInv, RunnerSound
<1>2. n \in Note /\ n.status \in Ends /\ n.task = t
  BY <1>1 DEF EndNote, Note
<1>3. \E p : places = {p}
  <2>1. CASE runner[t] = "reporting"
    <3>1. n \notin notes \cup held \cup heard
      BY <1>2, <2>1 DEF ReportInv, NotesSound
    <3>2. places = {"runner"}
      BY <2>1, <3>1
    <3>3. QED
      BY <3>2
  <2>2. CASE runner[t] = "done"
    <3>1. n \in notes \cup held \cup heard
      BY <2>2 DEF ReportInv, NotesApart
    <3>2. /\ ~ (n \in notes /\ n \in held)
          /\ ~ (n \in notes /\ n \in heard)
          /\ ~ (n \in held /\ n \in heard)
      BY <1>2 DEF ReportInv, NotesApart
    <3>3. places \in {{"list"}, {"batch"}, {"agent"}}
      <4> HIDE DEF n
      <4>1. QED
        BY <2>2, <3>1, <3>2
    <3>4. QED
      BY <3>3
  <2>3. QED
    BY <1>1, <2>1, <2>2
<1>4. Cardinality(places) = 1
  BY <1>3, FS_Singleton
<1>5. QED
  BY <1>4

\* What can be done with the notes: somebody is still there to come for those
\* that no delivery has put back.
LEMMA PendingStep == TypeOK /\ PendingIsWatched /\ [Next]_vars => PendingIsWatched'
<1> SUFFICES ASSUME TypeOK, PendingIsWatched, [Next]_vars PROVE PendingIsWatched'
  OBVIOUS
<1> USE DEF PendingIsWatched, TypeOK, BgTypeOK, TrigPhase
<1>1. CASE Background
  <2>1. UNCHANGED turnVars
    BY <1>1 DEF Background
  <2>2. PICK t \in Tasks :
            \/ SpawnAdopt(t) \/ CommandEnds(t) \/ RunnerStep(t) \/ ContextEnds(t)
            \/ DogStep(t) \/ Kill(t) \/ KillCancels(t) \/ Cleanup(t)
    BY <1>1 DEF Background, BgNext
  <2>3. CASE SpawnAdopt(t)
    BY <2>1, <2>3 DEF SpawnAdopt, turnVars
  <2>4. CASE StoreCancel(t)
    BY <2>1, <2>4 DEF StoreCancel, turnVars
  <2>5. CASE CommandEnds(t)
    BY <2>1, <2>5 DEF CommandEnds, turnVars
  <2>6. CASE ResultArrives(t)
    BY <2>1, <2>6 DEF ResultArrives, turnVars
  <2>7. CASE ContextEnds(t)
    BY <2>1, <2>7 DEF ContextEnds, turnVars
  <2>8. CASE Settle(t)
    BY <2>1, <2>8 DEF Settle, Returns, turnVars
  <2>9. CASE MarkNotified(t)
    BY <2>1, <2>9 DEF MarkNotified, Returns, turnVars
  <2>10. CASE Report(t)
    BY <2>1, <2>10 DEF Report, Returns, Enqueue, turnVars
  <2>11. CASE Watch(t)
    BY <2>1, <2>11 DEF Watch, turnVars
  <2>12. CASE MarkStalled(t)
    BY <2>1, <2>12 DEF MarkStalled, turnVars
  <2>13. CASE ReportStall(t)
    BY <2>1, <2>13 DEF ReportStall, Enqueue, StallNote, turnVars
  <2>14. CASE Kill(t)
    BY <2>1, <2>14 DEF Kill, turnVars
  <2>15. CASE KillCancels(t)
    BY <2>1, <2>15 DEF KillCancels, turnVars
  <2>16. CASE Cleanup(t)
    BY <2>1, <2>16 DEF Cleanup, turnVars
  <2>17. QED
    BY <2>2, <2>3, <2>4, <2>5, <2>6, <2>7, <2>8, <2>9, <2>10, <2>11, <2>12, <2>13, <2>14, <2>15, <2>16
       DEF RunnerStep, DogStep
<1>2. CASE Trigger
  <2>1. CASE TriggerLooks
    BY <2>1 DEF TriggerLooks, BgRest, bgVars
  <2>2. CASE TriggerEnters
    BY <2>2 DEF TriggerEnters, Goes, bgVars
  <2>3. CASE TriggerDefers
    BY <2>3 DEF TriggerDefers, bgVars
  <2>4. CASE TriggerDrains
    BY <2>4 DEF TriggerDrains, Goes, Drain, BgRest, bgVars
  <2>5. CASE DeliveryFails
    BY <2>5 DEF DeliveryFails, Goes, Requeue, BgRest, bgVars
  <2>6. CASE DeliveryBegins
    BY <2>6 DEF DeliveryBegins, Goes, bgVars
  <2>7. CASE DeliverySteps
    BY <2>7 DEF DeliverySteps, StepDrains, Drain, BgRest, bgVars
  <2>8. CASE DeliveryEnds
    BY <2>8 DEF DeliveryEnds, Goes, bgVars
  <2>9. CASE TriggerLeaves
    BY <2>9 DEF TriggerLeaves, Release, AfterRelease, bgVars
  <2>10. CASE TriggerTakes
    BY <2>10 DEF TriggerTakes, TakeDeferred, bgVars
  <2>11. CASE TriggerLooksAgain
    BY <2>11 DEF TriggerLooksAgain, WakeAgain, BgRest, bgVars
  <2>12. QED
    BY <1>2, <2>1, <2>2, <2>3, <2>4, <2>5, <2>6, <2>7, <2>8, <2>9, <2>10, <2>11 DEF Trigger
<1>3. ASSUME NEW u \in Turns, Turn(u) PROVE PendingIsWatched'
  <2>1. CASE TurnEnters(u)
    BY <2>1 DEF TurnEnters, bgVars
  <2>2. CASE TurnResolves(u)
    BY <2>2 DEF TurnResolves, bgVars
  <2>3. CASE TurnSteps(u)
    BY <2>3 DEF TurnSteps, StepDrains, Drain, BgRest, bgVars
  <2>4. CASE TurnEnds(u)
    BY <2>4 DEF TurnEnds, Release, AfterRelease, bgVars
  <2>5. CASE TurnFails(u)
    BY <2>5 DEF TurnFails, Release, AfterRelease, bgVars
  <2>6. CASE TurnTakes(u)
    BY <2>6 DEF TurnTakes, TakeDeferred, bgVars
  <2>7. CASE TurnLooks(u)
    BY <2>7 DEF TurnLooks, WakeAgain, BgRest, bgVars
  <2>8. QED
    BY <1>3, <2>1, <2>2, <2>3, <2>4, <2>5, <2>6, <2>7 DEF Turn
<1>4. CASE UNCHANGED vars
  BY <1>4 DEF vars, bgVars, turnVars
<1>5. CASE UncountedSteps
  BY <1>5 DEF UncountedSteps, StepDrains, Drain, BgRest, bgVars
<1>6. QED
  BY <1>1, <1>2, <1>3, <1>4, <1>5 DEF Next
-----------------------------------------------------------------------------
\* The invariant of every state.
LEMMA ReportInvariant == Spec => [](TypeOK /\ ReportInv)
<1>1. Init => TypeOK
  BY InitType
<1>2. Init => ReportInv
  BY DEF Init, BgInit, ReportInv, RunnerSound, NotesSound, NotesApart, Ends
<1>3. TypeOK /\ ReportInv /\ [Next]_vars => TypeOK' /\ ReportInv'
  BY TypeStep, RunnerStepSound, NotesStep DEF ReportInv
<1>4. QED
  BY <1>1, <1>2, <1>3, PTL DEF Spec

\* Every variable keeps its type; that of a note depends on where the goroutine
\* that writes it stands.
THEOREM TypeCorrect == Spec => []TypeOK
  BY ReportInvariant, PTL

\* A terminal status is final, however Kill, the result and the timeout
\* interleave.
THEOREM TerminalStatusFinal == Spec => TerminalIsFinal
<1>1. TypeOK /\ RunnerSound /\ [Next]_vars =>
        [\A t \in Tasks : status[t] \in Ends \cup {"killed"} => status'[t] = status[t]]_vars
  BY TerminalStep
<1>2. QED
  BY <1>1, ReportInvariant, PTL DEF Spec, ReportInv, TerminalIsFinal

\* An agent is told only how a task really ended, and nothing of a killed one.
THEOREM ReportsAreTruthful == Spec => []ReportsTruthful
<1>1. ReportInv => ReportsTruthful
  BY DEF ReportInv, NotesSound, ReportsTruthful, EndNotes
<1>2. QED
  BY <1>1, ReportInvariant, PTL

\* A report is in exactly one place from the moment its task is marked notified.
THEOREM ReportsAreConserved == Spec => []ReportConserved
<1>1. TypeOK /\ ReportInv => ReportConserved
  BY OnePlace
<1>2. QED
  BY <1>1, ReportInvariant, PTL

\* No notification is left without anybody to come for it, but for those of a
\* failed delivery.
THEOREM PendingAreWatched == Spec => []PendingIsWatched
<1>1. Init => PendingIsWatched
  BY DEF Init, BgInit, PendingIsWatched
<1>2. QED
  BY <1>1, PendingStep, TypeCorrect, PTL DEF Spec
-----------------------------------------------------------------------------
\* What has been told of a task is how it ended, once that is before an agent.
ToldSound ==
    \A t \in Tasks : Told[t] = IF t \in notified /\ EndNote(t) \in heard
                              THEN status[t] ELSE "nothing"

\* Who was told reads a report that is one.
LEMMA ToldIs == TypeOK /\ ReportInv => ToldSound
<1> SUFFICES ASSUME TypeOK, ReportInv, NEW t \in Tasks
             PROVE  Told[t] = IF t \in notified /\ EndNote(t) \in heard
                              THEN status[t] ELSE "nothing"
  BY DEF ToldSound
<1>1. \A s \in Ends : [task |-> t, status |-> s] \in heard => t \in notified /\ s = status[t]
  BY DEF ReportInv, NotesSound
<1>2. CASE \E s \in Ends : [task |-> t, status |-> s] \in heard
  <2>1. PICK s \in Ends : [task |-> t, status |-> s] \in heard
    BY <1>2
  <2>2. t \in notified /\ s = status[t]
    BY <1>1, <2>1
  <2>3. EndNote(t) \in heard
    BY <2>1, <2>2 DEF EndNote
  <2>4. Told[t] = CHOOSE e \in Ends : [task |-> t, status |-> e] \in heard
    BY <1>2 DEF Told
  <2>5. Told[t] = status[t]
    BY <1>1, <2>1, <2>4
  <2>6. QED
    BY <2>2, <2>3, <2>5
<1>3. CASE ~ \E s \in Ends : [task |-> t, status |-> s] \in heard
  <2>1. Told[t] = "nothing"
    BY <1>3 DEF Told
  <2>2. t \in notified => status[t] \in Ends
    BY DEF ReportInv, RunnerSound
  <2>3. ~ (t \in notified /\ EndNote(t) \in heard)
    BY <1>3, <2>2 DEF EndNote
  <2>4. QED
    BY <2>1, <2>3
<1>4. QED
  BY <1>2, <1>3

Moves == {<<"new", "running">>} \cup {"running"} \X (Ends \cup {"killed"})

\* One status moves, the way TaskReports allows, or none.
StatusMove ==
    \E t \in Tasks : \E from, to \in TaskStatus :
        /\ <<from, to>> \in Moves
        /\ status[t] = from
        /\ status' = [status EXCEPT ![t] = to]

\* A step changes no status, or one as StatusMove says, and then nobody hears of it yet.
LEMMA StatusMoves ==
    TypeOK /\ RunnerSound /\ [Next]_vars
        => UNCHANGED status \/ (StatusMove /\ UNCHANGED heard)
<1> SUFFICES ASSUME TypeOK, RunnerSound, [Next]_vars
             PROVE  UNCHANGED status \/ (StatusMove /\ UNCHANGED heard)
  OBVIOUS
<1>1. CASE Background
  <2>1. UNCHANGED turnVars
    BY <1>1 DEF Background
  <2>2. PICK t \in Tasks :
            \/ SpawnAdopt(t) \/ CommandEnds(t) \/ RunnerStep(t) \/ ContextEnds(t)
            \/ DogStep(t) \/ Kill(t) \/ KillCancels(t) \/ Cleanup(t)
    BY <1>1 DEF Background, BgNext
  <2>3. CASE SpawnAdopt(t)
    BY <2>1, <2>3 DEF StatusMove, Moves, TaskStatus, Ends, SpawnAdopt, turnVars
  <2>4. CASE StoreCancel(t)
    BY <2>1, <2>4 DEF StoreCancel
  <2>5. CASE CommandEnds(t)
    BY <2>1, <2>5 DEF CommandEnds
  <2>6. CASE ResultArrives(t)
    BY <2>1, <2>6 DEF ResultArrives
  <2>7. CASE ContextEnds(t)
    BY <2>1, <2>7 DEF ContextEnds
  <2>8. CASE Settle(t)
    <3>1. CASE status[t] = "killed"
      BY <2>8, <3>1 DEF Settle
    <3>2. CASE status[t] # "killed"
      <4>1. status[t] = "running" /\ verdict[t] \in Ends
        BY <2>8, <3>2 DEF Settle, RunnerSound, TypeOK, BgTypeOK, TaskStatus, Ends
      <4>2. status' = [status EXCEPT ![t] = verdict[t]]
        BY <2>8, <3>2 DEF Settle
      <4>3. StatusMove
        BY <4>1, <4>2 DEF StatusMove, Moves, TaskStatus
      <4>4. QED
        BY <2>1, <4>3 DEF turnVars
    <3>3. QED
      BY <3>1, <3>2
  <2>9. CASE MarkNotified(t)
    BY <2>1, <2>9 DEF MarkNotified, Returns
  <2>10. CASE Report(t)
    BY <2>1, <2>10 DEF Report, Returns, Enqueue
  <2>11. CASE Watch(t)
    BY <2>1, <2>11 DEF Watch
  <2>12. CASE MarkStalled(t)
    BY <2>1, <2>12 DEF MarkStalled
  <2>13. CASE ReportStall(t)
    BY <2>1, <2>13 DEF ReportStall, Enqueue, StallNote
  <2>14. CASE Kill(t)
    BY <2>1, <2>14 DEF StatusMove, Moves, TaskStatus, Ends, Kill, turnVars
  <2>15. CASE KillCancels(t)
    BY <2>1, <2>15 DEF KillCancels
  <2>16. CASE Cleanup(t)
    BY <2>1, <2>16 DEF Cleanup
  <2>17. QED
    BY <2>2, <2>3, <2>4, <2>5, <2>6, <2>7, <2>8, <2>9, <2>10, <2>11, <2>12, <2>13, <2>14, <2>15, <2>16
       DEF RunnerStep, DogStep
<1>2. Trigger \/ UncountedSteps \/ (\E u \in Turns : Turn(u)) \/ UNCHANGED vars => UNCHANGED status
  BY OthersKeepTasks DEF vars, bgVars
<1>3. QED
  BY <1>1, <1>2 DEF Next

\* A step that puts notifications before an agent is a Tell.
LEMMA HeardIsTold ==
    ASSUME TypeOK, ReportInv, TypeOK', ReportInv', UNCHANGED status,
           heard \subseteq heard', notified \subseteq notified'
    PROVE  Abstract!Next \/ UNCHANGED <<status, Told>>
<1> DEFINE told(t) == t \in notified /\ EndNote(t) \in heard
           toldNext(t) == t \in notified' /\ EndNote(t) \in heard'
           ts == {t \in Tasks : toldNext(t) /\ ~ told(t)}
<1>1. \A t \in Tasks : Told[t] = IF told(t) THEN status[t] ELSE "nothing"
  BY ToldIs DEF ToldSound
<1>2. \A t \in Tasks : EndNote(t)' = EndNote(t)
  BY DEF EndNote
<1>3. \A t \in Tasks : Told'[t] = IF toldNext(t) THEN status[t] ELSE "nothing"
  <2>1. ToldSound'
    BY ToldIs, PTL
  <2>2. QED
    BY <1>2, <2>1 DEF ToldSound
<1>4. \A t \in Tasks : told(t) => toldNext(t)
  OBVIOUS
<1>5. \A t \in ts : status[t] \in Ends /\ Told[t] = "nothing"
  BY <1>1 DEF ReportInv, RunnerSound
<1>6. \A t \in Tasks : Told'[t] = IF t \in ts THEN status[t] ELSE Told[t]
  <2> HIDE DEF told, toldNext
  <2>1. QED
    BY <1>1, <1>3, <1>4
<1>7. Told' = [t \in Tasks |-> IF t \in ts THEN status[t] ELSE Told[t]]
  <2> HIDE DEF ts
  <2>1. Told' = [t \in Tasks |-> Told'[t]]
    BY DEF Told
  <2>2. QED
    BY <1>6, <2>1
<1>8. Abstract!Tell(ts)
  <2> HIDE DEF ts
  <2>1. QED
    BY <1>5, <1>7 DEF Abstract!Tell, Abstract!Ends, Ends
<1>9. ts \in SUBSET Tasks
  OBVIOUS
<1>10. QED
  BY <1>8, <1>9 DEF Abstract!Next

\* Every step of manager and turns is a step of TaskReports or leaves it alone.
LEMMA ReportsStep ==
    TypeOK /\ ReportInv /\ TypeOK' /\ ReportInv' /\ [Next]_vars
        => [Abstract!Next]_(Abstract!vars)
<1> SUFFICES ASSUME TypeOK, ReportInv, TypeOK', ReportInv', [Next]_vars
             PROVE  Abstract!Next \/ UNCHANGED <<status, Told>>
  BY DEF Abstract!vars
<1>1. CASE StatusMove /\ UNCHANGED heard
  <2>1. PICK t \in Tasks : \E from, to \in TaskStatus :
            /\ <<from, to>> \in Moves
            /\ status[t] = from
            /\ status' = [status EXCEPT ![t] = to]
    BY <1>1 DEF StatusMove
  <2>2. UNCHANGED Told
    BY <1>1 DEF Told
  <2>3. Abstract!Start(t) \/ Abstract!End(t) \/ Abstract!Kill(t)
    BY <2>1, <2>2 DEF Abstract!Start, Abstract!End, Abstract!Kill, Abstract!Move, Moves,
                      Abstract!Ends, Ends
  <2>4. QED
    BY <2>3 DEF Abstract!Next
<1>2. CASE UNCHANGED status
  <2>1. heard \subseteq heard' /\ notified \subseteq notified'
    BY NotesMoves, ReportedStays DEF NotesMove, ReportedKept, ReportInv
  <2>2. QED
    BY <1>2, <2>1, HeardIsTold
<1>3. QED
  BY <1>1, <1>2, StatusMoves DEF ReportInv

\* Manager and turns implement TaskReports: a task ends once, and how it ended
\* is told at most once, truthfully, and never of a killed task.
THEOREM ImplementsTaskReports == Spec => ReportsPromise
<1>1. Init => Abstract!Init
  BY DEF Init, BgInit, Abstract!Init, Told
<1>2. QED
  BY <1>1, ReportsStep, ReportInvariant, PTL DEF Spec, ReportsPromise, Abstract!Spec
-----------------------------------------------------------------------------
Under == {u \in Turns : turn[u] \in {"entered", "ready", "cli", "stepped"}}

\* The count is right, and there are finitely many turns to count.
DeliveryInv == OneDelivery /\ IsFiniteSet(Under)

\* A step that starts and ends neither a turn nor a delivery.
NoneLeaves ==
    /\ UNCHANGED refs
    /\ \A u \in Turns : turn'[u] \in {"entered", "ready", "cli", "stepped"}
                          <=> turn[u] \in {"entered", "ready", "cli", "stepped"}
    /\ Delivering' = Delivering

\* A step that starts and ends no delivery keeps what holds of them.
LEMMA NoneLeavesKeeps == DeliveryInv /\ NoneLeaves => DeliveryInv'
<1> SUFFICES ASSUME DeliveryInv, NoneLeaves PROVE DeliveryInv'
  OBVIOUS
<1>1. Under' = Under
  BY DEF NoneLeaves, Under
<1>2. refs = Cardinality(Under) + Delivering /\ Delivering <= 1 /\ IsFiniteSet(Under)
  BY DEF DeliveryInv, OneDelivery, Under
<1>3. refs' = Cardinality(Under') + Delivering' /\ Delivering' <= 1 /\ IsFiniteSet(Under')
  BY <1>1, <1>2 DEF NoneLeaves
<1>4. QED
  BY <1>3 DEF DeliveryInv, OneDelivery, Under

\* A turn enters.
LEMMA EnteringKeeps ==
    ASSUME TypeOK, DeliveryInv, NEW u \in Turns, TurnEnters(u)
    PROVE  DeliveryInv'
<1>1. u \notin Under /\ Under' = Under \cup {u}
  BY DEF TypeOK, TurnEnters, Under
<1>2. refs = Cardinality(Under) + Delivering /\ Delivering <= 1 /\ IsFiniteSet(Under)
  BY DEF DeliveryInv, OneDelivery, Under
<1>3. Delivering' = Delivering /\ Delivering \in Nat /\ refs' = refs + 1
  BY DEF TypeOK, TurnEnters, Delivering, TrigPhase
<1>4. Cardinality(Under') = Cardinality(Under) + 1 /\ IsFiniteSet(Under')
  BY <1>1, <1>2, FS_AddElement
<1>5. Cardinality(Under) \in Nat
  BY <1>2, FS_CardinalityType
<1>6. refs' = Cardinality(Under') + Delivering' /\ Delivering' <= 1
  BY <1>2, <1>3, <1>4, <1>5
<1>7. QED
  BY <1>4, <1>6 DEF DeliveryInv, OneDelivery, Under

\* A turn leaves.
LEMMA LeavingKeeps ==
    ASSUME TypeOK, DeliveryInv, NEW u \in Turns, TurnEnds(u) \/ TurnFails(u)
    PROVE  DeliveryInv'
<1>1. u \in Under /\ Under' = Under \ {u}
  BY DEF TypeOK, TurnEnds, TurnFails, AfterRelease, Under
<1>2. refs = Cardinality(Under) + Delivering /\ Delivering <= 1 /\ IsFiniteSet(Under)
  BY DEF DeliveryInv, OneDelivery, Under
<1>3. Delivering' = Delivering /\ Delivering \in Nat
  BY DEF TypeOK, TurnEnds, TurnFails, Delivering, TrigPhase
<1>4. Cardinality(Under') = Cardinality(Under) - 1 /\ IsFiniteSet(Under')
  BY <1>1, <1>2, FS_RemoveElement
<1>5. Cardinality(Under) \in Nat /\ Cardinality(Under') \in Nat
  BY <1>2, <1>4, FS_CardinalityType
<1>6. refs' = IF refs > 1 THEN refs - 1 ELSE 0
  BY DEF TurnEnds, TurnFails, Release
<1>7. refs' = Cardinality(Under') + Delivering' /\ Delivering' <= 1
  BY <1>2, <1>3, <1>4, <1>5, <1>6
<1>8. QED
  BY <1>4, <1>7 DEF DeliveryInv, OneDelivery, Under

\* A delivery enters when there is neither a turn nor another delivery, or leaves.
LEMMA DeliveringKeeps ==
    ASSUME TypeOK, DeliveryInv, TriggerEnters \/ TriggerLeaves
    PROVE  DeliveryInv'
<1>1. Under' = Under
  BY DEF TriggerEnters, TriggerLeaves, Under
<1>2. refs = Cardinality(Under) + Delivering /\ Delivering <= 1 /\ IsFiniteSet(Under)
  BY DEF DeliveryInv, OneDelivery, Under
<1>3. Cardinality(Under) \in Nat /\ Delivering \in Nat
  BY <1>2, FS_CardinalityType DEF TypeOK, Delivering, TrigPhase
<1>4. refs' = Cardinality(Under) + Delivering' /\ Delivering' <= 1
  <2>1. CASE TriggerEnters
    BY <1>2, <1>3, <2>1 DEF TypeOK, TriggerEnters, Goes, Delivering, TrigPhase
  <2>2. CASE TriggerLeaves
    <3>1. Delivering' = Delivering - 1
      BY <2>2 DEF TypeOK, TriggerLeaves, AfterRelease, Delivering, TrigPhase
    <3>2. refs' = IF refs > 1 THEN refs - 1 ELSE 0
      BY <2>2 DEF TriggerLeaves, Release
    <3>3. Delivering' \in Nat
      BY <2>2 DEF TypeOK, TriggerLeaves, AfterRelease, Delivering, TrigPhase
    <3>4. QED
      BY <1>2, <1>3, <3>1, <3>2, <3>3
  <2>3. QED
    BY <2>1, <2>2
<1>5. QED
  BY <1>1, <1>2, <1>4 DEF DeliveryInv, OneDelivery, Under

\* A delivery starts only from an idle session, so the invariant is inductive.
LEMMA DeliveryStep == TypeOK /\ DeliveryInv /\ [Next]_vars => DeliveryInv'
<1> SUFFICES ASSUME TypeOK, DeliveryInv, [Next]_vars PROVE DeliveryInv'
  OBVIOUS
<1> USE DEF NoneLeaves
<1>1. Background => NoneLeaves
  BY DEF Background, turnVars, Delivering
<1>2. UNCHANGED vars => NoneLeaves
  BY DEF vars, turnVars, Delivering
<1>3. ASSUME Trigger, ~ TriggerEnters, ~ TriggerLeaves PROVE NoneLeaves
  <2> USE DEF TypeOK, TrigPhase, Delivering
  <2>1. CASE TriggerLooks
    BY <2>1 DEF TriggerLooks, BgRest
  <2>2. CASE TriggerDefers
    BY <2>2 DEF TriggerDefers
  <2>3. CASE TriggerDrains
    BY <2>3 DEF TriggerDrains, Goes, Drain, BgRest
  <2>4. CASE DeliveryFails
    BY <2>4 DEF DeliveryFails, Goes, Requeue, BgRest
  <2>5. CASE DeliveryBegins
    BY <2>5 DEF DeliveryBegins, Goes
  <2>6. CASE DeliverySteps
    BY <2>6 DEF DeliverySteps, StepDrains, Drain, BgRest
  <2>7. CASE DeliveryEnds
    BY <2>7 DEF DeliveryEnds, Goes
  <2>8. CASE TriggerTakes
    BY <2>8 DEF TriggerTakes, TakeDeferred
  <2>9. CASE TriggerLooksAgain
    BY <2>9 DEF TriggerLooksAgain, WakeAgain, BgRest
  <2>10. QED
    BY <1>3, <2>1, <2>2, <2>3, <2>4, <2>5, <2>6, <2>7, <2>8, <2>9 DEF Trigger
<1>4. ASSUME NEW u \in Turns, Turn(u), ~ TurnEnters(u), ~ TurnEnds(u), ~ TurnFails(u) PROVE NoneLeaves
  <2> USE DEF TypeOK, Delivering
  <2>1. CASE TurnResolves(u)
    BY <2>1 DEF TurnResolves
  <2>2. CASE TurnSteps(u)
    BY <2>2 DEF TurnSteps, StepDrains, Drain, BgRest
  <2>3. CASE TurnTakes(u)
    BY <2>3 DEF TurnTakes, TakeDeferred
  <2>4. CASE TurnLooks(u)
    BY <2>4 DEF TurnLooks, WakeAgain, BgRest
  <2>5. QED
    BY <1>4, <2>1, <2>2, <2>3, <2>4 DEF Turn
<1>5. UncountedSteps => NoneLeaves
  BY DEF UncountedSteps, Delivering
<1>6. QED
  BY <1>1, <1>2, <1>3, <1>4, <1>5, NoneLeavesKeeps, EnteringKeeps, LeavingKeeps, DeliveringKeeps
     DEF Next

\* Deliveries never overlap, and the session is taken for idle exactly when no turn
\* and no delivery is under way.
THEOREM DeliveriesNeverOverlap == Spec => []OneDelivery
<1>1. Init => DeliveryInv
  <2> SUFFICES ASSUME Init PROVE DeliveryInv
    OBVIOUS
  <2>1. Under = {}
    BY DEF Init, Under
  <2>2. Delivering = 0 /\ refs = 0
    BY DEF Init, Delivering, TrigPhase
  <2>3. Cardinality(Under) = 0 /\ IsFiniteSet(Under)
    BY <2>1, FS_EmptySet
  <2>4. QED
    BY <2>2, <2>3 DEF DeliveryInv, OneDelivery, Under
<1>2. DeliveryInv => OneDelivery
  BY DEF DeliveryInv
<1>3. QED
  BY <1>1, <1>2, DeliveryStep, TypeCorrect, PTL DEF Spec
=============================================================================
