------------------------------- MODULE Projector -------------------------------
(***************************************************************************)
(* How a run reaches its room (orchestrator_projector.go): StartRun and    *)
(* every reconcile of the run take a snapshot, list the events after the   *)
(* high-water mark projSeq, post one message for each that should surface, *)
(* and raise the mark.  The attempts run on their own (DispatchAsync), so  *)
(* projections happen when the room's page polls (pages/agent-hub/index.   *)
(* vue), which it does every 1.5 seconds, whether or not its last request  *)
(* has returned, until it sees that the run is over.                       *)
(*                                                                         *)
(* Of the orchestrator's own code (module Orchestrator) this keeps what a  *)
(* projection can tell apart: a status is written first and its event is   *)
(* appended afterwards, in later steps.  Which goroutine asks for which    *)
(* status, and when, is left open: any update that UpdateTaskStatus can    *)
(* report is taken, in any order, so every property here holds of more     *)
(* runs than the code has.  The model begins when the plan has been logged;*)
(* a projection that lists it with a snapshot from before all its tasks    *)
(* were inserted is left out.                                              *)
(***************************************************************************)
EXTENDS EventLog

CONSTANTS
    Requests,      \* requests that can be in projectRun at once
    MaxExtras      \* bound: failing statements and restarts

ASSUME ProjectorAssumption == MaxExtras \in Nat

VARIABLES
    outcome,       \* of each task, as the status of its row tells it
    over,          \* the run's status is terminal
    mark,          \* projSeq[run]
    request,       \* the projections under way
    posted,        \* events that this server has posted a message for
    unposted,      \* events whose message could not be created
    skipped,       \* failures listed with a snapshot that does not show the task as failed
    told,          \* events posted by the projections that have returned
    left           \* what is left of MaxExtras

runVars == <<outcome, over>>
roomVars == <<mark, request, posted, unposted, skipped, told>>
vars == <<logVars, runVars, roomVars, left>>
-----------------------------------------------------------------------------
EventSeqs == Nat \ {0}

\* The statuses that an update of a task may ask for, and what a room can tell of them.
Statuses == {"ready", "running", "succeeded", "failed", "blocked", "cancelled"}
Outcomes == {"open", "succeeded", "failed"}
OutcomeOf(s) ==
    CASE s = "succeeded"                          -> "succeeded"
      [] s \in {"failed", "blocked", "cancelled"} -> "failed"
      [] OTHER                                    -> "open"

Idle == [at |-> "idle", failed |-> {}, after |-> 0, todo |-> {}, top |-> 0,
         mine |-> {}, old |-> {}]

Request == [at     : {"idle", "mark", "list", "post"},
            failed : SUBSET Tasks,          \* tasks that the snapshot shows as failed
            after  : Nat,
            todo   : SUBSET EventSeqs,      \* events to post a message for
            top    : Nat,                   \* maxSeq
            mine   : SUBSET EventSeqs,      \* events it has posted (for the properties)
            old    : SUBSET EventSeqs]      \* told, when it read the mark (likewise)

TypeOK ==
    /\ LogTypeOK
    /\ outcome \in [Tasks -> Outcomes]
    /\ over \in BOOLEAN
    /\ mark \in Nat
    /\ request \in [Requests -> Request]
    /\ posted \subseteq EventSeqs /\ unposted \subseteq EventSeqs
    /\ skipped \subseteq EventSeqs /\ told \subseteq EventSeqs
    /\ left \in Nat

Init ==
    /\ LogInit
    /\ outcome = [t \in Tasks |-> "open"]
    /\ over = FALSE
    /\ mark = 0
    /\ request = [r \in Requests |-> Idle]
    /\ posted = {} /\ unposted = {} /\ skipped = {} /\ told = {}
    /\ left = MaxExtras

Extra == left > 0 /\ left' = left - 1
-----------------------------------------------------------------------------
(* The run *)

\* The event that follows an UpdateTaskStatus(to).  A failure is logged alike whether
\* or not a retry follows.
EventsOf(to) ==
    CASE to = "running"   -> {"shown"}
      [] to = "succeeded" -> {"succeeded", "shown"}
      [] to = "failed"    -> {"failed"}
      [] OTHER            -> {"silent"}

\* UpdateTaskStatus reports no error: it has made the change (an open task moves, and a
\* failed or blocked one is made ready again), or found the status there already, or
\* lost its compare-and-set to a terminal status.  The caller goes on to append the
\* event in any case.
Updates(w, t, to) ==
    /\ \/ /\ outcome[t] = "open" \/ (outcome[t] = "failed" /\ to = "ready")
          /\ outcome' = [outcome EXCEPT ![t] = OutcomeOf(to)]
       \/ outcome[t] # "open" /\ UNCHANGED outcome
    /\ \E kind \in EventsOf(to) : Log(w, t, kind)
    /\ UNCHANGED <<rows, over, roomVars, left>>

\* A provider's onEvent: also after a poll or CancelRun has ended the task.
Outputs(w, t) ==
    /\ \E kind \in {"result", "shown", "silent"} : Log(w, t, kind)
    /\ UNCHANGED <<rows, runVars, roomVars, left>>

\* transitionRun, likewise: the run moves on, or ends, or has ended.  The list of tasks
\* it was decided from may be out of date.  Only the end of a run that completes or
\* fails is shown.
RunMoves(w) ==
    /\ \/ over' = over /\ Log(w, Run, "silent")
       \/ over' = TRUE /\ \E kind \in {"shown", "silent"} : Log(w, Run, kind)
    /\ UNCHANGED <<rows, outcome, roomVars, left>>

Appends(w) ==
    /\ \/ (ReadMax(w) \/ Insert(w) \/ Conflict(w)) /\ UNCHANGED left
       \/ InsertFails(w) /\ Extra
    /\ UNCHANGED <<runVars, roomVars>>
-----------------------------------------------------------------------------
(* The projections *)

Goes(r, req) ==
    /\ request' = [request EXCEPT ![r] = req]
    /\ UNCHANGED <<logVars, runVars>>

\* A request for a reconcile, from its GetSnapshot on.
Snapshot(r) ==
    /\ request[r].at = "idle"
    /\ Goes(r, [Idle EXCEPT !.at = "mark",
                            !.failed = {t \in Tasks : outcome[t] = "failed"}])
    /\ UNCHANGED <<mark, posted, unposted, skipped, told, left>>

\* Mutated: the mark is not read.
ReadZero(r) ==
    /\ request[r].at = "mark"
    /\ Goes(r, [request[r] EXCEPT !.at = "list", !.old = told])
    /\ UNCHANGED <<mark, posted, unposted, skipped, told, left>>

ReadMark(r) ==
    /\ request[r].at = "mark"
    /\ Goes(r, [request[r] EXCEPT !.at = "list", !.after = mark, !.old = told])
    /\ UNCHANGED <<mark, posted, unposted, skipped, told, left>>

\* roomMessageForEvent: a failure surfaces only if the snapshot shows it.
Surfaces(row, failed) ==
    \/ row.kind \in Shown \cup {"succeeded"}
    \/ row.kind = "failed" /\ row.of \in failed

\* The success repeats an output that is listed with it.
Repeated(row, page) ==
    /\ row.kind = "succeeded"
    /\ \E q \in page : q.kind = "result" /\ q.of = row.of /\ q.seq < row.seq

\* runEventsToMessages
Messages(page, failed) ==
    {row.seq : row \in {q \in page : Surfaces(q, failed) /\ ~ Repeated(q, page)}}

Last(page) == CHOOSE n \in {row.seq : row \in page} : \A row \in page : row.seq <= n

\* The failures of a page that the snapshot does not show as such.
SkippedOf(page, failed) ==
    {row.seq : row \in {q \in page : q.kind = "failed" /\ ~ Surfaces(q, failed)}}

Posting(req, todo, top) ==
    [req EXCEPT !.at = "post", !.failed = {}, !.after = 0, !.todo = todo, !.top = top]

\* Mutated: with nothing to post it returns before the mark is raised.
ListInVain(r) ==
    /\ request[r].at = "list"
    /\ LET page == ListEvents(request[r].after)
           todo == Messages(page, request[r].failed)
       IN  /\ Goes(r, IF todo = {} THEN Idle ELSE Posting(request[r], todo, Last(page)))
           /\ skipped' = skipped \cup SkippedOf(page, request[r].failed)
    /\ UNCHANGED <<mark, posted, unposted, told, left>>

List(r) ==
    /\ request[r].at = "list"
    /\ LET page == ListEvents(request[r].after)
           todo == Messages(page, request[r].failed)
       IN  /\ Goes(r, IF page = {} THEN Idle ELSE Posting(request[r], todo, Last(page)))
           /\ skipped' = skipped \cup SkippedOf(page, request[r].failed)
    /\ UNCHANGED <<mark, posted, unposted, told, left>>

ListFails(r) ==
    /\ request[r].at = "list"
    /\ Extra
    /\ Goes(r, Idle)
    /\ UNCHANGED <<mark, posted, unposted, skipped, told>>

\* CreateMessage for the next event.
Post(r) ==
    /\ request[r].at = "post"
    /\ \E n \in request[r].todo :
        /\ \A m \in request[r].todo : n <= m
        /\ Goes(r, [request[r] EXCEPT !.todo = @ \ {n}, !.mine = @ \cup {n}])
        /\ posted' = posted \cup {n}
    /\ UNCHANGED <<mark, unposted, skipped, told, left>>

\* It fails, is logged, and the loop goes on.
PostFails(r) ==
    /\ request[r].at = "post"
    /\ Extra
    /\ \E n \in request[r].todo :
        /\ \A m \in request[r].todo : n <= m
        /\ Goes(r, [request[r] EXCEPT !.todo = @ \ {n}])
        /\ unposted' = unposted \cup {n}
    /\ UNCHANGED <<mark, posted, skipped, told>>

\* Mutated: the mark is raised to the end of the log.
StoreEnd(r) ==
    /\ request[r].at = "post"
    /\ request[r].todo = {}
    /\ mark' = IF LastSeq > mark THEN LastSeq ELSE mark
    /\ told' = told \cup request[r].mine
    /\ Goes(r, Idle)
    /\ UNCHANGED <<posted, unposted, skipped, left>>

\* The mark is raised, never lowered; the request returns.
Store(r) ==
    /\ request[r].at = "post"
    /\ request[r].todo = {}
    /\ mark' = IF request[r].top > mark THEN request[r].top ELSE mark
    /\ told' = told \cup request[r].mine
    /\ Goes(r, Idle)
    /\ UNCHANGED <<posted, unposted, skipped, left>>

Serve(r) ==
    ReadMark(r) \/ List(r) \/ ListFails(r) \/ Post(r) \/ PostFails(r) \/ Store(r)

\* The server restarts: projSeq, the requests and the goroutines are gone.
Restart ==
    /\ Extra
    /\ append' = [w \in Writers |-> NoCall]
    /\ mark' = 0
    /\ request' = [r \in Requests |-> Idle]
    /\ posted' = {} /\ unposted' = {} /\ skipped' = {} /\ told' = {}
    /\ UNCHANGED <<rows, runVars>>

Next ==
    \/ \E w \in Writers, t \in Tasks :
        \/ \E to \in Statuses : Updates(w, t, to)
        \/ Outputs(w, t)
    \/ \E w \in Writers : RunMoves(w) \/ Appends(w)
    \/ \E r \in Requests : Snapshot(r) \/ Serve(r)
    \/ Restart

Spec == Init /\ [][Next]_vars

\* Until the run is over, a page of the room polls, and the server gets on with one or
\* other of its requests; nothing is said of the run, which may take as long as it likes.
FairSpec ==
    /\ Spec
    /\ WF_vars(~ over /\ \E r \in Requests : Snapshot(r))
    /\ WF_vars(\E r \in Requests : Serve(r))
-----------------------------------------------------------------------------
(* Properties *)

\* With the messages of "done", an event needs no message any more: it has its own,
\* or a success has that of the output it repeats, or it never surfaces, or it is a
\* failure that was listed with a snapshot not showing it.
Settled(row, done) ==
    \/ row.seq \in done \cup skipped
    \/ row.kind = "silent"
    \/ row.kind = "succeeded" /\ \E q \in rows : /\ q.kind = "result" /\ q.of = row.of
                                                 /\ q.seq \in done

\* No event at or below the mark is passed over: its message was posted or could not
\* be created, or it needs none.  Pages that overlap, pages cut off by the limit and
\* projections that overtake one another raise the mark over nothing they have not
\* listed.  (A failure is judged once, by the snapshot of the projection that lists it,
\* and that may be older than the failure.)
NothingPassedOver ==
    \A row \in rows : row.seq <= mark => Settled(row, posted \cup unposted)

\* Only projections that overlap post an event twice: what a projection has posted that
\* had returned before this one read the mark is not posted by this one again.
OnlyOverlapsRepeat ==
    \A r \in Requests : request[r].todo \cap request[r].old = {}

\* No event is posted twice in the life of a server, which is what the comments of
\* projectRun and of projSeq say of the mark.
NoRepost ==
    \A r \in Requests : request[r].todo \cap posted = {}

\* Until the run is over the mark reaches the end of the log, again and again: pages
\* of events that do not surface, requests that fail and restarts hold nothing up for
\* good.
EventsReachRoom == []<>(over \/ mark = LastSeq)
=============================================================================
