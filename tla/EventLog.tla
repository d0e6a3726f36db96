-------------------------------- MODULE EventLog --------------------------------
(***************************************************************************)
(* The events of one run (orchestrator/sql_store.go, AppendEvent and       *)
(* ListEvents).  AppendEvent reads MAX(seq) and inserts MAX(seq) + 1; on   *)
(* Postgres two goroutines may read the same maximum, and then the one     *)
(* that inserts second violates UNIQUE (run_id, seq) and begins again.     *)
(* Its callers ignore what it returns, so an event may be given up.        *)
(***************************************************************************)
EXTENDS Integers, FiniteSets

CONSTANTS
    Tasks,       \* tasks of the run
    Run,         \* stands for the run itself in an event without a task
    Writers,     \* goroutines that may be appending an event at once
    MaxTries,    \* maxRetries of AppendEvent
    ListLimit,   \* rows that ListEvents returns at most
    MaxEvents    \* bound: events that the run has

ASSUME LogAssumption ==
    /\ Run \notin Tasks
    /\ IsFiniteSet(Writers)
    /\ MaxTries \in Nat \ {0} /\ ListLimit \in Nat \ {0} /\ MaxEvents \in Nat

VARIABLES
    rows,        \* agent_hub_run_events
    append       \* the call of AppendEvent that each goroutine is in

logVars == <<rows, append>>
-----------------------------------------------------------------------------
\* The events, by what a room does with them: "shown" surfaces with a text of its own,
\* "result" is an output whose text a success of its task may repeat, "succeeded" a
\* success with such a text, "failed" a task_failed or a task_timed_out, and "silent"
\* an event that never surfaces.
Shown == {"shown", "result"}
Kinds == Shown \cup {"succeeded", "failed", "silent"}

Alone == {"shown", "silent"}

Subjects == Tasks \cup {Run}

Row == [seq : Nat \ {0}, kind : Kinds, of : Subjects]
Call == [kind : Kinds \cup {"none"}, of : Subjects, seq : Nat, tries : 0 .. MaxTries - 1]
NoCall == [kind |-> "none", of |-> Run, seq |-> 0, tries |-> 0]

LogTypeOK ==
    /\ IsFiniteSet(rows) /\ rows \subseteq Row
    /\ append \in [Writers -> Call]

\* StartRun has logged the plan.  The events before it (run_created and a task_created
\* for each task) never surface and are left out.
LogInit ==
    /\ rows = {[seq |-> 1, kind |-> "shown", of |-> Run]}
    /\ append = [w \in Writers |-> NoCall]

Seqs == {r.seq : r \in rows}

\* COALESCE(MAX(seq), 0).
LastSeq == CHOOSE n \in Seqs \cup {0} : \A m \in Seqs \cup {0} : m <= n

Quiet(w) == append[w].kind = "none"

\* The part of a step that begins to append an event about s; the subject of one that
\* is read for itself does not matter and is left out.
Log(w, s, kind) ==
    /\ Quiet(w)
    /\ Cardinality(rows) + Cardinality({v \in Writers : ~ Quiet(v)}) < MaxEvents
    /\ append' = [append EXCEPT ![w] = [kind |-> kind, seq |-> 0, tries |-> 0,
                                         of |-> IF kind \in Alone THEN Run ELSE s]]

Returns(w) == append' = [append EXCEPT ![w] = NoCall]

ReadMax(w) ==
    /\ ~ Quiet(w)
    /\ append[w].seq = 0
    /\ append' = [append EXCEPT ![w].seq = LastSeq + 1]
    /\ UNCHANGED rows

\* Mutated: the table has no UNIQUE (run_id, seq).
InsertAnyway(w) ==
    /\ append[w].seq # 0
    /\ rows' = rows \cup {[seq |-> append[w].seq, kind |-> append[w].kind, of |-> append[w].of]}
    /\ Returns(w)

Insert(w) ==
    /\ append[w].seq # 0
    /\ append[w].seq \notin Seqs
    /\ rows' = rows \cup {[seq |-> append[w].seq, kind |-> append[w].kind, of |-> append[w].of]}
    /\ Returns(w)

\* A unique violation: read again, or give the event up after MaxTries.
Conflict(w) ==
    /\ append[w].seq # 0
    /\ append[w].seq \in Seqs
    /\ IF append[w].tries + 1 < MaxTries
       THEN append' = [append EXCEPT ![w].seq = 0, ![w].tries = @ + 1]
       ELSE Returns(w)
    /\ UNCHANGED rows

\* Mutated: any other error is retried too, and not counted against the limit.
InsertRetried(w) ==
    /\ append[w].seq # 0
    /\ append' = [append EXCEPT ![w].seq = 0, ![w].tries = @ + 1]
    /\ UNCHANGED rows

\* Any other error of the statement.
InsertFails(w) == ~ Quiet(w) /\ Returns(w) /\ UNCHANGED rows

\* ListEvents: the first rows after a sequence number.
ListEvents(after) ==
    {r \in rows : /\ r.seq > after
                  /\ Cardinality({q \in rows : after < q.seq /\ q.seq < r.seq}) < ListLimit}
-----------------------------------------------------------------------------
\* Sequence numbers are 1, 2, 3 ... without a gap or a repetition, so an event is
\* never inserted below one that a reader has seen.
LogDense == Seqs = 1 .. Cardinality(rows)
=============================================================================
