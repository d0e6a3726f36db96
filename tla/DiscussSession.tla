---------------------------- MODULE DiscussSession ----------------------------
(***************************************************************************)
(* A discuss-mode session (pipeline/driver.go, pipeline.go).  Every worker *)
(* that handles a message pushes its event into the session's pipeline and *)
(* sends the rendered context to the session's goroutine, which asks the   *)
(* agent once per batch of contexts and remembers in lastProcessedMs up to *)
(* where it has asked.  The goroutine exits when idle and the next message *)
(* starts another, which knows only when the replies in the database were  *)
(* stored: by the database's clock, on SQLite in whole seconds.            *)
(*                                                                         *)
(* The pipeline only grows, so a rendered context is the number of events  *)
(* pushed before it, and an event is the time at which it was received:    *)
(* workers push out of that order, and two events may share a millisecond. *)
(***************************************************************************)
EXTENDS InboundWorkers

CONSTANTS
    MaxEvents,    \* bound: events of the session
    MaxSessions,  \* bound: goroutines started for it
    RcCap         \* capacity of rcCh

ASSUME DiscussAssumption ==
    MaxEvents \in Nat /\ MaxSessions \in Nat /\ RcCap \in Nat \ {0}

VARIABLES
    now,       \* the clock, in milliseconds
    order,     \* ReceivedAtMs of the events, as the pipeline holds them
    handler,   \* what each worker does: at, time of its event, context, goroutine
    started,   \* number of goroutines started; the last one is the current
    listed,    \* whether DiscussDriver.sessions has it
    driver,    \* where it stands in runSession
    rcCh,      \* its channel of contexts
    rc,        \* the context it handles
    lastProcessedMs,
    stored,    \* created_at of the latest reply of the session, 0 if none can be read
    asked      \* for each event, in how many runs of the current goroutine it was new

discussVars == <<now, order, handler, started, listed, driver, rcCh, rc,
                 lastProcessedMs, stored, asked>>
-----------------------------------------------------------------------------
Events == 1 .. MaxEvents

HandlerPlaces == {"free", "push", "lookup", "send", "full", "resend"}

DiscussTypeOK ==
    /\ now \in Nat
    /\ order \in Seq(Nat)
    /\ handler \in [Workers -> [at : HandlerPlaces, time : Nat, rc : Nat, to : Nat]]
    /\ started \in Nat
    /\ listed \in BOOLEAN
    /\ driver \in {"none", "listening", "loading", "asking", "exiting"}
    /\ rcCh \in Seq(Nat) /\ Len(rcCh) <= RcCap
    /\ rc \in Nat /\ rc <= Len(order)
    /\ lastProcessedMs \in Nat /\ stored \in Nat
    /\ asked \in [Events -> Nat]

Nobody == [at |-> "free", time |-> 0, rc |-> 0, to |-> 0]

DiscussInit ==
    /\ now = 1
    /\ order = << >>
    /\ handler = [w \in Workers |-> Nobody]
    /\ started = 0
    /\ listed = FALSE
    /\ driver = "none"
    /\ rcCh = << >>
    /\ rc = 0
    /\ lastProcessedMs = 0
    /\ stored = 0
    /\ asked = [e \in Events |-> 0]

\* LatestExternalEventMs(rc, after) # 0: the context has an event received later.
NewIn(k, after) == {e \in 1 .. k : order[e] > after}

\* latestRCReceivedAtMs, and the cursor after it.
Consumed(k, after) ==
    CHOOSE t \in {after} \cup {order[e] : e \in 1 .. k} :
        \A s \in {after} \cup {order[e] : e \in 1 .. k} : s <= t

DriverRest == UNCHANGED <<now, order, started, listed, driver, rc, lastProcessedMs,
                          stored, asked>>

Pending == Cardinality({w \in Workers : handler[w].at = "push"})

\* A message of the room is received, in this millisecond or a later one.
Received(w) ==
    /\ handler[w].at = "free"
    /\ Len(order) + Pending < MaxEvents
    /\ \E t \in {now, now + 1} :
        /\ now' = t
        /\ handler' = [handler EXCEPT ![w] =
                          [at |-> "push", time |-> t, rc |-> 0, to |-> 0]]
    /\ UNCHANGED <<order, started, listed, driver, rcCh, rc, lastProcessedMs, stored,
                   asked>>

\* PushEvent, under the pipeline's lock.
PushEvent(w) ==
    /\ handler[w].at = "push"
    /\ order' = Append(order, handler[w].time)
    /\ handler' = [handler EXCEPT ![w].at = "lookup", ![w].rc = Len(order) + 1]
    /\ UNCHANGED <<now, started, listed, driver, rcCh, rc, lastProcessedMs, stored,
                   asked>>

\* NotifyRC finds the session's goroutine or starts one.
Lookup(w) ==
    /\ handler[w].at = "lookup"
    /\ \/ /\ listed
          /\ handler' = [handler EXCEPT ![w].at = "send", ![w].to = started]
          /\ UNCHANGED <<started, listed, driver, rcCh, rc, lastProcessedMs, asked>>
       \/ /\ ~ listed
          /\ started < MaxSessions
          /\ handler' = [handler EXCEPT ![w].at = "send", ![w].to = started + 1]
          /\ started' = started + 1
          /\ listed' = TRUE
          /\ driver' = "listening"
          /\ rcCh' = << >>
          /\ rc' = 0
          /\ lastProcessedMs' = 0
          /\ asked' = [e \in Events |-> 0]
    /\ UNCHANGED <<now, order, stored>>

\* What is sent to a goroutine that is gone goes to a channel nobody reads.
Gone(w) == handler[w].to # started
Leave(w, place) ==
    handler' = [handler EXCEPT ![w] = IF place = "free" THEN Nobody ELSE [@ EXCEPT !.at = place]]

\* The three selects of NotifyRC, no lock held: send; if the channel is full take
\* the oldest out; send again, or give up.
Send(w) ==
    /\ handler[w].at = "send"
    /\ IF Gone(w) \/ Len(rcCh) < RcCap THEN Leave(w, "free") ELSE Leave(w, "full")
    /\ rcCh' = IF Gone(w) \/ Len(rcCh) >= RcCap THEN rcCh ELSE Append(rcCh, handler[w].rc)
    /\ DriverRest

DropOldest(w) ==
    /\ handler[w].at = "full"
    /\ Leave(w, "resend")
    /\ rcCh' = IF Gone(w) \/ rcCh = << >> THEN rcCh ELSE Tail(rcCh)
    /\ DriverRest

Resend(w) ==
    /\ handler[w].at = "resend"
    /\ Leave(w, "free")
    /\ rcCh' = IF Gone(w) \/ Len(rcCh) >= RcCap THEN rcCh ELSE Append(rcCh, handler[w].rc)
    /\ DriverRest

\* runSession takes a context and whatever has come after it; the last one
\* counts, be it older.  Nothing new in it: it goes on listening.
Receive ==
    /\ driver = "listening"
    /\ rcCh # << >>
    /\ rc' = rcCh[Len(rcCh)]
    /\ rcCh' = << >>
    /\ driver' = IF NewIn(rc', lastProcessedMs) = {} THEN "listening" ELSE "loading"
    /\ UNCHANGED <<now, order, handler, started, listed, lastProcessedMs, stored, asked>>

\* The idle timer fires, whatever is in the channel by then.
IdleTimeout ==
    /\ driver = "listening"
    /\ driver' = "exiting"
    /\ UNCHANGED <<now, order, handler, started, listed, rcCh, rc, lastProcessedMs,
                   stored, asked>>

\* The deferred delete; a context sent until then is lost.
Exit ==
    /\ driver = "exiting"
    /\ driver' = "none"
    /\ listed' = FALSE
    /\ UNCHANGED <<now, order, handler, started, rcCh, rc, lastProcessedMs, stored, asked>>

\* handleReplyWithAgent with the replies it loaded: a new goroutine starts from
\* the latest of them; then the agent's run, unless nothing is new after all.
Ask(replies) ==
    LET from == IF lastProcessedMs = 0 THEN replies ELSE lastProcessedMs
    IN  /\ lastProcessedMs' = from
        /\ driver' = IF NewIn(rc, from) = {} THEN "listening" ELSE "asking"
        /\ asked' = [e \in Events |-> IF e \in NewIn(rc, from) THEN asked[e] + 1 ELSE asked[e]]

\* loadTurnResponses; when it fails it looks as if there had been no reply ever.
Load ==
    /\ driver = "loading"
    /\ Ask(stored) \/ Ask(0)
    /\ UNCHANGED <<now, order, handler, started, listed, rcCh, rc, stored>>

\* ResolveRunConfig fails: the cursor stays, and the context is given up.
ResolveFails ==
    /\ driver = "loading"
    /\ lastProcessedMs' = IF lastProcessedMs = 0 THEN stored ELSE lastProcessedMs
    /\ driver' = "listening"
    /\ UNCHANGED <<now, order, handler, started, listed, rcCh, rc, stored, asked>>

\* The run has ended and StoreRound has stored its messages, of which some can be read
\* as replies.  The database's clock dates them: it may be behind the clock that dates
\* the events, be cut off to seconds, or be ahead.
Answered ==
    /\ driver = "asking"
    /\ stored' \in stored .. now + 1
    /\ lastProcessedMs' = Consumed(rc, lastProcessedMs)
    /\ driver' = "listening"
    /\ UNCHANGED <<now, order, handler, started, listed, rcCh, rc, asked>>

\* Mutated: the cursor moves only with a reply that was stored.
NothingStoredStays ==
    /\ driver = "asking"
    /\ driver' = "listening"
    /\ UNCHANGED <<now, order, handler, started, listed, rcCh, rc, lastProcessedMs, stored,
                   asked>>

\* The run gave no messages, or StoreRound failed, or none can be read as a reply; the
\* cursor moves all the same.
NothingStored ==
    /\ driver = "asking"
    /\ lastProcessedMs' = Consumed(rc, lastProcessedMs)
    /\ driver' = "listening"
    /\ UNCHANGED <<now, order, handler, started, listed, rcCh, rc, stored, asked>>

RunSession ==
    \/ Receive \/ IdleTimeout \/ Exit \/ Load \/ ResolveFails \/ Answered \/ NothingStored

Notify(w) ==
    \/ Received(w) \/ PushEvent(w) \/ Lookup(w) \/ Send(w) \/ DropOldest(w) \/ Resend(w)

DiscussNext == RunSession \/ \E w \in Workers : Notify(w)
-----------------------------------------------------------------------------
(* Properties *)

\* A goroutine puts no event to the agent as new a second time, whatever is dropped from
\* its channel or comes out of order, and whether or not the reply was stored.  (The next
\* goroutine may, for the database's clock tells it where this one had come to.)
AskedOnce == \A e \in Events : asked[e] <= 1
=============================================================================
