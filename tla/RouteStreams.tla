----------------------------- MODULE RouteStreams -----------------------------
(***************************************************************************)
(* One chat route under several inbound workers (channel/inbound.go,       *)
(* channel/inbound/channel.go, dispatcher.go).  While an agent's stream is *)
(* active for the route, a message is injected into it (/btw, the          *)
(* default), queued behind it (/next) or given a stream of its own (/now). *)
(* RouteDispatcher decides under its lock, but a handler asks it twice,    *)
(* and everything else may happen in between.                              *)
(*                                                                         *)
(* A stream is named by the message it answers.  The handler of a queued   *)
(* message runs inside the handler of the stream that released it, so a    *)
(* worker carries the messages it has yet to handle: those of the          *)
(* innermost call come first.                                              *)
(***************************************************************************)
EXTENDS InboundWorkers, Functions

CONSTANTS
    Msgs,        \* messages that trigger the assistant on this route
    NoMsg,
    InjectCap    \* injectChBuffer

ASSUME RouteAssumption == NoMsg \notin Msgs /\ InjectCap \in Nat \ {0}

VARIABLES
    mode,         \* DetectMode of each message, "none" before it arrives
    worker,       \* what each worker does: at, msg, todo
    active,       \* routeState.active
    injectCh,     \* routeState.injectCh
    queue,        \* routeState.queue
    late,         \* messages queued when no stream was left to release them
    stoppable,    \* the stream whose cancel function activeStreams holds
    forwarding,   \* streams whose forwarder goroutine reads injectCh
    box,          \* agentInjectCh of each stream, with what its forwarder holds
    fate          \* how each message ended

routeVars == <<mode, worker, active, injectCh, queue, late, stoppable, forwarding,
               box, fate>>
-----------------------------------------------------------------------------
Modes == {"inject", "queue", "parallel"}
Fates == {"pending", "answered", "heard", "failed", "drained"}

\* Where a worker stands in HandleInbound; "free" is outside.
Places == {"free", "look", "inject", "enqueue", "start", "register", "stream", "run",
           "unwind", "cancel"}

RouteTypeOK ==
    /\ mode \in [Msgs -> Modes \cup {"none"}]
    /\ worker \in [Workers -> [at : Places, msg : Msgs \cup {NoMsg}, todo : Seq(Msgs)]]
    /\ \A w \in Workers : worker[w].at # "free" => worker[w].msg \in Msgs
    /\ active \in BOOLEAN
    /\ injectCh \in Seq(Msgs) /\ Len(injectCh) <= InjectCap
    /\ queue \in Seq(Msgs)
    /\ late \subseteq Msgs
    /\ stoppable \in Msgs \cup {NoMsg}
    /\ forwarding \subseteq Msgs
    /\ box \in [Msgs -> Seq(Msgs)]
    /\ fate \in [Msgs -> Fates]

Free == [at |-> "free", msg |-> NoMsg, todo |-> << >>]

RouteInit ==
    /\ mode = [m \in Msgs |-> "none"]
    /\ worker = [w \in Workers |-> Free]
    /\ active = FALSE
    /\ injectCh = << >>
    /\ queue = << >>
    /\ late = {}
    /\ stoppable = NoMsg
    /\ forwarding = {}
    /\ box = [m \in Msgs |-> << >>]
    /\ fate = [m \in Msgs |-> "pending"]

\* A stream that called MarkActive and has not called MarkDone.
InFlight(w) ==
    /\ worker[w].at \in {"register", "stream", "run", "unwind"}
    /\ mode[worker[w].msg] # "parallel"

\* HandleInbound returns, into the loop of drainQueue when that called it.
Return(w, todo) ==
    worker' = [worker EXCEPT ![w] =
                  IF todo = << >> THEN Free
                  ELSE [at |-> "look", msg |-> Head(todo), todo |-> Tail(todo)]]

Moves(w, place) == worker' = [worker EXCEPT ![w].at = place]
Settle(m, f) == fate' = [fate EXCEPT ![m] = f]

\* A worker takes a message from inboundQueue; HandleInbound detects its mode.
Arrive(w) ==
    /\ worker[w].at = "free"
    /\ \E m \in Msgs : \E k \in Modes :
        /\ mode[m] = "none"
        /\ mode' = [mode EXCEPT ![m] = k]
        /\ worker' = [worker EXCEPT ![w] = [at |-> "look", msg |-> m, todo |-> << >>]]
    /\ UNCHANGED <<active, injectCh, queue, late, stoppable, forwarding, box, fate>>

\* HandleInbound gives the message up before it asks: the route cannot be resolved, the
\* ACL denies it, or cannot say.  A message from the queue passes these once more.
Refuse(w) ==
    /\ worker[w].at = "look"
    /\ Settle(worker[w].msg, "failed")
    /\ Return(w, worker[w].todo)
    /\ UNCHANGED <<mode, active, injectCh, queue, late, stoppable, forwarding, box>>

\* IsActive, which /now does not ask.
Look(w) ==
    /\ worker[w].at = "look"
    /\ LET k == mode[worker[w].msg]
       IN  Moves(w, IF k = "parallel" \/ ~ active THEN "start"
                    ELSE IF k = "inject" THEN "inject" ELSE "enqueue")
    /\ UNCHANGED <<mode, active, injectCh, queue, late, stoppable, forwarding, box, fate>>

\* Mutated: the channel is never full.
InjectUnbounded(w) ==
    /\ worker[w].at = "inject"
    /\ injectCh' = Append(injectCh, worker[w].msg)
    /\ Return(w, worker[w].todo)
    /\ UNCHANGED <<mode, active, queue, late, stoppable, forwarding, box, fate>>

\* Inject: refused when the route is idle by now or the channel is full, and
\* then the handler starts a stream.
Inject(w) ==
    /\ worker[w].at = "inject"
    /\ \/ /\ active /\ Len(injectCh) < InjectCap
          /\ injectCh' = Append(injectCh, worker[w].msg)
          /\ Return(w, worker[w].todo)
       \/ /\ ~ active \/ Len(injectCh) >= InjectCap
          /\ Moves(w, "start")
          /\ UNCHANGED injectCh
    /\ UNCHANGED <<mode, active, queue, late, stoppable, forwarding, box, fate>>

\* Enqueue does not ask again whether the route is active.
Enqueue(w) ==
    /\ worker[w].at = "enqueue"
    /\ queue' = Append(queue, worker[w].msg)
    /\ late' = IF \E v \in Workers : InFlight(v) THEN late ELSE late \cup {worker[w].msg}
    /\ Return(w, worker[w].todo)
    /\ UNCHANGED <<mode, active, injectCh, stoppable, forwarding, box, fate>>

\* Mutated: MarkActive is called before the stream is opened.
FailsActive(w) ==
    /\ worker[w].at = "start"
    /\ active' = (active \/ mode[worker[w].msg] # "parallel")
    /\ Settle(worker[w].msg, "failed")
    /\ Return(w, worker[w].todo)
    /\ UNCHANGED <<mode, injectCh, queue, late, stoppable, forwarding, box>>

\* No reply target, OpenStream or the first Push fails, before MarkActive.
OpenFails(w) ==
    /\ worker[w].at = "start"
    /\ Settle(worker[w].msg, "failed")
    /\ Return(w, worker[w].todo)
    /\ UNCHANGED <<mode, active, injectCh, queue, late, stoppable, forwarding, box>>

\* MarkActive, but for /now.
Open(w) ==
    /\ worker[w].at = "start"
    /\ active' = (active \/ mode[worker[w].msg] # "parallel")
    /\ Moves(w, "register")
    /\ UNCHANGED <<mode, injectCh, queue, late, stoppable, forwarding, box, fate>>

\* activeStreams.Store, over whatever stream of the route is there; StreamChat.
Register(w) ==
    /\ worker[w].at = "register"
    /\ stoppable' = worker[w].msg
    /\ Moves(w, "stream")
    /\ UNCHANGED <<mode, active, injectCh, queue, late, forwarding, box, fate>>

\* resolve: the agent's run begins, with a forwarder unless it is for /now.
Resolve(w) ==
    /\ worker[w].at = "stream"
    /\ forwarding' = IF mode[worker[w].msg] = "parallel" THEN forwarding
                     ELSE forwarding \cup {worker[w].msg}
    /\ Moves(w, "run")
    /\ UNCHANGED <<mode, active, injectCh, queue, late, stoppable, box, fate>>

\* The forwarder of stream s, which outlives it: nobody closes injectCh.
Forward(s) ==
    /\ s \in forwarding
    /\ injectCh # << >>
    /\ Len(box[s]) <= InjectCap
    /\ box' = [box EXCEPT ![s] = Append(@, Head(injectCh))]
    /\ injectCh' = Tail(injectCh)
    /\ UNCHANGED <<mode, worker, active, queue, late, stoppable, forwarding, fate>>

\* prepareStep: the agent takes what is there before its next step.
AgentTakes(w) ==
    /\ worker[w].at = "run"
    /\ LET s == worker[w].msg
       IN  /\ box[s] # << >>
           /\ fate' = [m \in Msgs |-> IF m \in Range(box[s]) THEN "heard" ELSE fate[m]]
           /\ box' = [box EXCEPT ![s] = << >>]
    /\ UNCHANGED <<mode, worker, active, injectCh, queue, late, stoppable, forwarding>>

\* How the message of a stream that ends comes off: the run answers it, or fails or is
\* stopped; before the run there is no answer.
Outcome(w) ==
    \E f \in IF worker[w].at = "run" THEN {"answered", "failed"} ELSE {"failed"} :
        Settle(worker[w].msg, f)

\* Mutated: the entry of activeStreams stays.
StreamKeepsEntry(w) ==
    /\ worker[w].at \in {"stream", "run"}
    /\ Outcome(w)
    /\ IF mode[worker[w].msg] = "parallel" THEN Return(w, worker[w].todo)
                                           ELSE Moves(w, "unwind")
    /\ UNCHANGED <<mode, active, injectCh, queue, late, stoppable, forwarding, box>>

\* Mutated: a stream that fails returns without drainQueue.
StreamEndsAbruptly(w) ==
    /\ worker[w].at \in {"stream", "run"}
    /\ Outcome(w)
    /\ stoppable' = NoMsg
    /\ IF mode[worker[w].msg] = "parallel" \/ worker[w].at = "stream"
       THEN Return(w, worker[w].todo)
       ELSE Moves(w, "unwind")
    /\ UNCHANGED <<mode, active, injectCh, queue, late, forwarding, box>>

\* The stream ends or fails, or a push to the channel does: the handler deletes
\* the entry of activeStreams, whosever it is, and goes on to drainQueue.
StreamEnds(w) ==
    /\ worker[w].at \in {"stream", "run"}
    /\ Outcome(w)
    /\ stoppable' = NoMsg
    /\ IF mode[worker[w].msg] = "parallel" THEN Return(w, worker[w].todo)
                                           ELSE Moves(w, "unwind")
    /\ UNCHANGED <<mode, active, injectCh, queue, late, forwarding, box>>

\* Mutated: the queue is handed over and kept.
MarkDoneKeepsQueue(w) ==
    /\ worker[w].at = "unwind"
    /\ active' = FALSE
    /\ fate' = [m \in Msgs |-> IF m \in Range(injectCh) THEN "drained" ELSE fate[m]]
    /\ injectCh' = << >>
    /\ Return(w, queue \o worker[w].todo)
    /\ UNCHANGED <<mode, queue, late, stoppable, forwarding, box>>

\* drainQueue: MarkDone drains the inject channel and hands over the queue,
\* although another stream of the route may be active.
MarkDone(w) ==
    /\ worker[w].at = "unwind"
    /\ active' = FALSE
    /\ fate' = [m \in Msgs |-> IF m \in Range(injectCh) THEN "drained" ELSE fate[m]]
    /\ injectCh' = << >>
    /\ queue' = << >>
    /\ Return(w, queue \o worker[w].todo)
    /\ UNCHANGED <<mode, late, stoppable, forwarding, box>>

\* A worker takes a /stop: LoadAndDelete.
Stop(w) ==
    /\ worker[w].at = "free"
    /\ worker' = IF stoppable = NoMsg THEN worker
                 ELSE [worker EXCEPT ![w] = [at |-> "cancel", msg |-> stoppable, todo |-> << >>]]
    /\ stoppable' = NoMsg
    /\ UNCHANGED <<mode, active, injectCh, queue, late, forwarding, box, fate>>

\* It calls the stream's cancel function, which makes the stream end, at any time from
\* now, unless it has ended meanwhile.
Cancel(w) ==
    /\ worker[w].at = "cancel"
    /\ worker' = [worker EXCEPT ![w] = Free]
    /\ UNCHANGED <<mode, active, injectCh, queue, late, stoppable, forwarding, box, fate>>

Handler(w) ==
    \/ Refuse(w) \/ Look(w) \/ Inject(w) \/ Enqueue(w) \/ OpenFails(w) \/ Open(w) \/ Register(w)
    \/ Resolve(w) \/ StreamEnds(w) \/ MarkDone(w)

RouteNext ==
    \/ \E w \in Workers : Arrive(w) \/ Handler(w) \/ AgentTakes(w) \/ Stop(w) \/ Cancel(w)
    \/ \E s \in Msgs : Forward(s)
-----------------------------------------------------------------------------
(* Properties *)

\* The places where a message that has arrived can be.
PlacesOf(m) ==
    {<<"hand", w>> : w \in {v \in Workers : /\ worker[v].msg = m
                                           /\ worker[v].at \notin {"free", "unwind", "cancel"}}}
    \cup (UNION {{<<"todo", w, i>> : i \in {j \in DOMAIN worker[w].todo : worker[w].todo[j] = m}}
                    : w \in Workers})
    \cup {<<"queue", i>> : i \in {j \in DOMAIN queue : queue[j] = m}}
    \cup {<<"channel", i>> : i \in {j \in DOMAIN injectCh : injectCh[j] = m}}
    \cup (UNION {{<<"box", s, i>> : i \in {j \in DOMAIN box[s] : box[s][j] = m}} : s \in Msgs})
    \cup {<<"fate", f>> : f \in {fate[m]} \ {"pending"}}

\* A message is never handled twice and never in nobody's hands, although it
\* changes hands under three locks and may come back to a handler from the queue.
\* (The box of a stream that is over counts as a place: a forwarder that outlives
\* its stream takes messages there, and nobody reads them.)
EachMessageOnce ==
    \A m \in Msgs : mode[m] # "none" => Cardinality(PlacesOf(m)) = 1

\* The route is active only while a stream is under way that will make it idle
\* again; otherwise every later message would be injected into nothing.
ActiveMeansStream == active => \E w \in Workers : InFlight(w)

\* What waits for a stream has one to wait for: an injected message is in the
\* channel only while a stream is under way, and so is a message in the queue,
\* unless it was queued when the last stream had already left.
NothingStranded ==
    injectCh # << >> \/ ~ Range(queue) \subseteq late => \E w \in Workers : InFlight(w)

\* What a /stop finds in activeStreams is a stream that is under way, although streams of
\* the route overlap, store over one another's entry and delete it.
StopTargetsLive ==
    stoppable # NoMsg =>
        \E w \in Workers : worker[w].msg = stoppable /\ worker[w].at \in {"stream", "run"}
=============================================================================
