----------------------------- MODULE InboundProofs -----------------------------
(***************************************************************************)
(* For any number of workers and messages: the route is active only while  *)
(* a stream is under way that will make it idle, what waits for a stream   *)
(* has one to wait for, /stop finds no dead stream, and the goroutine of a *)
(* discuss session asks about an event once.                               *)
(***************************************************************************)
EXTENDS Inbound, FiniteSetTheorems, WellFoundedInduction, TLAPS

\* A worker there handles no message: it is free, or calls a stream's cancel function.
Idle == {"free", "cancel"}

\* Every message in somebody's hands has arrived, so its mode is settled.
Arrived ==
    /\ \A w \in Workers : /\ worker[w].at \notin Idle => mode[worker[w].msg] # "none"
                          /\ \A m \in Range(worker[w].todo) : mode[m] # "none"
    /\ \A m \in Range(queue) : mode[m] # "none"

WorkerType == [at : Places, msg : Msgs \cup {NoMsg}, todo : Seq(Msgs)]

Typed(r) == r \in WorkerType /\ (r.at # "free" => r.msg \in Msgs)

\* The handler has returned: the worker is free, or it looks at its next message.
After(todo) ==
    IF todo = << >> THEN Free ELSE [at |-> "look", msg |-> Head(todo), todo |-> Tail(todo)]

\* What a handler that returns leaves its worker with comes from its todo.
LEMMA AfterFacts ==
    ASSUME NEW todo \in Seq(Msgs)
    PROVE  /\ Typed(After(todo))
           /\ After(todo).at \in {"free", "look"}
           /\ After(todo).at # "free" => After(todo).msg \in Range(todo)
           /\ Range(After(todo).todo) \subseteq Range(todo)
<1>1. CASE todo = << >>
  BY <1>1 DEF After, Free, Typed, WorkerType, Places, Range
<1>2. CASE todo # << >>
  <2>1. Head(todo) \in Msgs /\ Tail(todo) \in Seq(Msgs) /\ Head(todo) = todo[1]
    BY <1>2
  <2>2. 1 \in DOMAIN todo
    BY <1>2
  <2>3. Range(Tail(todo)) \subseteq Range(todo)
    <3>1. \A i \in DOMAIN Tail(todo) : Tail(todo)[i] = todo[i + 1] /\ i + 1 \in DOMAIN todo
      BY <1>2
    <3>2. QED
      BY <3>1 DEF Range
  <2>4. After(todo) = [at |-> "look", msg |-> Head(todo), todo |-> Tail(todo)]
    BY <1>2 DEF After
  <2>5. QED
    BY <2>1, <2>2, <2>3, <2>4 DEF Typed, WorkerType, Places, Range
<1>3. QED
  BY <1>1, <1>2

WorkersTyped == worker \in [Workers -> WorkerType] /\ \A w \in Workers : Typed(worker[w])

\* HandleInbound returns: only its own worker changes.
LEMMA ReturnFacts ==
    ASSUME WorkersTyped, NEW w \in Workers, NEW todo \in Seq(Msgs), Return(w, todo)
    PROVE  /\ WorkersTyped'
           /\ worker'[w] = After(todo)
           /\ \A v \in Workers \ {w} : worker'[v] = worker[v]
<1>1. worker' = [worker EXCEPT ![w] = After(todo)]
  BY DEF Return, After
<1>2. Typed(After(todo))
  BY AfterFacts
<1>3. QED
  BY <1>1, <1>2 DEF WorkersTyped, Typed

\* A handler that goes on keeps its message and what is left to do.
LEMMA MoveFacts ==
    ASSUME WorkersTyped, NEW w \in Workers, NEW place \in Places \ {"free"},
           worker[w].at # "free", Moves(w, place)
    PROVE  /\ WorkersTyped'
           /\ worker'[w].at = place /\ worker'[w].msg = worker[w].msg
           /\ worker'[w].todo = worker[w].todo
           /\ \A v \in Workers \ {w} : worker'[v] = worker[v]
<1>1. worker' = [worker EXCEPT ![w] = [worker[w] EXCEPT !.at = place]]
  BY DEF Moves
<1>2. worker[w] \in WorkerType
  BY DEF WorkersTyped
<1>3. Typed([worker[w] EXCEPT !.at = place])
  BY <1>2 DEF WorkersTyped, Typed, WorkerType
<1>4. QED
  BY <1>1, <1>2, <1>3 DEF WorkersTyped, Typed, WorkerType

\* A worker that was free, or cancelled a stream, is at another of these or at a message.
Begins(w, r) == worker' = [worker EXCEPT ![w] = r]

\* What a step of the route does to the workers: one of them returns, moves on, starts or
\* stops a stream, or none does anything.
WorkerStep(w) ==
    \/ \E todo \in Seq(Msgs) : Return(w, todo)
    \/ worker[w].at # "free" /\ \E place \in Places \ {"free"} : Moves(w, place)
    \/ \E r \in WorkerType : Typed(r) /\ Begins(w, r)
    \/ UNCHANGED worker

\* Such a step keeps the workers well typed.
LEMMA WorkersStayTyped ==
    ASSUME WorkersTyped, NEW w \in Workers, WorkerStep(w)
    PROVE  WorkersTyped'
<1>1. CASE \E todo \in Seq(Msgs) : Return(w, todo)
  BY <1>1, ReturnFacts
<1>2. CASE worker[w].at # "free" /\ \E place \in Places \ {"free"} : Moves(w, place)
  BY <1>2, MoveFacts
<1>3. CASE \E r \in WorkerType : Typed(r) /\ Begins(w, r)
  BY <1>3 DEF WorkersTyped, Typed, Begins
<1>4. CASE UNCHANGED worker
  BY <1>4 DEF WorkersTyped
<1>5. QED
  BY <1>1, <1>2, <1>3, <1>4 DEF WorkerStep

\* Every action of a worker is such a step.
LEMMA WorkerSteps ==
    ASSUME RouteTypeOK, NEW w \in Workers, Arrive(w) \/ Handler(w) \/ AgentTakes(w) \/ Stop(w) \/ Cancel(w)
    PROVE  WorkerStep(w)
<1> USE DEF WorkerStep
<1>1. worker[w].todo \in Seq(Msgs) /\ queue \in Seq(Msgs)
  BY DEF RouteTypeOK
<1>2. queue \o worker[w].todo \in Seq(Msgs)
  BY <1>1
<1>3. CASE Arrive(w)
  <2>1. PICK m \in Msgs : Begins(w, [at |-> "look", msg |-> m, todo |-> << >>])
    BY <1>3 DEF Arrive, Begins
  <2>2. Typed([at |-> "look", msg |-> m, todo |-> << >>])
    BY DEF Typed, WorkerType, Places
  <2>3. QED
    BY <2>1, <2>2 DEF Typed
<1>4. CASE Look(w)
  BY <1>4 DEF Look, Places
<1>5. CASE Inject(w)
  BY <1>1, <1>2, <1>5 DEF Inject, Places
<1>6. CASE Enqueue(w)
  BY <1>1, <1>2, <1>6 DEF Enqueue, Places
<1>7. CASE OpenFails(w)
  BY <1>1, <1>2, <1>7 DEF OpenFails, Settle, Places
<1>8. CASE Open(w)
  BY <1>8 DEF Open, Places
<1>9. CASE Register(w)
  BY <1>9 DEF Register, Places
<1>10. CASE Resolve(w)
  BY <1>10 DEF Resolve, Places
<1>11. CASE StreamEnds(w)
  BY <1>1, <1>2, <1>11 DEF StreamEnds, Settle, Places
<1>12. CASE MarkDone(w)
  BY <1>1, <1>2, <1>12 DEF MarkDone, Places
<1>13. CASE AgentTakes(w)
  BY <1>13 DEF AgentTakes, Places
<1>14. CASE Stop(w)
  <2>1. CASE stoppable = NoMsg
    BY <1>14, <2>1 DEF Stop
  <2>2. CASE stoppable # NoMsg
    <3>1. Begins(w, [at |-> "cancel", msg |-> stoppable, todo |-> << >>])
      BY <1>14, <2>2 DEF Stop, Begins
    <3>2. Typed([at |-> "cancel", msg |-> stoppable, todo |-> << >>])
      BY <2>2 DEF RouteTypeOK, Typed, WorkerType, Places
    <3>3. QED
      BY <3>1, <3>2 DEF Typed
  <2>3. QED
    BY <2>1, <2>2
<1>15. CASE Cancel(w)
  <2>1. Typed(Free)
    BY DEF Free, Typed, WorkerType, Places
  <2>2. QED
    BY <1>15, <2>1 DEF Cancel, Begins, Typed
<1>16. CASE Refuse(w)
  BY <1>1, <1>16 DEF Refuse, Settle
<1>17. QED
  BY <1>3, <1>4, <1>5, <1>6, <1>7, <1>8, <1>9, <1>10, <1>11, <1>12, <1>13, <1>14, <1>15, <1>16
     DEF Handler

\* Every step of the route keeps its variables' types, injectChBuffer among them.
LEMMA RouteTypeStep == RouteTypeOK /\ [RouteNext]_routeVars => RouteTypeOK'
<1> SUFFICES ASSUME RouteTypeOK, [RouteNext]_routeVars PROVE RouteTypeOK'
  OBVIOUS
<1> USE RouteAssumption
<1>1. WorkersTyped
  BY DEF RouteTypeOK, WorkersTyped, WorkerType, Typed
<1>2. WorkersTyped' => /\ worker' \in [Workers -> [at : Places, msg : Msgs \cup {NoMsg}, todo : Seq(Msgs)]]
                      /\ \A w \in Workers : worker'[w].at # "free" => worker'[w].msg \in Msgs
  BY DEF WorkersTyped, WorkerType, Typed
<1>3. ASSUME NEW w \in Workers, Arrive(w) \/ Handler(w) \/ AgentTakes(w) \/ Stop(w) \/ Cancel(w)
      PROVE  RouteTypeOK'
  <2>1. WorkersTyped'
    BY <1>1, <1>3, WorkerSteps, WorkersStayTyped
  <2>2. worker[w].at # "free" => worker[w].msg \in Msgs
    BY DEF RouteTypeOK
  <2> USE <1>2, <2>1, <2>2 DEF RouteTypeOK, Modes, Fates
  <2>3. CASE Arrive(w)
    BY <2>3 DEF Arrive
  <2>4. CASE Look(w)
    BY <2>4 DEF Look
  <2>5. CASE Inject(w)
    <3>1. injectCh' \in Seq(Msgs) /\ Len(injectCh') <= InjectCap
      <4>1. CASE injectCh' = injectCh
        BY <4>1
      <4>2. CASE injectCh' = Append(injectCh, worker[w].msg) /\ Len(injectCh) < InjectCap
        <5>1. worker[w].msg \in Msgs
          BY <2>5 DEF Inject
        <5>2. Append(injectCh, worker[w].msg) \in Seq(Msgs)
          BY <5>1
        <5>3. Len(Append(injectCh, worker[w].msg)) = Len(injectCh) + 1
          BY <5>1
        <5>4. QED
          BY <4>2, <5>2, <5>3
      <4>3. QED
        BY <2>5, <4>1, <4>2 DEF Inject
    <3>2. QED
      BY <2>5, <3>1 DEF Inject
  <2>6. CASE Enqueue(w)
    BY <2>6 DEF Enqueue
  <2>7. CASE OpenFails(w)
    BY <2>7 DEF OpenFails, Settle
  <2>8. CASE Open(w)
    BY <2>8 DEF Open
  <2>9. CASE Register(w)
    BY <2>9 DEF Register
  <2>10. CASE Resolve(w)
    BY <2>10 DEF Resolve
  <2>11. CASE StreamEnds(w)
    BY <2>11 DEF StreamEnds, Outcome, Settle
  <2>12. CASE MarkDone(w)
    <3>1. fate' \in [Msgs -> Fates]
      BY <2>12 DEF MarkDone
    <3>2. injectCh' = << >> /\ queue' = << >> /\ active' = FALSE
      BY <2>12 DEF MarkDone
    <3>3. << >> \in Seq(Msgs) /\ Len(<< >>) <= InjectCap
      OBVIOUS
    <3>4. UNCHANGED <<mode, late, stoppable, forwarding, box>>
      BY <2>12 DEF MarkDone
    <3>5. QED
      BY <3>1, <3>2, <3>3, <3>4
  <2>13. CASE AgentTakes(w)
    BY <2>13 DEF AgentTakes
  <2>14. CASE Stop(w) \/ Cancel(w)
    BY <2>14 DEF Stop, Cancel
  <2>15. CASE Refuse(w)
    BY <2>15 DEF Refuse, Settle
  <2>16. QED
    BY <1>3, <2>3, <2>4, <2>5, <2>6, <2>7, <2>8, <2>9, <2>10, <2>11, <2>12, <2>13, <2>14, <2>15
       DEF Handler
<1>4. ASSUME NEW s \in Msgs, Forward(s) PROVE RouteTypeOK'
  <2>1. injectCh # << >> /\ injectCh \in Seq(Msgs) /\ Len(injectCh) <= InjectCap
    BY <1>4 DEF Forward, RouteTypeOK
  <2>2. Head(injectCh) \in Msgs /\ Tail(injectCh) \in Seq(Msgs) /\ Len(Tail(injectCh)) <= InjectCap
    BY <2>1
  <2>3. QED
    BY <1>4, <2>2 DEF Forward, RouteTypeOK
<1>5. CASE UNCHANGED routeVars
  BY <1>5 DEF routeVars, RouteTypeOK
<1>6. QED
  BY <1>3, <1>4, <1>5 DEF RouteNext

-----------------------------------------------------------------------------
(* Safety of the route *)

Flying == \E w \in Workers : InFlight(w)

\* Appending a message and taking the first one off, as sets.
LEMMA RangeFacts ==
    ASSUME NEW s \in Seq(Msgs), NEW m \in Msgs
    PROVE  /\ Range(Append(s, m)) = Range(s) \cup {m}
           /\ s # << >> => Range(Tail(s)) \subseteq Range(s)
<1>1. Range(Append(s, m)) = Range(s) \cup {m}
  <2>1. DOMAIN Append(s, m) = 1 .. (Len(s) + 1) /\ DOMAIN s = 1 .. Len(s) /\ Len(s) \in Nat
    OBVIOUS
  <2>2. \A i \in 1 .. Len(s) : Append(s, m)[i] = s[i]
    OBVIOUS
  <2>3. Append(s, m)[Len(s) + 1] = m
    OBVIOUS
  <2>4. ASSUME NEW x \in Range(Append(s, m)) PROVE x \in Range(s) \cup {m}
    BY <2>1, <2>2, <2>3 DEF Range
  <2>5. ASSUME NEW x \in Range(s) PROVE x \in Range(Append(s, m))
    <3>1. PICK i \in 1 .. Len(s) : x = s[i]
      BY <2>1 DEF Range
    <3>2. i \in DOMAIN Append(s, m) /\ Append(s, m)[i] = x
      BY <3>1, <2>1, <2>2
    <3>3. QED
      BY <3>2 DEF Range
  <2>6. m \in Range(Append(s, m))
    <3>1. Len(s) + 1 \in DOMAIN Append(s, m)
      BY <2>1
    <3>2. QED
      BY <3>1, <2>3 DEF Range
  <2>7. QED
    BY <2>4, <2>5, <2>6
<1>2. ASSUME s # << >> PROVE Range(Tail(s)) \subseteq Range(s)
  <2>1. \A i \in DOMAIN Tail(s) : Tail(s)[i] = s[i + 1] /\ i + 1 \in DOMAIN s
    BY <1>2
  <2>2. QED
    BY <2>1 DEF Range
<1>3. QED
  BY <1>1, <1>2

\* The messages of two queues put together are those of either.
LEMMA RangeOfBoth ==
    ASSUME NEW s \in Seq(Msgs), NEW t \in Seq(Msgs)
    PROVE  Range(s \o t) \subseteq Range(s) \cup Range(t)
<1>1. DOMAIN (s \o t) = 1 .. (Len(s) + Len(t)) /\ Len(s) \in Nat /\ Len(t) \in Nat
  OBVIOUS
<1>2. ASSUME NEW i \in 1 .. (Len(s) + Len(t)) PROVE (s \o t)[i] \in Range(s) \cup Range(t)
  <2>1. CASE i <= Len(s)
    <3>1. (s \o t)[i] = s[i] /\ i \in DOMAIN s
      BY <2>1, <1>1
    <3>2. QED
      BY <3>1 DEF Range
  <2>2. CASE ~ i <= Len(s)
    <3>1. (s \o t)[i] = t[i - Len(s)] /\ i - Len(s) \in DOMAIN t
      BY <2>2, <1>1
    <3>2. QED
      BY <3>1 DEF Range
  <2>3. QED
    BY <2>1, <2>2
<1>3. QED
  BY <1>1, <1>2 DEF Range

\* A step of a worker leaves in the hands of the others what was in them.
LEMMA ArrivedStep == RouteTypeOK /\ Arrived /\ [RouteNext]_routeVars => Arrived'
<1> SUFFICES ASSUME RouteTypeOK, Arrived, [RouteNext]_routeVars PROVE Arrived'
  OBVIOUS
<1>1. WorkersTyped
  BY DEF RouteTypeOK, WorkersTyped, WorkerType, Typed
<1>2. ASSUME NEW w \in Workers, Arrive(w) \/ Handler(w) \/ AgentTakes(w) \/ Stop(w) \/ Cancel(w)
      PROVE  Arrived'
  <2>1. worker[w].todo \in Seq(Msgs) /\ queue \in Seq(Msgs)
    BY DEF RouteTypeOK
  <2>2. ASSUME NEW todo \in Seq(Msgs), Return(w, todo), mode' = mode,
               \A m \in Range(todo) : mode[m] # "none"
        PROVE  \A v \in Workers : /\ worker'[v].at \notin Idle => mode'[worker'[v].msg] # "none"
                                  /\ \A m \in Range(worker'[v].todo) : mode'[m] # "none"
    BY <1>1, <2>2, ReturnFacts, AfterFacts DEF Arrived, Idle
  <2>3. ASSUME NEW place \in Places \ {"free"}, worker[w].at \notin Idle, Moves(w, place),
               mode' = mode
        PROVE  \A v \in Workers : /\ worker'[v].at \notin Idle => mode'[worker'[v].msg] # "none"
                                  /\ \A m \in Range(worker'[v].todo) : mode'[m] # "none"
    BY <1>1, <2>3, MoveFacts DEF Arrived, Idle
  <2>4. \A m \in Range(worker[w].todo) : mode[m] # "none"
    BY DEF Arrived
  <2>5. worker[w].at \notin Idle => worker[w].msg \in Msgs /\ mode[worker[w].msg] # "none"
    BY DEF Arrived, RouteTypeOK, Idle
  <2>6. CASE Arrive(w)
    <3>1. PICK m \in Msgs, k \in Modes : /\ mode[m] = "none"
                                          /\ mode' = [mode EXCEPT ![m] = k]
                                          /\ worker' = [worker EXCEPT ![w] = [at |-> "look", msg |-> m, todo |-> << >>]]
      BY <2>6 DEF Arrive
    <3>2. \A n \in Msgs : mode[n] # "none" => mode'[n] # "none"
      BY <3>1 DEF RouteTypeOK, Modes
    <3>3. mode'[m] # "none"
      BY <3>1 DEF RouteTypeOK, Modes
    <3>4. \A v \in Workers : worker[v].todo \in Seq(Msgs)
      BY DEF RouteTypeOK
    <3>5. \A v \in Workers : Range(worker[v].todo) \subseteq Msgs
      BY <3>4 DEF Range
    <3>6. Range(queue) \subseteq Msgs /\ queue' = queue
      BY <2>1, <2>6 DEF Range, Arrive
    <3>7. ASSUME NEW v \in Workers, v # w
          PROVE  /\ worker'[v].at \notin Idle => mode'[worker'[v].msg] # "none"
                 /\ \A n \in Range(worker'[v].todo) : mode'[n] # "none"
      <4>1. worker'[v] = worker[v]
        BY <3>1, <3>7 DEF RouteTypeOK
      <4>2. worker[v].at \notin Idle => worker[v].msg \in Msgs
        BY DEF RouteTypeOK, Idle
      <4>3. QED
        BY <4>1, <4>2, <3>2, <3>5 DEF Arrived
    <3>8. worker'[w] = [at |-> "look", msg |-> m, todo |-> << >>]
      BY <3>1 DEF RouteTypeOK
    <3>9. Range(worker'[w].todo) = {}
      BY <3>8 DEF Range
    <3>10. worker'[w].msg = m
      BY <3>8
    <3>11. \A n \in Range(queue') : mode'[n] # "none"
      BY <3>2, <3>6 DEF Arrived
    <3>12. QED
      BY <3>3, <3>7, <3>9, <3>10, <3>11 DEF Arrived

  <2>7. CASE Look(w)
    <3>1. worker[w].at \notin Idle /\ mode' = mode /\ queue' = queue
      BY <2>7 DEF Look, Idle
    <3>2. \E place \in Places \ {"free"} : Moves(w, place)
      BY <2>7 DEF Look, Places
    <3>3. QED
      BY <2>3, <3>1, <3>2 DEF Arrived

  <2>8. CASE Inject(w)
    <3>1. worker[w].at \notin Idle /\ mode' = mode /\ queue' = queue
      BY <2>8 DEF Inject, Idle
    <3>2. CASE Return(w, worker[w].todo)
      BY <2>1, <2>2, <2>4, <3>1, <3>2 DEF Arrived
    <3>3. CASE \E place \in Places \ {"free"} : Moves(w, place)
      BY <2>3, <3>1, <3>3 DEF Arrived
    <3>4. QED
      BY <2>8, <3>2, <3>3 DEF Inject, Places

  <2>9. CASE Enqueue(w)
    <3>1. Return(w, worker[w].todo) /\ mode' = mode /\ worker[w].at = "enqueue"
      BY <2>9 DEF Enqueue
    <3>2. queue' = Append(queue, worker[w].msg)
      BY <2>9 DEF Enqueue
    <3>3. Range(queue') = Range(queue) \cup {worker[w].msg}
      BY <2>1, <2>5, <3>1, <3>2, RangeFacts DEF Idle
    <3>4. QED
      BY <2>1, <2>2, <2>4, <2>5, <3>1, <3>3 DEF Arrived, Idle

  <2>10. CASE Refuse(w) \/ OpenFails(w)
    <3>1. Return(w, worker[w].todo) /\ mode' = mode /\ queue' = queue
      BY <2>10 DEF Refuse, OpenFails
    <3>2. QED
      BY <2>1, <2>2, <2>4, <3>1 DEF Arrived

  <2>11. CASE Open(w)
    <3>1. worker[w].at \notin Idle /\ mode' = mode /\ queue' = queue
      BY <2>11 DEF Open, Idle
    <3>2. \E place \in Places \ {"free"} : Moves(w, place)
      BY <2>11 DEF Open, Places
    <3>3. QED
      BY <2>3, <3>1, <3>2 DEF Arrived

  <2>12. CASE Register(w)
    <3>1. worker[w].at \notin Idle /\ mode' = mode /\ queue' = queue
      BY <2>12 DEF Register, Idle
    <3>2. \E place \in Places \ {"free"} : Moves(w, place)
      BY <2>12 DEF Register, Places
    <3>3. QED
      BY <2>3, <3>1, <3>2 DEF Arrived

  <2>13. CASE Resolve(w)
    <3>1. worker[w].at \notin Idle /\ mode' = mode /\ queue' = queue
      BY <2>13 DEF Resolve, Idle
    <3>2. \E place \in Places \ {"free"} : Moves(w, place)
      BY <2>13 DEF Resolve, Places
    <3>3. QED
      BY <2>3, <3>1, <3>2 DEF Arrived

  <2>14. CASE StreamEnds(w)
    <3>1. worker[w].at \notin Idle /\ mode' = mode /\ queue' = queue
      BY <2>14 DEF StreamEnds, Idle
    <3>2. CASE Return(w, worker[w].todo)
      BY <2>1, <2>2, <2>4, <3>1, <3>2 DEF Arrived
    <3>3. CASE \E place \in Places \ {"free"} : Moves(w, place)
      BY <2>3, <3>1, <3>3 DEF Arrived
    <3>4. QED
      BY <2>14, <3>2, <3>3 DEF StreamEnds, Places

  <2>15. CASE MarkDone(w)
    <3>1. Return(w, queue \o worker[w].todo) /\ mode' = mode /\ queue' = << >>
      BY <2>15 DEF MarkDone
    <3>2. queue \o worker[w].todo \in Seq(Msgs)
      BY <2>1
    <3>3. \A m \in Range(queue \o worker[w].todo) : mode[m] # "none"
      BY <2>1, <2>4, RangeOfBoth DEF Arrived
    <3>4. Range(queue') = {}
      BY <3>1 DEF Range
    <3>5. QED
      BY <2>2, <3>1, <3>2, <3>3, <3>4 DEF Arrived

  <2>16. CASE AgentTakes(w)
    BY <2>16 DEF AgentTakes, Arrived

  <2>17. CASE Stop(w) \/ Cancel(w)
    <3>1. PICK at \in Idle, msg \in Msgs \cup {NoMsg} :
              \/ worker' = [worker EXCEPT ![w] = [at |-> at, msg |-> msg, todo |-> << >>]]
              \/ worker' = worker
      BY <2>17 DEF Stop, Cancel, Free, Idle, RouteTypeOK
    <3>2. Range(<< >>) = {}
      BY DEF Range
    <3>3. mode' = mode /\ queue' = queue
      BY <2>17 DEF Stop, Cancel
    <3>4. CASE worker' = worker
      BY <3>3, <3>4 DEF Arrived
    <3>5. CASE worker' = [worker EXCEPT ![w] = [at |-> at, msg |-> msg, todo |-> << >>]]
      <4>1. /\ worker'[w] = [at |-> at, msg |-> msg, todo |-> << >>]
            /\ \A v \in Workers \ {w} : worker'[v] = worker[v]
        BY <3>5 DEF RouteTypeOK
      <4>2. worker'[w].at \in Idle /\ worker'[w].todo = << >>
        BY <4>1
      <4>3. QED
        BY <3>2, <3>3, <4>1, <4>2 DEF Arrived
    <3>6. QED
      BY <3>1, <3>4, <3>5

  <2>18. QED
    BY <1>2, <2>6, <2>7, <2>8, <2>9, <2>10, <2>11, <2>12, <2>13, <2>14, <2>15, <2>16, <2>17 DEF Handler
<1>3. ASSUME NEW s \in Msgs, Forward(s) PROVE Arrived'
  BY <1>3 DEF Forward, Arrived
<1>4. CASE UNCHANGED routeVars
  BY <1>4 DEF routeVars, Arrived
<1>5. QED
  BY <1>2, <1>3, <1>4 DEF RouteNext

\* Only MarkDone may leave the route without a stream under way.
LEMMA FlyingStep ==
    ASSUME RouteTypeOK, Arrived, Flying, NEW w \in Workers,
           Arrive(w) \/ Handler(w) \/ AgentTakes(w) \/ Stop(w) \/ Cancel(w), ~ MarkDone(w)
    PROVE  Flying'
<1>1. WorkersTyped
  BY DEF RouteTypeOK, WorkersTyped, WorkerType, Typed
<1>2. PICK v \in Workers : InFlight(v)
  BY DEF Flying
<1>3. worker[w].todo \in Seq(Msgs)
  BY DEF RouteTypeOK
<1>4. ASSUME ~ InFlight(w), mode' = mode, \A u \in Workers \ {w} : worker'[u] = worker[u]
      PROVE  Flying'
  BY <1>2, <1>4 DEF Flying, InFlight
<1>5. ASSUME mode' = mode, NEW place \in {"register", "stream", "run", "unwind"},
             Moves(w, place), worker[w].at # "free"
      PROVE  InFlight(w) => Flying'
  <2>1. worker'[w].at = place /\ worker'[w].msg = worker[w].msg
    BY <1>1, <1>5, MoveFacts DEF Places
  <2>2. QED
    BY <1>5, <2>1 DEF Flying, InFlight
<1>6. ASSUME NEW place \in Places \ {"free"}, Moves(w, place), worker[w].at # "free"
      PROVE  \A u \in Workers \ {w} : worker'[u] = worker[u]
  BY <1>1, <1>6, MoveFacts
<1>7. CASE Arrive(w)
  <2>1. PICK m \in Msgs, k \in Modes : /\ mode[m] = "none"
                                        /\ mode' = [mode EXCEPT ![m] = k]
                                        /\ worker' = [worker EXCEPT ![w] = [at |-> "look", msg |-> m, todo |-> << >>]]
    BY <1>7 DEF Arrive
  <2>2. worker[w].at = "free" /\ w # v
    BY <1>2, <1>7 DEF Arrive, InFlight
  <2>3. worker'[v] = worker[v]
    BY <2>1, <2>2 DEF RouteTypeOK
  <2>4. worker[v].at \notin Idle
    BY <1>2 DEF InFlight, Idle
  <2>5. worker[v].msg \in Msgs /\ mode[worker[v].msg] # "none"
    BY <2>4 DEF Arrived, RouteTypeOK, Idle
  <2>6. mode'[worker[v].msg] = mode[worker[v].msg]
    BY <2>1, <2>5 DEF RouteTypeOK
  <2>7. QED
    BY <1>2, <2>3, <2>6 DEF Flying, InFlight

<1>8. CASE Look(w)
  <2>1. ~ InFlight(w) /\ mode' = mode /\ worker[w].at # "free"
    BY <1>8 DEF Look, InFlight
  <2>2. \E place \in Places \ {"free"} : Moves(w, place)
    BY <1>8 DEF Look, Places
  <2>3. QED
    BY <1>4, <1>6, <2>1, <2>2

<1>9. CASE Inject(w)
  <2>1. ~ InFlight(w) /\ mode' = mode /\ worker[w].at # "free"
    BY <1>9 DEF Inject, InFlight
  <2>2. ASSUME Return(w, worker[w].todo) PROVE \A u \in Workers \ {w} : worker'[u] = worker[u]
    BY <1>1, <1>3, <2>2, ReturnFacts
  <2>3. CASE Return(w, worker[w].todo)
    BY <1>4, <2>1, <2>2, <2>3
  <2>4. CASE Moves(w, "start")
    <3>1. "start" \in Places \ {"free"}
      BY DEF Places
    <3>2. QED
      BY <1>4, <1>6, <2>1, <2>4, <3>1
  <2>5. QED
    BY <1>9, <2>3, <2>4 DEF Inject

<1>10. CASE Enqueue(w)
  <2>1. ~ InFlight(w) /\ mode' = mode /\ worker[w].at # "free"
    BY <1>10 DEF Enqueue, InFlight
  <2>2. ASSUME Return(w, worker[w].todo) PROVE \A u \in Workers \ {w} : worker'[u] = worker[u]
    BY <1>1, <1>3, <2>2, ReturnFacts
  <2>3. QED
    BY <1>4, <1>10, <2>1, <2>2 DEF Enqueue

<1>11. CASE Refuse(w) \/ OpenFails(w)
  <2>1. ~ InFlight(w) /\ mode' = mode /\ worker[w].at # "free"
    BY <1>11 DEF Refuse, OpenFails, InFlight
  <2>2. ASSUME Return(w, worker[w].todo) PROVE \A u \in Workers \ {w} : worker'[u] = worker[u]
    BY <1>1, <1>3, <2>2, ReturnFacts
  <2>3. QED
    BY <1>4, <1>11, <2>1, <2>2 DEF Refuse, OpenFails

<1>12. CASE Open(w)
  <2>1. ~ InFlight(w) /\ mode' = mode /\ worker[w].at # "free"
    BY <1>12 DEF Open, InFlight
  <2>2. \E place \in Places \ {"free"} : Moves(w, place)
    BY <1>12 DEF Open, Places
  <2>3. QED
    BY <1>4, <1>6, <2>1, <2>2

<1>13. CASE Register(w)
  <2>1. mode' = mode /\ worker[w].at # "free" /\ Moves(w, "stream")
    BY <1>13 DEF Register
  <2>2. "stream" \in Places \ {"free"}
    BY DEF Places
  <2>3. QED
    BY <1>4, <1>5, <1>6, <2>1, <2>2

<1>14. CASE Resolve(w)
  <2>1. mode' = mode /\ worker[w].at # "free" /\ Moves(w, "run")
    BY <1>14 DEF Resolve
  <2>2. "run" \in Places \ {"free"}
    BY DEF Places
  <2>3. QED
    BY <1>4, <1>5, <1>6, <2>1, <2>2

<1>15. CASE StreamEnds(w)
  <2>1. mode' = mode /\ worker[w].at # "free"
    BY <1>15 DEF StreamEnds
  <2>2. CASE mode[worker[w].msg] = "parallel"
    <3>1. ~ InFlight(w) /\ Return(w, worker[w].todo)
      BY <1>15, <2>2 DEF InFlight, StreamEnds
    <3>2. QED
      BY <1>1, <1>3, <1>4, <2>1, <3>1, ReturnFacts
  <2>3. CASE mode[worker[w].msg] # "parallel"
    <3>1. Moves(w, "unwind") /\ "unwind" \in Places \ {"free"}
      BY <1>15, <2>3 DEF StreamEnds, Places
    <3>2. QED
      BY <1>4, <1>5, <1>6, <2>1, <3>1
  <2>4. QED
    BY <2>2, <2>3

<1>16. CASE AgentTakes(w)
  BY <1>2, <1>16 DEF AgentTakes, Flying, InFlight

<1>17. CASE Stop(w) \/ Cancel(w)
  <2>1. ~ InFlight(w) /\ mode' = mode
    BY <1>17 DEF Stop, Cancel, InFlight
  <2>2. \A u \in Workers \ {w} : worker'[u] = worker[u]
    BY <1>17 DEF Stop, Cancel, RouteTypeOK
  <2>3. QED
    BY <1>4, <2>1, <2>2

<1>18. QED
  BY <1>7, <1>8, <1>9, <1>10, <1>11, <1>12, <1>13, <1>14, <1>15, <1>16, <1>17 DEF Handler


\* /stop finds the cancel function of a stream that is running: the entry of
\* activeStreams goes when its stream does.
LEMMA StopStep == RouteTypeOK /\ StopTargetsLive /\ [RouteNext]_routeVars => StopTargetsLive'
<1> SUFFICES ASSUME RouteTypeOK, StopTargetsLive, [RouteNext]_routeVars PROVE StopTargetsLive'
  OBVIOUS
<1>1. WorkersTyped
  BY DEF RouteTypeOK, WorkersTyped, WorkerType, Typed
<1>2. ASSUME NEW w \in Workers, Arrive(w) \/ Handler(w) \/ AgentTakes(w) \/ Stop(w) \/ Cancel(w)
      PROVE  StopTargetsLive'
  <2>1. worker[w].todo \in Seq(Msgs) /\ queue \in Seq(Msgs) /\ queue \o worker[w].todo \in Seq(Msgs)
    BY DEF RouteTypeOK
  <2>2. ASSUME worker[w].at \notin {"stream", "run"}, stoppable' = stoppable,
               \A v \in Workers \ {w} : worker'[v] = worker[v]
        PROVE  StopTargetsLive'
    BY <2>2 DEF StopTargetsLive
  <2>3. ASSUME NEW todo \in Seq(Msgs), Return(w, todo)
        PROVE  \A v \in Workers \ {w} : worker'[v] = worker[v]
    BY <1>1, <2>3, ReturnFacts
  <2>4. ASSUME NEW place \in Places \ {"free"}, Moves(w, place), worker[w].at # "free"
        PROVE  /\ \A v \in Workers \ {w} : worker'[v] = worker[v]
               /\ worker'[w].at = place /\ worker'[w].msg = worker[w].msg
    BY <1>1, <2>4, MoveFacts
  <2>5. CASE Arrive(w)
    <3>1. \A v \in Workers \ {w} : worker'[v] = worker[v]
      BY <2>5 DEF Arrive, RouteTypeOK
    <3>2. QED
      BY <2>2, <2>5, <3>1 DEF Arrive
  <2>6. CASE Look(w)
    <3>1. worker[w].at = "look" /\ stoppable' = stoppable
      BY <2>6 DEF Look
    <3>2. \E place \in Places \ {"free"} : Moves(w, place)
      BY <2>6 DEF Look, Places
    <3>3. QED
      BY <2>2, <2>4, <3>1, <3>2
  <2>7. CASE Inject(w)
    <3>1. worker[w].at = "inject" /\ stoppable' = stoppable
      BY <2>7 DEF Inject
    <3>2. CASE Return(w, worker[w].todo)
      BY <2>1, <2>2, <2>3, <3>1, <3>2
    <3>3. CASE Moves(w, "start")
      <4>1. "start" \in Places \ {"free"}
        BY DEF Places
      <4>2. QED
        BY <2>2, <2>4, <3>1, <3>3, <4>1
    <3>4. QED
      BY <2>7, <3>2, <3>3 DEF Inject
  <2>8. CASE Enqueue(w)
    BY <2>1, <2>2, <2>3, <2>8 DEF Enqueue
  <2>9. CASE Refuse(w) \/ OpenFails(w)
    BY <2>1, <2>2, <2>3, <2>9 DEF Refuse, OpenFails
  <2>10. CASE Open(w)
    <3>1. worker[w].at = "start" /\ stoppable' = stoppable /\ Moves(w, "register")
      BY <2>10 DEF Open
    <3>2. "register" \in Places \ {"free"}
      BY DEF Places
    <3>3. QED
      BY <2>2, <2>4, <3>1, <3>2
  <2>11. CASE Register(w)
    <3>1. worker[w].at # "free" /\ stoppable' = worker[w].msg /\ Moves(w, "stream")
      BY <2>11 DEF Register
    <3>2. "stream" \in Places \ {"free"}
      BY DEF Places
    <3>3. worker'[w].at = "stream" /\ worker'[w].msg = worker[w].msg
      BY <2>4, <3>1, <3>2
    <3>4. QED
      BY <3>1, <3>3 DEF StopTargetsLive
  <2>12. CASE Resolve(w)
    <3>1. worker[w].at # "free" /\ stoppable' = stoppable /\ Moves(w, "run")
      BY <2>12 DEF Resolve
    <3>2. "run" \in Places \ {"free"}
      BY DEF Places
    <3>3. /\ worker'[w].at = "run" /\ worker'[w].msg = worker[w].msg
          /\ \A v \in Workers \ {w} : worker'[v] = worker[v]
      BY <2>4, <3>1, <3>2
    <3>4. QED
      BY <3>1, <3>3 DEF StopTargetsLive
  <2>13. CASE StreamEnds(w)
    BY <2>13 DEF StreamEnds, StopTargetsLive
  <2>14. CASE MarkDone(w)
    BY <2>1, <2>2, <2>3, <2>14 DEF MarkDone
  <2>15. CASE AgentTakes(w)
    BY <2>15 DEF AgentTakes, StopTargetsLive
  <2>16. CASE Stop(w)
    BY <2>16 DEF Stop, StopTargetsLive
  <2>17. CASE Cancel(w)
    <3>1. \A v \in Workers \ {w} : worker'[v] = worker[v]
      BY <2>17 DEF Cancel, RouteTypeOK
    <3>2. QED
      BY <2>2, <2>17, <3>1 DEF Cancel
  <2>18. QED
    BY <1>2, <2>5, <2>6, <2>7, <2>8, <2>9, <2>10, <2>11, <2>12, <2>13, <2>14, <2>15, <2>16, <2>17
       DEF Handler
<1>3. ASSUME NEW s \in Msgs, Forward(s) PROVE StopTargetsLive'
  BY <1>3 DEF Forward, StopTargetsLive
<1>4. CASE UNCHANGED routeVars
  BY <1>4 DEF routeVars, StopTargetsLive
<1>5. QED
  BY <1>2, <1>3, <1>4 DEF RouteNext

\* What the route promises, with what makes it inductive.
RouteInv ==
    /\ RouteTypeOK
    /\ Arrived
    /\ ActiveMeansStream
    /\ NothingStranded
    /\ StopTargetsLive

\* What waits keeps something to wait for: MarkDone, the one step that may leave
\* no stream, takes all that waits with it.
LEMMA WaitingStep ==
    ASSUME RouteInv, [RouteNext]_routeVars
    PROVE  ActiveMeansStream' /\ NothingStranded'
<1>1. ASSUME NEW w \in Workers, Arrive(w) \/ Handler(w) \/ AgentTakes(w) \/ Stop(w) \/ Cancel(w)
      PROVE  ActiveMeansStream' /\ NothingStranded'
  <2>1. CASE MarkDone(w)
    <3>1. active' = FALSE /\ injectCh' = << >> /\ queue' = << >>
      BY <2>1 DEF MarkDone
    <3>2. Range(queue') = {}
      BY <3>1 DEF Range
    <3>3. QED
      BY <3>1, <3>2 DEF ActiveMeansStream, NothingStranded
  <2>2. CASE ~ MarkDone(w)
    <3>1. Flying => Flying'
      BY <1>1, <2>2, FlyingStep DEF RouteInv
    <3>2. ASSUME active' = active, injectCh' = injectCh, queue' = queue, late' = late
          PROVE  ActiveMeansStream' /\ NothingStranded'
      <4>1. ActiveMeansStream'
        BY <3>1, <3>2 DEF RouteInv, ActiveMeansStream, Flying
      <4>2. NothingStranded'
        BY <3>1, <3>2 DEF RouteInv, NothingStranded, Flying
      <4>3. QED
        BY <4>1, <4>2
    <3>3. CASE Open(w)
      <4>1. /\ worker[w].at = "start" /\ Moves(w, "register") /\ mode' = mode
            /\ active' = (active \/ mode[worker[w].msg] # "parallel")
            /\ UNCHANGED <<injectCh, queue, late>>
        BY <3>3 DEF Open
      <4>2. worker'[w].at = "register" /\ worker'[w].msg = worker[w].msg
        <5>1. WorkersTyped
          BY DEF RouteInv, RouteTypeOK, WorkersTyped, WorkerType, Typed
        <5>2. "register" \in Places \ {"free"} /\ worker[w].at # "free"
          BY <4>1 DEF Places
        <5>3. QED
          BY <4>1, <5>1, <5>2, MoveFacts
      <4>3. mode[worker[w].msg] # "parallel" => Flying'
        BY <4>1, <4>2 DEF Flying, InFlight
      <4>4. ActiveMeansStream'
        BY <3>1, <4>1, <4>3 DEF RouteInv, ActiveMeansStream, Flying
      <4>5. NothingStranded'
        BY <3>1, <4>1 DEF RouteInv, NothingStranded, Flying
      <4>6. QED
        BY <4>4, <4>5
    <3>4. CASE Inject(w)
      <4>1. active' = active /\ queue' = queue /\ late' = late
        BY <3>4 DEF Inject
      <4>2. ActiveMeansStream'
        BY <3>1, <4>1 DEF RouteInv, ActiveMeansStream, Flying
      <4>3. injectCh' = injectCh \/ Flying
        BY <3>4 DEF Inject, RouteInv, ActiveMeansStream, Flying
      <4>4. NothingStranded'
        BY <3>1, <4>1, <4>3 DEF RouteInv, NothingStranded, Flying
      <4>5. QED
        BY <4>2, <4>4
    <3>5. CASE Enqueue(w)
      <4>1. /\ active' = active /\ injectCh' = injectCh
            /\ queue' = Append(queue, worker[w].msg)
            /\ late' = IF Flying THEN late ELSE late \cup {worker[w].msg}
        BY <3>5 DEF Enqueue, Flying
      <4>2. worker[w].msg \in Msgs /\ queue \in Seq(Msgs)
        BY <3>5 DEF Enqueue, RouteInv, RouteTypeOK
      <4>3. Range(queue') = Range(queue) \cup {worker[w].msg}
        BY <4>1, <4>2, RangeFacts
      <4>4. ActiveMeansStream'
        BY <3>1, <4>1 DEF RouteInv, ActiveMeansStream, Flying
      <4>5. CASE Flying
        BY <3>1, <4>4, <4>5 DEF NothingStranded, Flying
      <4>6. CASE ~ Flying
        <5>1. injectCh = << >> /\ Range(queue) \subseteq late
          BY <4>6 DEF RouteInv, NothingStranded, Flying
        <5>2. Range(queue') \subseteq late'
          BY <4>1, <4>3, <4>6, <5>1
        <5>3. QED
          BY <4>1, <4>4, <5>1, <5>2 DEF NothingStranded
      <4>7. QED
        BY <4>4, <4>5, <4>6
    <3>6. QED
      BY <1>1, <2>2, <3>2, <3>3, <3>4, <3>5
         DEF Handler, Arrive, Refuse, Look, OpenFails, Register, Resolve, StreamEnds, AgentTakes,
             Stop, Cancel
  <2>3. QED
    BY <2>1, <2>2
<1>2. ASSUME NEW s \in Msgs, Forward(s) PROVE ActiveMeansStream' /\ NothingStranded'
  <2>1. Flying => Flying'
    BY <1>2 DEF Forward, Flying, InFlight
  <2>2. active' = active /\ queue' = queue /\ late' = late /\ injectCh # << >>
    BY <1>2 DEF Forward
  <2>3. ActiveMeansStream'
    BY <2>1, <2>2 DEF RouteInv, ActiveMeansStream, Flying
  <2>4. NothingStranded'
    BY <2>1, <2>2 DEF RouteInv, NothingStranded, Flying
  <2>5. QED
    BY <2>3, <2>4
<1>3. CASE UNCHANGED routeVars
  <2>1. Flying => Flying'
    BY <1>3 DEF routeVars, Flying, InFlight
  <2>2. UNCHANGED <<active, injectCh, queue, late>>
    BY <1>3 DEF routeVars
  <2>3. ActiveMeansStream'
    BY <2>1, <2>2 DEF RouteInv, ActiveMeansStream, Flying
  <2>4. NothingStranded'
    BY <2>1, <2>2 DEF RouteInv, NothingStranded, Flying
  <2>5. QED
    BY <2>3, <2>4
<1>4. QED
  BY <1>1, <1>2, <1>3 DEF RouteNext

\* The invariant of the route is inductive.
LEMMA RouteStep == RouteInv /\ [RouteNext]_routeVars => RouteInv'
<1> SUFFICES ASSUME RouteInv, [RouteNext]_routeVars PROVE RouteInv'
  OBVIOUS
<1>1. RouteTypeOK'
  BY RouteTypeStep DEF RouteInv
<1>2. Arrived'
  BY ArrivedStep DEF RouteInv
<1>3. StopTargetsLive'
  BY StopStep DEF RouteInv
<1>4. QED
  BY <1>1, <1>2, <1>3, WaitingStep DEF RouteInv

-----------------------------------------------------------------------------
(* Every message is in one place *)

NoRepeats(s) == \A i, j \in DOMAIN s : s[i] = s[j] => i = j

\* HandleInbound has the message in its hands: not yet put away nor answered.
Handles(w, m) == worker[w].msg = m /\ worker[w].at \notin Idle \cup {"unwind"}

\* A worker has what it handles and what its calls have yet to handle.
Carries(w, m) == Handles(w, m) \/ m \in Range(worker[w].todo)

HolderKinds == {"worker", "queue", "channel", "box", "fate"}
Holders == Workers \cup Msgs \cup {NoMsg}

Has(k, x, m) ==
    \/ k = "worker" /\ x \in Workers /\ Carries(x, m)
    \/ k = "queue" /\ x = NoMsg /\ m \in Range(queue)
    \/ k = "channel" /\ x = NoMsg /\ m \in Range(injectCh)
    \/ k = "box" /\ x \in Msgs /\ m \in Range(box[x])
    \/ k = "fate" /\ x = NoMsg /\ fate[m] # "pending"

\* No two hold the message, and somebody does once it has arrived.
OneHolder(m) ==
    /\ \A k, l \in HolderKinds : \A x, y \in Holders :
          Has(k, x, m) /\ Has(l, y, m) => k = l /\ x = y
    /\ mode[m] # "none" <=> \E k \in HolderKinds : \E x \in Holders : Has(k, x, m)

\* A worker has no message twice, and none when it handles none.
InOrder(w) ==
    /\ worker[w].at \in Idle => worker[w].todo = << >>
    /\ NoRepeats(worker[w].todo)
    /\ \A m \in Range(worker[w].todo) : ~ Handles(w, m)

OnceInv ==
    /\ \A w \in Workers : InOrder(w)
    /\ NoRepeats(queue) /\ NoRepeats(injectCh) /\ \A s \in Msgs : NoRepeats(box[s])
    /\ \A m \in Msgs : OneHolder(m)

\* A message appended to a sequence that does not have it is in it once.
LEMMA AppendOnce ==
    ASSUME NEW s \in Seq(Msgs), NEW m \in Msgs, NoRepeats(s), m \notin Range(s)
    PROVE  NoRepeats(Append(s, m))
<1>1. DOMAIN Append(s, m) = 1 .. (Len(s) + 1) /\ DOMAIN s = 1 .. Len(s) /\ Len(s) \in Nat
  OBVIOUS
<1>2. \A i \in 1 .. Len(s) : Append(s, m)[i] = s[i] /\ s[i] # m
  BY <1>1 DEF Range
<1>3. Append(s, m)[Len(s) + 1] = m
  OBVIOUS
<1>4. \A i \in 1 .. (Len(s) + 1) : i \in 1 .. Len(s) \/ i = Len(s) + 1
  BY <1>1
<1>5. \A i, j \in 1 .. Len(s) : s[i] = s[j] => i = j
  BY <1>1 DEF NoRepeats
<1>6. SUFFICES ASSUME NEW i \in 1 .. (Len(s) + 1), NEW j \in 1 .. (Len(s) + 1),
                      Append(s, m)[i] = Append(s, m)[j]
               PROVE  i = j
  BY <1>1 DEF NoRepeats
<1>7. CASE i \in 1 .. Len(s) /\ j \in 1 .. Len(s)
  BY <1>2, <1>5, <1>6, <1>7
<1>8. CASE i = Len(s) + 1 \/ j = Len(s) + 1
  BY <1>2, <1>3, <1>4, <1>6, <1>8
<1>9. QED
  BY <1>4, <1>7, <1>8

\* Without its first message a sequence that has nothing twice has the others.
LEMMA TailOnce ==
    ASSUME NEW s \in Seq(Msgs), NoRepeats(s), s # << >>
    PROVE  /\ NoRepeats(Tail(s))
           /\ Head(s) \notin Range(Tail(s))
           /\ Range(s) = Range(Tail(s)) \cup {Head(s)}
<1>1. /\ DOMAIN Tail(s) = 1 .. (Len(s) - 1) /\ DOMAIN s = 1 .. Len(s)
      /\ Len(s) \in Nat /\ Len(s) >= 1 /\ Head(s) = s[1]
  OBVIOUS
<1>2. \A i \in 1 .. (Len(s) - 1) : Tail(s)[i] = s[i + 1]
  OBVIOUS
<1>3. \A i, j \in 1 .. Len(s) : s[i] = s[j] => i = j
  BY <1>1 DEF NoRepeats
<1>4. NoRepeats(Tail(s))
  <2>1. SUFFICES ASSUME NEW i \in 1 .. (Len(s) - 1), NEW j \in 1 .. (Len(s) - 1),
                        Tail(s)[i] = Tail(s)[j]
                 PROVE  i = j
    BY <1>1 DEF NoRepeats
  <2>2. s[i + 1] = s[j + 1] /\ i + 1 \in 1 .. Len(s) /\ j + 1 \in 1 .. Len(s)
    BY <1>1, <1>2, <2>1
  <2>3. i + 1 = j + 1
    BY <1>3, <2>2
  <2>4. QED
    BY <2>3
<1>5. Head(s) \notin Range(Tail(s))
  <2>1. SUFFICES ASSUME NEW i \in 1 .. (Len(s) - 1), Tail(s)[i] = Head(s) PROVE FALSE
    BY <1>1 DEF Range
  <2>2. s[i + 1] = s[1] /\ i + 1 \in 1 .. Len(s) /\ 1 \in 1 .. Len(s) /\ i + 1 # 1
    BY <1>1, <1>2, <2>1
  <2>3. QED
    BY <1>3, <2>2
<1>6. ASSUME NEW x \in Range(s) PROVE x \in Range(Tail(s)) \cup {Head(s)}
  <2>1. PICK i \in 1 .. Len(s) : x = s[i]
    BY <1>1 DEF Range
  <2>2. CASE i = 1
    BY <1>1, <2>1, <2>2
  <2>3. CASE i # 1
    <3>1. i - 1 \in 1 .. (Len(s) - 1) /\ Tail(s)[i - 1] = s[(i - 1) + 1] /\ (i - 1) + 1 = i
      BY <1>1, <1>2, <2>3
    <3>2. i - 1 \in DOMAIN Tail(s) /\ Tail(s)[i - 1] = x
      BY <1>1, <2>1, <3>1
    <3>3. QED
      BY <3>2 DEF Range
  <2>4. QED
    BY <2>2, <2>3
<1>7. Head(s) \in Range(s)
  <2>1. 1 \in DOMAIN s
    BY <1>1
  <2>2. QED
    BY <1>1, <2>1 DEF Range
<1>8. Range(Tail(s)) \subseteq Range(s)
  BY <1>7, RangeFacts
<1>9. QED
  BY <1>4, <1>5, <1>6, <1>7, <1>8

\* Two sequences that have nothing twice and nothing in common, put together.
LEMMA BothOnce ==
    ASSUME NEW s \in Seq(Msgs), NEW t \in Seq(Msgs), NoRepeats(s), NoRepeats(t),
           \A m \in Range(s) : m \notin Range(t)
    PROVE  NoRepeats(s \o t) /\ Range(s \o t) = Range(s) \cup Range(t)
<1>1. /\ DOMAIN (s \o t) = 1 .. (Len(s) + Len(t)) /\ Len(s) \in Nat /\ Len(t) \in Nat
      /\ DOMAIN s = 1 .. Len(s) /\ DOMAIN t = 1 .. Len(t)
  OBVIOUS
<1>2. \A i \in 1 .. Len(s) : (s \o t)[i] = s[i] /\ s[i] \in Range(s)
  BY <1>1 DEF Range
<1>3. ASSUME NEW i \in 1 .. (Len(s) + Len(t)), i \notin 1 .. Len(s)
      PROVE  i - Len(s) \in 1 .. Len(t) /\ (s \o t)[i] = t[i - Len(s)]
             /\ (s \o t)[i] \in Range(t)
  <2>1. i - Len(s) \in 1 .. Len(t) /\ (s \o t)[i] = t[i - Len(s)]
    BY <1>1, <1>3
  <2>2. QED
    BY <1>1, <2>1 DEF Range
<1>4. NoRepeats(s \o t)
  <2>1. SUFFICES ASSUME NEW i \in 1 .. (Len(s) + Len(t)), NEW j \in 1 .. (Len(s) + Len(t)),
                        (s \o t)[i] = (s \o t)[j]
                 PROVE  i = j
    BY <1>1 DEF NoRepeats
  <2>2. CASE i \in 1 .. Len(s) /\ j \in 1 .. Len(s)
    BY <1>1, <1>2, <2>1, <2>2 DEF NoRepeats
  <2>3. CASE i \notin 1 .. Len(s) /\ j \notin 1 .. Len(s)
    <3>1. t[i - Len(s)] = t[j - Len(s)]
      BY <1>3, <2>1, <2>3
    <3>2. i - Len(s) = j - Len(s)
      BY <1>1, <1>3, <2>3, <3>1 DEF NoRepeats
    <3>3. QED
      BY <1>1, <3>2
  <2>4. CASE i \in 1 .. Len(s) /\ j \notin 1 .. Len(s)
    BY <1>2, <1>3, <2>1, <2>4
  <2>5. CASE i \notin 1 .. Len(s) /\ j \in 1 .. Len(s)
    BY <1>2, <1>3, <2>1, <2>5
  <2>6. QED
    BY <2>2, <2>3, <2>4, <2>5
<1>5. ASSUME NEW x \in Range(s) PROVE x \in Range(s \o t)
  <2>1. PICK i \in 1 .. Len(s) : x = s[i]
    BY <1>1 DEF Range
  <2>2. i \in DOMAIN (s \o t) /\ (s \o t)[i] = x
    BY <1>1, <1>2, <2>1
  <2>3. QED
    BY <2>2 DEF Range
<1>6. ASSUME NEW x \in Range(t) PROVE x \in Range(s \o t)
  <2>1. PICK i \in 1 .. Len(t) : x = t[i]
    BY <1>1 DEF Range
  <2>2. i + Len(s) \in DOMAIN (s \o t) /\ (s \o t)[i + Len(s)] = x
    BY <1>1, <2>1
  <2>3. QED
    BY <2>2 DEF Range
<1>7. QED
  BY <1>4, <1>5, <1>6, RangeOfBoth

\* What (k, x) has of message m goes to (l, y), and nothing else happens to it.
Passes(m, k, x, l, y) ==
    \A i \in HolderKinds : \A z \in Holders :
        Has(i, z, m)' <=> IF i = l /\ z = y THEN Has(l, y, m) \/ Has(k, x, m)
                          ELSE Has(i, z, m) /\ ~ (i = k /\ z = x)

\* A message that passes from one holder to another, or stays, still has one.
LEMMA HandedOn ==
    ASSUME NEW m \in Msgs, OneHolder(m), mode' = mode,
           NEW k \in HolderKinds, NEW x \in Holders, NEW l \in HolderKinds, NEW y \in Holders,
           Passes(m, k, x, l, y)
    PROVE  OneHolder(m)'
<1>1. (\E i \in HolderKinds : \E z \in Holders : Has(i, z, m)')
      <=> \E i \in HolderKinds : \E z \in Holders : Has(i, z, m)
  BY DEF Passes
<1>2. ASSUME NEW i \in HolderKinds, NEW j \in HolderKinds, NEW a \in Holders, NEW b \in Holders,
             Has(i, a, m)', Has(j, b, m)'
      PROVE  i = j /\ a = b
  BY <1>2 DEF OneHolder, Passes
<1>3. QED
  BY <1>1, <1>2 DEF OneHolder, HolderKinds, Holders

\* What two holders have is not the same message.
LEMMA HeldApart ==
    ASSUME OnceInv, NEW m \in Msgs, NEW k \in HolderKinds, NEW x \in Holders, Has(k, x, m),
           NEW l \in HolderKinds, NEW y \in Holders, k # l \/ x # y
    PROVE  ~ Has(l, y, m)
  BY DEF OnceInv, OneHolder

\* A handler that returns into a loop with todo left has exactly that to handle.
LEMMA ReturnCarries ==
    ASSUME RouteTypeOK, NEW w \in Workers, NEW todo \in Seq(Msgs), NoRepeats(todo),
           Return(w, todo)
    PROVE  /\ InOrder(w)'
           /\ \A m \in Msgs : Carries(w, m)' <=> m \in Range(todo)
           /\ \A v \in Workers \ {w} : /\ InOrder(v)' <=> InOrder(v)
                                       /\ \A m \in Msgs : Carries(v, m)' <=> Carries(v, m)
<1>1. WorkersTyped
  BY DEF RouteTypeOK, WorkersTyped, WorkerType, Typed
<1>2. worker'[w] = After(todo) /\ \A v \in Workers \ {w} : worker'[v] = worker[v]
  BY <1>1, ReturnFacts
<1>3. Range(<< >>) = {} /\ NoRepeats(<< >>)
  BY DEF Range, NoRepeats
<1>4. CASE todo = << >>
  <2>1. worker'[w].at = "free" /\ worker'[w].todo = << >>
    BY <1>2, <1>4 DEF After, Free
  <2>2. QED
    BY <1>2, <1>3, <1>4, <2>1 DEF InOrder, Carries, Handles, Idle
<1>5. CASE todo # << >>
  <2>1. worker'[w].at = "look" /\ worker'[w].msg = Head(todo) /\ worker'[w].todo = Tail(todo)
    BY <1>2, <1>5 DEF After
  <2>2. /\ NoRepeats(Tail(todo)) /\ Head(todo) \notin Range(Tail(todo))
        /\ Range(todo) = Range(Tail(todo)) \cup {Head(todo)}
    BY <1>5, TailOnce
  <2>3. InOrder(w)'
    BY <2>1, <2>2 DEF InOrder, Handles, Idle
  <2>4. QED
    BY <1>2, <2>1, <2>2, <2>3 DEF InOrder, Carries, Handles, Idle
<1>6. QED
  BY <1>4, <1>5

\* A handler that goes on has what it had, but its message once that is settled.
LEMMA MoveCarries ==
    ASSUME RouteTypeOK, NEW w \in Workers, NEW place \in Places \ Idle,
           worker[w].at \notin Idle \cup {"unwind"}, InOrder(w), Moves(w, place)
    PROVE  /\ InOrder(w)'
           /\ \A m \in Msgs : Carries(w, m)' <=> /\ Carries(w, m)
                                                 /\ place = "unwind" => m # worker[w].msg
           /\ \A v \in Workers \ {w} : /\ InOrder(v)' <=> InOrder(v)
                                       /\ \A m \in Msgs : Carries(v, m)' <=> Carries(v, m)
<1>1. WorkersTyped
  BY DEF RouteTypeOK, WorkersTyped, WorkerType, Typed
<1>2. /\ worker'[w].at = place /\ worker'[w].msg = worker[w].msg
      /\ worker'[w].todo = worker[w].todo
      /\ \A v \in Workers \ {w} : worker'[v] = worker[v]
  BY <1>1, MoveFacts DEF Idle
<1>3. QED
  BY <1>2 DEF InOrder, Carries, Handles, Idle

\* While it is handled a message is its worker's, once.
LEMMA OwnMessage ==
    ASSUME RouteTypeOK, OnceInv, NEW w \in Workers, worker[w].at \notin Idle \cup {"unwind"}
    PROVE  /\ worker[w].msg \in Msgs /\ Has("worker", w, worker[w].msg)
           /\ worker[w].todo \in Seq(Msgs) /\ NoRepeats(worker[w].todo)
           /\ \A m \in Msgs : Carries(w, m) <=> \/ m = worker[w].msg
                                                \/ m \in Range(worker[w].todo)
           /\ worker[w].msg \notin Range(worker[w].todo)
  BY DEF RouteTypeOK, OnceInv, InOrder, Carries, Handles, Has, Idle

\* The kinds of holders and the holders, by name.
LEMMA HolderFacts ==
    /\ {"worker", "queue", "channel", "box", "fate"} \subseteq HolderKinds
    /\ Workers \subseteq Holders /\ Msgs \subseteq Holders /\ NoMsg \in Holders
    /\ \A m \in Msgs : /\ \A w \in Workers : Has("worker", w, m) <=> Carries(w, m)
                       /\ Has("queue", NoMsg, m) <=> m \in Range(queue)
                       /\ Has("channel", NoMsg, m) <=> m \in Range(injectCh)
                       /\ \A s \in Msgs : Has("box", s, m) <=> m \in Range(box[s])
                       /\ Has("fate", NoMsg, m) <=> fate[m] # "pending"
  BY DEF HolderKinds, Holders, Has

\* A message that no step of its holders touches stays with the one that has it.
LEMMA LeftAlone ==
    ASSUME NEW m \in Msgs, OneHolder(m), mode' = mode,
           \A w \in Workers : Carries(w, m)' <=> Carries(w, m),
           m \in Range(queue)' <=> m \in Range(queue),
           m \in Range(injectCh)' <=> m \in Range(injectCh),
           \A s \in Msgs : m \in Range(box[s])' <=> m \in Range(box[s]),
           fate'[m] # "pending" <=> fate[m] # "pending"
    PROVE  OneHolder(m)'
<1>1. \A i \in HolderKinds : \A z \in Holders : Has(i, z, m)' <=> Has(i, z, m)
  BY DEF Has
<1>2. "queue" \in HolderKinds /\ NoMsg \in Holders
  BY HolderFacts
<1>3. Passes(m, "queue", NoMsg, "queue", NoMsg)
  BY <1>1 DEF Passes
<1>4. QED
  BY <1>2, <1>3, HandedOn

\* What a step of a worker does to the others' messages: nothing.
OthersKept(w) ==
    \A v \in Workers \ {w} : /\ InOrder(v)' <=> InOrder(v)
                             /\ \A m \in Msgs : Carries(v, m)' <=> Carries(v, m)

\* A message comes in: nobody had it, and a free worker has nothing else.
LEMMA ArriveOnce ==
    ASSUME RouteTypeOK, OnceInv, NEW w \in Workers, Arrive(w)
    PROVE  OnceInv'
<1>1. PICK m \in Msgs, k \in Modes :
          /\ mode[m] = "none" /\ mode' = [mode EXCEPT ![m] = k]
          /\ worker' = [worker EXCEPT ![w] = [at |-> "look", msg |-> m, todo |-> << >>]]
  BY DEF Arrive
<1>2. /\ worker[w].at = "free" /\ worker[w].todo = << >>
      /\ UNCHANGED <<injectCh, queue, box, fate>>
  BY DEF Arrive, OnceInv, InOrder, Idle
<1>3. Range(<< >>) = {} /\ NoRepeats(<< >>)
  BY DEF Range, NoRepeats
<1>4. /\ worker'[w].at = "look" /\ worker'[w].msg = m /\ worker'[w].todo = << >>
      /\ \A v \in Workers \ {w} : worker'[v] = worker[v]
  BY <1>1 DEF RouteTypeOK
<1>5. /\ OthersKept(w) /\ InOrder(w)'
      /\ \A n \in Msgs : (Carries(w, n)' <=> n = m) /\ ~ Carries(w, n)
  BY <1>2, <1>3, <1>4 DEF OthersKept, InOrder, Carries, Handles, Idle
<1>6. mode'[m] # "none" /\ \A n \in Msgs \ {m} : mode'[n] = mode[n]
  BY <1>1 DEF RouteTypeOK, Modes
<1>7. OneHolder(m)'
  <2>1. \A k_1 \in HolderKinds : \A x \in Holders : ~ Has(k_1, x, m)
    BY <1>1 DEF OnceInv, OneHolder
  <2>2. \A i \in HolderKinds : \A z \in Holders :
            Has(i, z, m)' <=> (i = "worker" /\ z = w)
    BY <1>2, <1>5, <2>1 DEF Has, OthersKept, HolderKinds, Holders
  <2>3. "worker" \in HolderKinds /\ w \in Holders
    BY HolderFacts
  <2>4. QED
    BY <1>6, <2>2, <2>3 DEF OneHolder, HolderKinds, Holders
<1>8. ASSUME NEW n \in Msgs \ {m} PROVE OneHolder(n)'
  <2>1. \A i \in HolderKinds : \A z \in Holders : Has(i, z, n)' <=> Has(i, z, n)
    BY <1>2, <1>5 DEF Has, OthersKept
  <2>2. OneHolder(n)
    BY DEF OnceInv
  <2>3. QED
    BY <1>6, <2>1, <2>2 DEF OneHolder, HolderKinds, Holders
<1>9. QED
  BY <1>2, <1>5, <1>7, <1>8 DEF OnceInv, OthersKept

\* The handler goes on with its message.
LEMMA GoOnOnce ==
    ASSUME RouteTypeOK, OnceInv, NEW w \in Workers, NEW place \in Places \ (Idle \cup {"unwind"}),
           worker[w].at \notin Idle \cup {"unwind"}, Moves(w, place),
           UNCHANGED <<mode, injectCh, queue, box, fate>>
    PROVE  OnceInv'
<1>1. /\ InOrder(w)' /\ OthersKept(w)
      /\ \A m \in Msgs : Carries(w, m)' <=> Carries(w, m)
  BY MoveCarries DEF OnceInv, OthersKept
<1>2. ASSUME NEW m \in Msgs PROVE OneHolder(m)'
  BY <1>1, LeftAlone DEF OnceInv, OthersKept
<1>3. QED
  BY <1>1, <1>2 DEF OnceInv, OthersKept

\* Inject: the message goes from the handler to the channel.
LEMMA InjectOnce ==
    ASSUME RouteTypeOK, OnceInv, NEW w \in Workers, Inject(w)
    PROVE  OnceInv'
<1>1. /\ worker[w].at = "inject"
      /\ UNCHANGED <<mode, queue, box, fate>>
  BY DEF Inject
<1>2. CASE Moves(w, "start") /\ UNCHANGED injectCh
  BY <1>1, <1>2, GoOnOnce DEF Places, Idle
<1>3. CASE injectCh' = Append(injectCh, worker[w].msg) /\ Return(w, worker[w].todo)
  <2>1. PICK c \in Msgs :
           /\ c = worker[w].msg /\ Has("worker", w, c)
           /\ worker[w].todo \in Seq(Msgs) /\ NoRepeats(worker[w].todo)
           /\ \A m \in Msgs : Carries(w, m) <=> m = c \/ m \in Range(worker[w].todo)
           /\ c \notin Range(worker[w].todo)
    BY <1>1, OwnMessage DEF Idle
  <2>2. /\ InOrder(w)' /\ OthersKept(w)
        /\ \A m \in Msgs : Carries(w, m)' <=> m \in Range(worker[w].todo)
    BY <1>3, <2>1, ReturnCarries DEF OthersKept
  <2>3. c \notin Range(injectCh)
    BY <2>1, HeldApart, HolderFacts
  <2>4. NoRepeats(injectCh') /\ Range(injectCh') = Range(injectCh) \cup {c}
    BY <1>3, <2>1, <2>3, AppendOnce, RangeFacts DEF RouteTypeOK, OnceInv
  <2>5. OneHolder(c)'
    <3>1. Passes(c, "worker", w, "channel", NoMsg)
      BY <1>1, <2>1, <2>2, <2>4 DEF Passes, Has, OthersKept, HolderKinds, Holders
    <3>2. /\ "channel" \in HolderKinds /\ "worker" \in HolderKinds
          /\ w \in Holders /\ NoMsg \in Holders
      BY HolderFacts
    <3>3. OneHolder(c) /\ mode' = mode
      BY <1>1, <2>1 DEF OnceInv
    <3>4. QED
      BY <3>1, <3>2, <3>3, HandedOn
  <2>6. ASSUME NEW m \in Msgs \ {c} PROVE OneHolder(m)'
    <3>1. OneHolder(m) /\ \A v \in Workers : Carries(v, m)' <=> Carries(v, m)
      BY <2>1, <2>2 DEF OnceInv, OthersKept
    <3>2. m \in Range(injectCh)' <=> m \in Range(injectCh)
      BY <2>4
    <3>3. QED
      BY <1>1, <3>1, <3>2, LeftAlone
  <2>7. QED
    BY <1>1, <2>2, <2>4, <2>5, <2>6 DEF OnceInv, OthersKept
<1>4. QED
  BY <1>2, <1>3 DEF Inject

\* Enqueue: the message goes from the handler to the queue.
LEMMA EnqueueOnce ==
    ASSUME RouteTypeOK, OnceInv, NEW w \in Workers, Enqueue(w)
    PROVE  OnceInv'
<1>1. /\ worker[w].at = "enqueue" /\ UNCHANGED <<mode, injectCh, box, fate>>
      /\ queue' = Append(queue, worker[w].msg) /\ Return(w, worker[w].todo)
  BY DEF Enqueue
<1>2. PICK c \in Msgs :
         /\ c = worker[w].msg /\ Has("worker", w, c)
         /\ worker[w].todo \in Seq(Msgs) /\ NoRepeats(worker[w].todo)
         /\ \A m \in Msgs : Carries(w, m) <=> m = c \/ m \in Range(worker[w].todo)
         /\ c \notin Range(worker[w].todo)
  BY <1>1, OwnMessage DEF Idle
<1>3. /\ InOrder(w)' /\ OthersKept(w)
      /\ \A m \in Msgs : Carries(w, m)' <=> m \in Range(worker[w].todo)
  BY <1>1, <1>2, ReturnCarries DEF OthersKept
<1>4. c \notin Range(queue)
  BY <1>2, HeldApart, HolderFacts
<1>5. NoRepeats(queue') /\ Range(queue') = Range(queue) \cup {c}
  BY <1>1, <1>2, <1>4, AppendOnce, RangeFacts DEF RouteTypeOK, OnceInv
<1>6. OneHolder(c)'
  <2>1. Passes(c, "worker", w, "queue", NoMsg)
    BY <1>1, <1>2, <1>3, <1>5 DEF Passes, Has, OthersKept, HolderKinds, Holders
  <2>2. /\ "queue" \in HolderKinds /\ "worker" \in HolderKinds
        /\ w \in Holders /\ NoMsg \in Holders
    BY HolderFacts
  <2>3. OneHolder(c) /\ mode' = mode
    BY <1>1, <1>2 DEF OnceInv
  <2>4. QED
    BY <2>1, <2>2, <2>3, HandedOn
<1>7. ASSUME NEW m \in Msgs \ {c} PROVE OneHolder(m)'
  <2>1. OneHolder(m) /\ \A v \in Workers : Carries(v, m)' <=> Carries(v, m)
    BY <1>2, <1>3 DEF OnceInv, OthersKept
  <2>2. m \in Range(queue)' <=> m \in Range(queue)
    BY <1>5
  <2>3. QED
    BY <1>1, <2>1, <2>2, LeftAlone
<1>8. QED
  BY <1>1, <1>3, <1>5, <1>6, <1>7 DEF OnceInv, OthersKept

\* The message is refused, its stream fails to open or is over: it is settled.
LEMMA SettleOnce ==
    ASSUME RouteTypeOK, OnceInv, NEW w \in Workers, Refuse(w) \/ OpenFails(w) \/ StreamEnds(w)
    PROVE  OnceInv'
<1>1. /\ worker[w].at \notin Idle \cup {"unwind"} /\ UNCHANGED <<mode, injectCh, queue, box>>
      /\ \E f \in {"answered", "failed"} : Settle(worker[w].msg, f)
      /\ Return(w, worker[w].todo) \/ Moves(w, "unwind")
  BY DEF Refuse, OpenFails, StreamEnds, Outcome, Idle
<1>2. PICK c \in Msgs :
         /\ c = worker[w].msg /\ Has("worker", w, c)
         /\ worker[w].todo \in Seq(Msgs) /\ NoRepeats(worker[w].todo)
         /\ \A m \in Msgs : Carries(w, m) <=> m = c \/ m \in Range(worker[w].todo)
         /\ c \notin Range(worker[w].todo)
  BY <1>1, OwnMessage DEF Idle
<1>3. fate'[c] # "pending" /\ \A m \in Msgs \ {c} : fate'[m] = fate[m]
  BY <1>1, <1>2 DEF Settle, RouteTypeOK
<1>4. /\ InOrder(w)' /\ OthersKept(w)
      /\ \A m \in Msgs : Carries(w, m)' <=> m \in Range(worker[w].todo)
  <2>1. CASE Return(w, worker[w].todo)
    BY <1>2, <2>1, ReturnCarries DEF OthersKept
  <2>2. CASE Moves(w, "unwind")
    <3>1. InOrder(w) /\ "unwind" \in Places \ Idle /\ worker[w].at \notin Idle \cup {"unwind"}
      BY <1>1 DEF OnceInv, Places, Idle
    <3>2. /\ InOrder(w)' /\ OthersKept(w)
          /\ \A m \in Msgs : Carries(w, m)' <=> Carries(w, m) /\ m # worker[w].msg
      BY <2>2, <3>1, MoveCarries DEF OthersKept
    <3>3. QED
      BY <1>2, <3>2
  <2>3. QED
    BY <1>1, <2>1, <2>2
<1>5. OneHolder(c)'
  <2>1. Passes(c, "worker", w, "fate", NoMsg)
    BY <1>1, <1>2, <1>3, <1>4 DEF Passes, Has, OthersKept, HolderKinds, Holders
  <2>2. /\ "fate" \in HolderKinds /\ "worker" \in HolderKinds
        /\ w \in Holders /\ NoMsg \in Holders
    BY HolderFacts
  <2>3. OneHolder(c) /\ mode' = mode
    BY <1>1, <1>2 DEF OnceInv
  <2>4. QED
    BY <2>1, <2>2, <2>3, HandedOn
<1>6. ASSUME NEW m \in Msgs \ {c} PROVE OneHolder(m)'
  <2>1. OneHolder(m) /\ \A v \in Workers : Carries(v, m)' <=> Carries(v, m)
    BY <1>2, <1>4 DEF OnceInv, OthersKept
  <2>2. QED
    BY <1>1, <1>3, <2>1, LeftAlone
<1>7. QED
  BY <1>1, <1>4, <1>5, <1>6 DEF OnceInv, OthersKept

\* MarkDone: what is in the channel is drained, what is in the queue comes back to
\* the handler, before what it had left to do.
LEMMA MarkDoneOnce ==
    ASSUME RouteTypeOK, OnceInv, NEW w \in Workers, MarkDone(w)
    PROVE  OnceInv'
<1> DEFINE todo == queue \o worker[w].todo
<1>1. /\ worker[w].at = "unwind" /\ UNCHANGED <<mode, box>>
      /\ injectCh' = << >> /\ queue' = << >> /\ Return(w, todo)
      /\ fate' = [m \in Msgs |-> IF m \in Range(injectCh) THEN "drained" ELSE fate[m]]
  BY DEF MarkDone
<1>2. /\ worker[w].todo \in Seq(Msgs) /\ queue \in Seq(Msgs) /\ todo \in Seq(Msgs)
      /\ NoRepeats(worker[w].todo) /\ NoRepeats(queue)
      /\ Range(queue) \subseteq Msgs
  BY DEF RouteTypeOK, OnceInv, InOrder, Range
<1>3. \A m \in Msgs : Carries(w, m) <=> m \in Range(worker[w].todo)
  BY <1>1 DEF Carries, Handles, Idle
<1>4. /\ "worker" \in HolderKinds /\ "queue" \in HolderKinds /\ "channel" \in HolderKinds
      /\ "fate" \in HolderKinds /\ w \in Holders /\ NoMsg \in Holders
  BY HolderFacts
<1>5. \A m \in Msgs : m \in Range(queue) => m \notin Range(worker[w].todo)
                                            /\ m \notin Range(injectCh)
  <2>1. SUFFICES ASSUME NEW m \in Msgs, m \in Range(queue)
                 PROVE  m \notin Range(worker[w].todo) /\ m \notin Range(injectCh)
    OBVIOUS
  <2>2. Has("queue", NoMsg, m)
    BY <2>1, HolderFacts
  <2>3. ~ Has("worker", w, m) /\ ~ Has("channel", NoMsg, m)
    BY <1>4, <2>2, HeldApart
  <2>4. QED
    BY <1>3, <2>3, HolderFacts
<1>6. NoRepeats(todo) /\ Range(todo) = Range(queue) \cup Range(worker[w].todo)
  BY <1>2, <1>5, BothOnce
<1>7. /\ InOrder(w)' /\ OthersKept(w)
      /\ \A m \in Msgs : Carries(w, m)' <=> m \in Range(queue) \/ Carries(w, m)
  BY <1>1, <1>2, <1>3, <1>6, ReturnCarries DEF OthersKept
<1>8. Range(<< >>) = {} /\ NoRepeats(<< >>)
  BY DEF Range, NoRepeats
<1>9. ASSUME NEW m \in Msgs PROVE OneHolder(m)'
  <2>1. OneHolder(m) /\ mode' = mode
    BY <1>1 DEF OnceInv
  <2>2. m \notin Range(queue)' /\ m \notin Range(injectCh)'
    BY <1>1, <1>8
  <2>3. fate'[m] # "pending" <=> fate[m] # "pending" \/ m \in Range(injectCh)
    BY <1>1
  <2>4. CASE m \in Range(queue)
    <3>1. m \notin Range(injectCh)
      BY <1>5, <2>4
    <3>2. Passes(m, "queue", NoMsg, "worker", w)
      BY <1>1, <1>7, <2>2, <2>3, <2>4, <3>1 DEF Passes, Has, OthersKept, HolderKinds, Holders
    <3>3. QED
      BY <1>4, <2>1, <3>2, HandedOn
  <2>5. CASE m \notin Range(queue)
    <3>1. Passes(m, "channel", NoMsg, "fate", NoMsg)
      BY <1>1, <1>7, <2>2, <2>3, <2>5 DEF Passes, Has, OthersKept, HolderKinds, Holders
    <3>2. QED
      BY <1>4, <2>1, <3>1, HandedOn
  <2>6. QED
    BY <2>4, <2>5
<1>10. QED
  BY <1>1, <1>7, <1>8, <1>9 DEF OnceInv, OthersKept

\* The agent hears what its forwarder put into its box.
LEMMA TakesOnce ==
    ASSUME RouteTypeOK, OnceInv, NEW w \in Workers, AgentTakes(w)
    PROVE  OnceInv'
<1>1. PICK s \in Msgs :
         /\ fate' = [m \in Msgs |-> IF m \in Range(box[s]) THEN "heard" ELSE fate[m]]
         /\ box' = [box EXCEPT ![s] = << >>]
  BY DEF AgentTakes, RouteTypeOK
<1>2. UNCHANGED <<mode, worker, injectCh, queue>>
  BY DEF AgentTakes
<1>3. Range(<< >>) = {} /\ NoRepeats(<< >>)
  BY DEF Range, NoRepeats
<1>4. box'[s] = << >> /\ \A t \in Msgs \ {s} : box'[t] = box[t]
  BY <1>1 DEF RouteTypeOK
<1>5. \A v \in Workers : /\ InOrder(v)' <=> InOrder(v)
                         /\ \A m \in Msgs : Carries(v, m)' <=> Carries(v, m)
  BY <1>2 DEF InOrder, Carries, Handles, Idle
<1>6. ASSUME NEW m \in Msgs PROVE OneHolder(m)'
  <2>1. OneHolder(m) /\ mode' = mode
    BY <1>2 DEF OnceInv
  <2>2. fate'[m] # "pending" <=> fate[m] # "pending" \/ m \in Range(box[s])
    BY <1>1
  <2>3. Passes(m, "box", s, "fate", NoMsg)
    BY <1>2, <1>3, <1>4, <1>5, <2>2 DEF Passes, Has, HolderKinds, Holders
  <2>4. /\ "box" \in HolderKinds /\ "fate" \in HolderKinds
        /\ s \in Holders /\ NoMsg \in Holders
    BY HolderFacts
  <2>5. QED
    BY <2>1, <2>3, <2>4, HandedOn
<1>7. NoRepeats(queue)' /\ NoRepeats(injectCh)' /\ \A t \in Msgs : NoRepeats(box'[t])
  BY <1>2, <1>3, <1>4 DEF OnceInv
<1>8. QED
  BY <1>5, <1>6, <1>7 DEF OnceInv

\* A forwarder moves the first message of the channel to its stream's box.
LEMMA ForwardOnce ==
    ASSUME RouteTypeOK, OnceInv, NEW s \in Msgs, Forward(s)
    PROVE  OnceInv'
<1>1. /\ injectCh # << >> /\ injectCh \in Seq(Msgs) /\ box[s] \in Seq(Msgs)
      /\ UNCHANGED <<mode, worker, queue, fate>>
      /\ injectCh' = Tail(injectCh)
      /\ box' = [box EXCEPT ![s] = Append(@, Head(injectCh))]
  BY DEF Forward, RouteTypeOK
<1>2. PICK c \in Msgs : c = Head(injectCh)
  BY <1>1
<1>3. /\ NoRepeats(injectCh') /\ c \notin Range(injectCh')
      /\ Range(injectCh) = Range(injectCh') \cup {c}
  BY <1>1, <1>2, TailOnce DEF OnceInv
<1>4. box'[s] = Append(box[s], c) /\ \A t \in Msgs \ {s} : box'[t] = box[t]
  BY <1>1, <1>2 DEF RouteTypeOK
<1>5. /\ "box" \in HolderKinds /\ "channel" \in HolderKinds
      /\ s \in Holders /\ NoMsg \in Holders
  BY HolderFacts
<1>6. c \notin Range(box[s])
  <2>1. Has("channel", NoMsg, c)
    BY <1>3, HolderFacts
  <2>2. ~ Has("box", s, c)
    BY <1>5, <2>1, HeldApart
  <2>3. QED
    BY <2>2, HolderFacts
<1>7. NoRepeats(box'[s]) /\ Range(box'[s]) = Range(box[s]) \cup {c}
  BY <1>1, <1>4, <1>6, AppendOnce, RangeFacts DEF OnceInv
<1>8. \A v \in Workers : /\ InOrder(v)' <=> InOrder(v)
                         /\ \A m \in Msgs : Carries(v, m)' <=> Carries(v, m)
  BY <1>1 DEF InOrder, Carries, Handles, Idle
<1>9. OneHolder(c)'
  <2>1. OneHolder(c) /\ mode' = mode
    BY <1>1 DEF OnceInv
  <2>2. Passes(c, "channel", NoMsg, "box", s)
    BY <1>1, <1>3, <1>4, <1>7, <1>8 DEF Passes, Has, HolderKinds, Holders
  <2>3. QED
    BY <1>5, <2>1, <2>2, HandedOn
<1>10. ASSUME NEW m \in Msgs \ {c} PROVE OneHolder(m)'
  <2>1. OneHolder(m) /\ mode' = mode
    BY <1>1 DEF OnceInv
  <2>2. m \in Range(injectCh)' <=> m \in Range(injectCh)
    BY <1>3
  <2>3. \A t \in Msgs : m \in Range(box[t])' <=> m \in Range(box[t])
    BY <1>4, <1>7
  <2>4. QED
    BY <1>1, <1>8, <2>1, <2>2, <2>3, LeftAlone
<1>11. \A t \in Msgs : NoRepeats(box'[t])
  BY <1>4, <1>7 DEF OnceInv
<1>12. QED
  BY <1>1, <1>3, <1>8, <1>9, <1>10, <1>11 DEF OnceInv

\* No step of the route loses a message or makes two of it.
LEMMA OnceStep == RouteTypeOK /\ OnceInv /\ [RouteNext]_routeVars => OnceInv'
<1> SUFFICES ASSUME RouteTypeOK, OnceInv, [RouteNext]_routeVars PROVE OnceInv'
  OBVIOUS
<1>1. ASSUME NEW w \in Workers, Handler(w) PROVE OnceInv'
  <2>1. CASE Look(w)
    <3>1. PICK place \in {"start", "inject", "enqueue"} : Moves(w, place)
      BY <2>1 DEF Look
    <3>2. place \in Places \ (Idle \cup {"unwind"}) /\ worker[w].at \notin Idle \cup {"unwind"}
      BY <2>1 DEF Look, Places, Idle
    <3>3. UNCHANGED <<mode, injectCh, queue, box, fate>>
      BY <2>1 DEF Look
    <3>4. QED
      BY <3>1, <3>2, <3>3, GoOnOnce
  <2>2. CASE Open(w)
    BY <2>2, GoOnOnce DEF Open, Places, Idle
  <2>3. CASE Register(w)
    BY <2>3, GoOnOnce DEF Register, Places, Idle
  <2>4. CASE Resolve(w)
    BY <2>4, GoOnOnce DEF Resolve, Places, Idle
  <2>5. QED
    BY <1>1, <2>1, <2>2, <2>3, <2>4, InjectOnce, EnqueueOnce, SettleOnce, MarkDoneOnce
       DEF Handler
<1>2. ASSUME NEW w \in Workers, Stop(w) \/ Cancel(w) PROVE OnceInv'
  <2>1. UNCHANGED <<mode, injectCh, queue, box, fate>>
    BY <1>2 DEF Stop, Cancel
  <2>2. /\ worker[w].at \in Idle /\ worker'[w].at \in Idle
        /\ worker'[w].todo = worker[w].todo
        /\ \A v \in Workers \ {w} : worker'[v] = worker[v]
    <3>1. worker[w].at \in Idle /\ worker[w].todo = << >>
      BY <1>2 DEF Stop, Cancel, Idle, OnceInv, InOrder
    <3>2. CASE worker' = worker
      BY <3>1, <3>2
    <3>3. CASE Cancel(w)
      BY <3>1, <3>3 DEF Cancel, Free, Idle, RouteTypeOK
    <3>4. CASE Stop(w) /\ stoppable # NoMsg
      BY <3>1, <3>4 DEF Stop, Idle, RouteTypeOK
    <3>5. QED
      BY <1>2, <3>2, <3>3, <3>4 DEF Stop
  <2>3. \A v \in Workers : /\ InOrder(v)' <=> InOrder(v)
                           /\ \A m \in Msgs : Carries(v, m)' <=> Carries(v, m)
    BY <2>2 DEF InOrder, Carries, Handles
  <2>4. ASSUME NEW m \in Msgs PROVE OneHolder(m)'
    BY <2>1, <2>3, LeftAlone DEF OnceInv
  <2>5. QED
    BY <2>1, <2>3, <2>4 DEF OnceInv
<1>3. CASE UNCHANGED routeVars
  <2>1. UNCHANGED <<mode, worker, injectCh, queue, box, fate>>
    BY <1>3 DEF routeVars
  <2>2. \A v \in Workers : /\ InOrder(v)' <=> InOrder(v)
                           /\ \A m \in Msgs : Carries(v, m)' <=> Carries(v, m)
    BY <2>1 DEF InOrder, Carries, Handles, Idle
  <2>3. ASSUME NEW m \in Msgs PROVE OneHolder(m)'
    BY <2>1, <2>2, LeftAlone DEF OnceInv
  <2>4. QED
    BY <2>1, <2>2, <2>3 DEF OnceInv
<1>4. QED
  BY <1>1, <1>2, <1>3, ArriveOnce, TakesOnce, ForwardOnce DEF RouteNext

-----------------------------------------------------------------------------
(* The discuss session *)

HandlerType == [at : HandlerPlaces, time : Nat, rc : Nat, to : Nat]

\* The order of the natural numbers, as the relation the library speaks of.
LEMMA LessWellFounded == IsWellFoundedOn({p \in Nat \X Nat : p[1] < p[2]}, Nat)
  BY NatLessThanWellFounded, Zenon DEF OpToRel

\* Of finitely many bounded times one is the latest, so the cursor is at or after
\* everything it should cover.
LEMMA ConsumedFacts ==
    ASSUME NEW k \in Nat, NEW after \in Nat, NEW bound \in Nat, after <= bound,
           \A e \in 1 .. k : order[e] \in Nat /\ order[e] <= bound
    PROVE  /\ Consumed(k, after) \in Nat /\ Consumed(k, after) <= bound
           /\ after <= Consumed(k, after)
           /\ \A e \in 1 .. k : order[e] <= Consumed(k, after)
<1> DEFINE S == {after} \cup {order[e] : e \in 1 .. k}
           T == {bound - t : t \in S}
<1>1. S \subseteq 0 .. bound
  OBVIOUS
<1>2. T \subseteq Nat /\ T # {}
  BY <1>1
<1>3. PICK x \in T : \A y \in T : ~ (<<y, x>> \in {p \in Nat \X Nat : p[1] < p[2]})
  BY <1>2, LessWellFounded, WFMin
<1>4. \A y \in T : x <= y
  <2>1. TAKE y \in T
  <2>2. <<y, x>> \in Nat \X Nat /\ <<y, x>>[1] = y /\ <<y, x>>[2] = x
    BY <1>2
  <2>3. ~ y < x
    BY <1>3, <2>2
  <2>4. QED
    BY <1>2, <2>3
<1>5. PICK t \in S : x = bound - t
  OBVIOUS
<1>6. \A s \in S : s <= t
  <2>1. TAKE s \in S
  <2>2. bound - t <= bound - s
    BY <1>4, <1>5
  <2>3. QED
    BY <1>1, <2>2
<1>7. Consumed(k, after) \in S /\ \A s \in S : s <= Consumed(k, after)
  BY <1>6 DEF Consumed
<1> HIDE DEF T
<1>8. after \in S /\ \A e \in 1 .. k : order[e] \in S
  OBVIOUS
<1>9. QED
  BY <1>1, <1>7, <1>8

\* Nothing is from the future, and every context is one of events pushed before.
ClockSound ==
    /\ now >= 1
    /\ \A e \in 1 .. Len(order) : order[e] >= 1 /\ order[e] <= now
    /\ \A w \in Workers : /\ handler[w].at = "push" => /\ handler[w].time >= 1
                                                       /\ handler[w].time <= now
                          /\ handler[w].rc <= Len(order)
    /\ \A i \in 1 .. Len(rcCh) : rcCh[i] <= Len(order)
    /\ listed <=> driver # "none"

\* An event the goroutine has put to the agent is in the agent's run, or at or before the
\* cursor.
AskedSound ==
    \A e \in Events : asked[e] # 0 =>
        /\ asked[e] = 1
        /\ e <= Len(order)
        /\ (driver = "asking" /\ e <= rc) \/ order[e] <= lastProcessedMs

DiscussInv == DiscussTypeOK /\ ClockSound /\ AskedSound

\* What handlers and contexts are when one worker's handler or the channel changes.
LEMMA PushFacts ==
    ASSUME NEW s \in Seq(Nat), NEW n \in Nat
    PROVE  /\ Append(s, n) \in Seq(Nat) /\ Len(Append(s, n)) = Len(s) + 1
           /\ \A i \in 1 .. Len(s) : Append(s, n)[i] = s[i]
           /\ Append(s, n)[Len(s) + 1] = n
  OBVIOUS

\* What is left of a channel when its first context is taken.
LEMMA TakeFacts ==
    ASSUME NEW s \in Seq(Nat), s # << >>
    PROVE  /\ Tail(s) \in Seq(Nat) /\ Len(Tail(s)) = Len(s) - 1 /\ Len(s) >= 1
           /\ \A i \in 1 .. Len(Tail(s)) : Tail(s)[i] = s[i + 1]
           /\ s[Len(s)] \in Nat
  OBVIOUS

\* What PushEvent and Lookup make of a handler.
Pushed(h, n) == [h EXCEPT !.at = "lookup", !.rc = n]
Found(h, n) == [h EXCEPT !.at = "send", !.to = n]

\* Both stay records of a handler, and keep or set its context.
LEMMA RecordFacts ==
    ASSUME NEW h \in HandlerType, NEW n \in Nat
    PROVE  /\ Pushed(h, n) \in HandlerType
           /\ Pushed(h, n).at = "lookup"
           /\ Pushed(h, n).rc = n
           /\ Found(h, n) \in HandlerType
           /\ Found(h, n).at = "send"
           /\ Found(h, n).rc = h.rc
  BY DEF HandlerType, HandlerPlaces, Pushed, Found

\* A handler's record stays a record of its type, with a context that exists.
LEMMA HandlerFacts ==
    ASSUME DiscussTypeOK, NEW w \in Workers, NEW r \in HandlerType,
           handler' = [handler EXCEPT ![w] = r]
    PROVE  /\ handler' \in [Workers -> HandlerType]
           /\ handler'[w] = r
           /\ \A v \in Workers \ {w} : handler'[v] = handler[v]
  BY DEF DiscussTypeOK, HandlerType


\* The steps that leave the channel or the handlers alone, or only move a handler.
LEMMA LeaveFacts ==
    ASSUME DiscussTypeOK, ClockSound, NEW w \in Workers,
           NEW place \in HandlerPlaces \ {"push"}, Leave(w, place)
    PROVE  /\ handler' \in [Workers -> HandlerType]
           /\ \A v \in Workers : /\ handler'[v].rc <= Len(order)
                                 /\ handler'[v].at = "push" => handler'[v] = handler[v]
<1>1. handler[w] \in HandlerType
  BY DEF DiscussTypeOK, HandlerType
<1>2. Nobody \in HandlerType
  BY DEF Nobody, HandlerType, HandlerPlaces
<1>3. [handler[w] EXCEPT !.at = place] \in HandlerType
  BY <1>1 DEF HandlerType
<1>4. CASE place = "free"
  <2>1. handler' = [handler EXCEPT ![w] = Nobody]
    BY <1>4 DEF Leave
  <2>2. /\ handler' \in [Workers -> HandlerType] /\ handler'[w] = Nobody
        /\ \A v \in Workers \ {w} : handler'[v] = handler[v]
    BY <1>2, <2>1, HandlerFacts
  <2>3. Nobody.rc = 0 /\ Nobody.at = "free" /\ Len(order) \in Nat
    BY DEF Nobody, DiscussTypeOK
  <2>4. QED
    BY <2>2, <2>3 DEF ClockSound
<1>5. CASE place # "free"
  <2>1. handler' = [handler EXCEPT ![w] = [handler[w] EXCEPT !.at = place]]
    BY <1>5 DEF Leave
  <2>2. [handler[w] EXCEPT !.at = place].at = place /\ [handler[w] EXCEPT !.at = place].rc = handler[w].rc
    BY <1>1 DEF HandlerType
  <2>3. QED
    BY <1>3, <2>1, <2>2, HandlerFacts DEF ClockSound
<1>6. QED
  BY <1>4, <1>5

\* A handler's steps keep types and times; none of them touches the agent's runs.
LEMMA NotifySteps ==
    ASSUME DiscussTypeOK, ClockSound, NEW w \in Workers, Notify(w)
    PROVE  DiscussTypeOK' /\ ClockSound'
<1> USE DiscussAssumption
<1>1. handler[w] \in HandlerType
  BY DEF DiscussTypeOK, HandlerType
<1>2. handler' \in [Workers -> HandlerType] => handler' \in [Workers -> [at : HandlerPlaces, time : Nat, rc : Nat, to : Nat]]
  BY DEF HandlerType
<1>3. CASE Received(w)
  <2>1. PICK t \in {now, now + 1} : /\ now' = t
                                    /\ handler' = [handler EXCEPT ![w] = [at |-> "push", time |-> t, rc |-> 0, to |-> 0]]
    BY <1>3 DEF Received
  <2>2. t \in Nat /\ t >= now
    BY <2>1 DEF DiscussTypeOK
  <2>4. [at |-> "push", time |-> t, rc |-> 0, to |-> 0] \in HandlerType
    BY <2>2 DEF HandlerType, HandlerPlaces
  <2>5. /\ handler' \in [Workers -> HandlerType]
        /\ handler'[w] = [at |-> "push", time |-> t, rc |-> 0, to |-> 0]
        /\ \A v \in Workers \ {w} : handler'[v] = handler[v]
    BY <2>1, <2>4, HandlerFacts
  <2>6. UNCHANGED <<order, started, listed, driver, rcCh, rc, lastProcessedMs, stored, asked>>
    BY <1>3 DEF Received
  <2>7. DiscussTypeOK'
    BY <1>2, <2>1, <2>2, <2>5, <2>6 DEF DiscussTypeOK
  <2>8. ASSUME NEW v \in Workers
        PROVE  /\ handler'[v].at = "push" => handler'[v].time >= 1 /\ handler'[v].time <= now'
               /\ handler'[v].rc <= Len(order')
    <3>1. CASE v = w
      BY <2>1, <2>2, <2>5, <2>6, <3>1 DEF ClockSound, DiscussTypeOK
    <3>2. CASE v # w
      <4>1. handler'[v] = handler[v] /\ handler[v] \in HandlerType
        BY <2>5, <3>2 DEF DiscussTypeOK, HandlerType
      <4>2. handler[v].time \in Nat
        BY <4>1 DEF HandlerType
      <4>3. QED
        BY <2>1, <2>2, <2>6, <4>1, <4>2 DEF ClockSound, DiscussTypeOK
    <3>3. QED
      BY <3>1, <3>2
  <2>9. \A e \in 1 .. Len(order) : order[e] \in Nat
    BY DEF DiscussTypeOK
  <2>10. QED
    BY <2>1, <2>2, <2>6, <2>7, <2>8, <2>9 DEF ClockSound, DiscussTypeOK
<1>4. CASE PushEvent(w)
  <2> DEFINE r == Pushed(handler[w], Len(order) + 1)
  <2>1. handler' = [handler EXCEPT ![w] = r] /\ order' = Append(order, handler[w].time)
    BY <1>4 DEF PushEvent, Pushed
  <2>2. Len(order) \in Nat /\ order \in Seq(Nat)
    BY DEF DiscussTypeOK
  <2>3. r \in HandlerType /\ r.at = "lookup" /\ r.rc = Len(order) + 1
    <3>1. Len(order) + 1 \in Nat
      BY <2>2
    <3>2. r \in HandlerType
      BY <1>1, <3>1, RecordFacts
    <3>3. r.at = "lookup"
      BY <1>1, <3>1, RecordFacts
    <3>4. r.rc = Len(order) + 1
      <4>1. \A n \in Nat : Pushed(handler[w], n).rc = n
        BY <1>1, RecordFacts
      <4>2. QED
        BY <3>1, <4>1
    <3>5. QED
      BY <3>2, <3>3, <3>4
  <2> HIDE DEF r
  <2>4. /\ handler' \in [Workers -> HandlerType]
        /\ handler'[w] = r
        /\ \A v \in Workers \ {w} : handler'[v] = handler[v]
    BY <2>1, <2>3, HandlerFacts
  <2>5. handler[w].time \in Nat /\ handler[w].time >= 1 /\ handler[w].time <= now
    BY <1>1, <1>4 DEF PushEvent, ClockSound, HandlerType
  <2>6. /\ order' \in Seq(Nat) /\ Len(order') = Len(order) + 1
        /\ \A i \in 1 .. Len(order) : order'[i] = order[i]
        /\ order'[Len(order) + 1] = handler[w].time
    BY <2>1, <2>2, <2>5, PushFacts
  <2>7. UNCHANGED <<now, started, listed, driver, rcCh, rc, lastProcessedMs, stored, asked>>
    BY <1>4 DEF PushEvent
  <2>8. DiscussTypeOK'
    BY <1>2, <2>2, <2>4, <2>6, <2>7 DEF DiscussTypeOK
  <2>9. ASSUME NEW e \in 1 .. Len(order') PROVE order'[e] >= 1 /\ order'[e] <= now'
    <3>1. now' = now
      BY <2>7
    <3>2. CASE e = Len(order) + 1
      BY <2>5, <2>6, <3>1, <3>2
    <3>3. CASE e # Len(order) + 1
      <4>1. e \in 1 .. Len(order)
        BY <2>2, <2>6, <3>3
      <4>2. order'[e] = order[e] /\ order[e] >= 1 /\ order[e] <= now
        BY <2>6, <4>1 DEF ClockSound
      <4>3. QED
        BY <3>1, <4>2
    <3>4. QED
      BY <3>2, <3>3
  <2>10. ASSUME NEW v \in Workers
        PROVE  /\ handler'[v].at = "push" => handler'[v].time >= 1 /\ handler'[v].time <= now'
               /\ handler'[v].rc <= Len(order')
    <3>1. CASE v = w
      BY <2>2, <2>3, <2>4, <2>6, <3>1
    <3>2. CASE v # w
      <4>1. handler'[v] = handler[v] /\ handler[v].rc \in Nat
        BY <2>4, <3>2 DEF DiscussTypeOK
      <4>2. QED
        BY <2>2, <2>6, <2>7, <4>1 DEF ClockSound
    <3>3. QED
      BY <3>1, <3>2
  <2>11. \A i \in 1 .. Len(rcCh') : rcCh'[i] <= Len(order')
    BY <2>2, <2>6, <2>7 DEF ClockSound, DiscussTypeOK
  <2>12. QED
    BY <2>7, <2>8, <2>9, <2>10, <2>11 DEF ClockSound
<1>5. CASE Lookup(w)
  <2>1. PICK n \in Nat : handler' = [handler EXCEPT ![w].at = "send", ![w].to = n]
    <3>1. started \in Nat /\ started + 1 \in Nat
      BY DEF DiscussTypeOK
    <3>2. CASE handler' = [handler EXCEPT ![w].at = "send", ![w].to = started]
      BY <3>1, <3>2
    <3>3. CASE handler' = [handler EXCEPT ![w].at = "send", ![w].to = started + 1]
      BY <3>1, <3>3
    <3>4. QED
      BY <1>5, <3>2, <3>3 DEF Lookup
  <2> DEFINE r == Found(handler[w], n)
  <2>2. r \in HandlerType /\ r.at = "send" /\ r.rc = handler[w].rc
    <3>1. r \in HandlerType
      BY <1>1, RecordFacts
    <3>2. r.at = "send"
      BY <1>1, RecordFacts
    <3>3. r.rc = handler[w].rc
      BY <1>1, RecordFacts
    <3>4. QED
      BY <3>1, <3>2, <3>3
  <2>3. handler' = [handler EXCEPT ![w] = r]
    BY <2>1 DEF Found
  <2> HIDE DEF r
  <2>4. /\ handler' \in [Workers -> HandlerType]
        /\ handler'[w] = r
        /\ \A v \in Workers \ {w} : handler'[v] = handler[v]
    BY <2>2, <2>3, HandlerFacts
  <2>5. UNCHANGED <<now, order, stored>>
    BY <1>5 DEF Lookup
  <2>6. \/ UNCHANGED <<started, listed, driver, rcCh, rc, lastProcessedMs, asked>>
        \/ /\ started' = started + 1 /\ listed' = TRUE /\ driver' = "listening"
           /\ rcCh' = << >> /\ rc' = 0 /\ lastProcessedMs' = 0 /\ asked' = [e \in Events |-> 0]
    BY <1>5 DEF Lookup
  <2>7. DiscussTypeOK'
    <3>1. CASE UNCHANGED <<started, listed, driver, rcCh, rc, lastProcessedMs, asked>>
      BY <1>2, <2>4, <2>5, <3>1 DEF DiscussTypeOK
    <3>2. CASE /\ started' = started + 1 /\ listed' = TRUE /\ driver' = "listening"
               /\ rcCh' = << >> /\ rc' = 0 /\ lastProcessedMs' = 0 /\ asked' = [e \in Events |-> 0]
      <4>1. << >> \in Seq(Nat) /\ Len(<< >>) = 0
        OBVIOUS
      <4>2. QED
        BY <1>2, <2>4, <2>5, <3>2, <4>1 DEF DiscussTypeOK
    <3>3. QED
      BY <2>6, <3>1, <3>2
  <2>8. \A v \in Workers : /\ handler'[v].at = "push" => handler'[v].time >= 1 /\ handler'[v].time <= now'
                           /\ handler'[v].rc <= Len(order')
    BY <2>2, <2>4, <2>5 DEF ClockSound
  <2>9. \A i \in 1 .. Len(rcCh') : rcCh'[i] <= Len(order')
    BY <2>5, <2>6 DEF ClockSound
  <2>10. listed' <=> driver' # "none"
    BY <2>6 DEF ClockSound
  <2>11. QED
    BY <2>5, <2>7, <2>8, <2>9, <2>10 DEF ClockSound

<1>6. CASE Send(w)
  <2>1. PICK place \in HandlerPlaces \ {"push"} : Leave(w, place)
    BY <1>6 DEF Send, HandlerPlaces
  <2>2. /\ handler' \in [Workers -> HandlerType]
        /\ \A v \in Workers : /\ handler'[v].rc <= Len(order)
                              /\ handler'[v].at = "push" => handler'[v] = handler[v]
    BY <2>1, LeaveFacts
  <2>3. UNCHANGED <<now, order, started, listed, driver, rc, lastProcessedMs, stored, asked>>
    BY <1>6 DEF Send, DriverRest
  <2>4. /\ rcCh' \in Seq(Nat) /\ Len(rcCh') <= RcCap
        /\ \A i \in 1 .. Len(rcCh') : rcCh'[i] <= Len(order)
    <3>1. rcCh \in Seq(Nat) /\ Len(rcCh) <= RcCap /\ \A i \in 1 .. Len(rcCh) : rcCh[i] <= Len(order)
      BY DEF DiscussTypeOK, ClockSound
    <3>2. CASE rcCh' = rcCh
      BY <3>1, <3>2
    <3>3. CASE rcCh' = Append(rcCh, handler[w].rc) /\ Len(rcCh) < RcCap
      <4>1. handler[w].rc \in Nat /\ handler[w].rc <= Len(order)
        BY <1>1 DEF HandlerType, ClockSound
      <4>2. /\ rcCh' \in Seq(Nat) /\ Len(rcCh') = Len(rcCh) + 1
            /\ \A i \in 1 .. Len(rcCh) : rcCh'[i] = rcCh[i]
            /\ rcCh'[Len(rcCh) + 1] = handler[w].rc
        BY <3>1, <3>3, <4>1, PushFacts
      <4>3. Len(rcCh) \in Nat
        BY <3>1
      <4>4. QED
        BY <3>1, <3>3, <4>1, <4>2, <4>3
    <3>4. QED
      BY <1>6, <3>1, <3>2, <3>3 DEF Send, DiscussTypeOK
  <2>5. DiscussTypeOK'
    BY <1>2, <2>2, <2>3, <2>4 DEF DiscussTypeOK
  <2>6. \A v \in Workers : /\ handler'[v].at = "push" => handler'[v].time >= 1 /\ handler'[v].time <= now'
                           /\ handler'[v].rc <= Len(order')
    BY <2>2, <2>3 DEF ClockSound
  <2>7. QED
    BY <2>3, <2>4, <2>5, <2>6 DEF ClockSound

<1>7. CASE DropOldest(w)
  <2>1. PICK place \in HandlerPlaces \ {"push"} : Leave(w, place)
    BY <1>7 DEF DropOldest, HandlerPlaces
  <2>2. /\ handler' \in [Workers -> HandlerType]
        /\ \A v \in Workers : /\ handler'[v].rc <= Len(order)
                              /\ handler'[v].at = "push" => handler'[v] = handler[v]
    BY <2>1, LeaveFacts
  <2>3. UNCHANGED <<now, order, started, listed, driver, rc, lastProcessedMs, stored, asked>>
    BY <1>7 DEF DropOldest, DriverRest
  <2>4. /\ rcCh' \in Seq(Nat) /\ Len(rcCh') <= RcCap
        /\ \A i \in 1 .. Len(rcCh') : rcCh'[i] <= Len(order)
    <3>1. rcCh \in Seq(Nat) /\ Len(rcCh) <= RcCap /\ \A i \in 1 .. Len(rcCh) : rcCh[i] <= Len(order)
      BY DEF DiscussTypeOK, ClockSound
    <3>2. CASE rcCh' = rcCh
      BY <3>1, <3>2
    <3>3. CASE rcCh' = Tail(rcCh) /\ rcCh # << >>
      <4>1. /\ Tail(rcCh) \in Seq(Nat) /\ Len(Tail(rcCh)) = Len(rcCh) - 1 /\ Len(rcCh) >= 1
            /\ \A i \in 1 .. Len(Tail(rcCh)) : Tail(rcCh)[i] = rcCh[i + 1]
        BY <3>1, <3>3, TakeFacts
      <4>2. Len(rcCh) \in Nat
        BY <3>1
      <4>3. QED
        BY <3>1, <3>3, <4>1, <4>2
    <3>4. QED
      BY <1>7, <3>2, <3>3 DEF DropOldest
  <2>5. DiscussTypeOK'
    BY <1>2, <2>2, <2>3, <2>4 DEF DiscussTypeOK
  <2>6. \A v \in Workers : /\ handler'[v].at = "push" => handler'[v].time >= 1 /\ handler'[v].time <= now'
                           /\ handler'[v].rc <= Len(order')
    BY <2>2, <2>3 DEF ClockSound
  <2>7. QED
    BY <2>3, <2>4, <2>5, <2>6 DEF ClockSound

<1>8. CASE Resend(w)
  <2>1. PICK place \in HandlerPlaces \ {"push"} : Leave(w, place)
    BY <1>8 DEF Resend, HandlerPlaces
  <2>2. /\ handler' \in [Workers -> HandlerType]
        /\ \A v \in Workers : /\ handler'[v].rc <= Len(order)
                              /\ handler'[v].at = "push" => handler'[v] = handler[v]
    BY <2>1, LeaveFacts
  <2>3. UNCHANGED <<now, order, started, listed, driver, rc, lastProcessedMs, stored, asked>>
    BY <1>8 DEF Resend, DriverRest
  <2>4. /\ rcCh' \in Seq(Nat) /\ Len(rcCh') <= RcCap
        /\ \A i \in 1 .. Len(rcCh') : rcCh'[i] <= Len(order)
    <3>1. rcCh \in Seq(Nat) /\ Len(rcCh) <= RcCap /\ \A i \in 1 .. Len(rcCh) : rcCh[i] <= Len(order)
      BY DEF DiscussTypeOK, ClockSound
    <3>2. CASE rcCh' = rcCh
      BY <3>1, <3>2
    <3>3. CASE rcCh' = Append(rcCh, handler[w].rc) /\ Len(rcCh) < RcCap
      <4>1. handler[w].rc \in Nat /\ handler[w].rc <= Len(order)
        BY <1>1 DEF HandlerType, ClockSound
      <4>2. /\ rcCh' \in Seq(Nat) /\ Len(rcCh') = Len(rcCh) + 1
            /\ \A i \in 1 .. Len(rcCh) : rcCh'[i] = rcCh[i]
            /\ rcCh'[Len(rcCh) + 1] = handler[w].rc
        BY <3>1, <3>3, <4>1, PushFacts
      <4>3. Len(rcCh) \in Nat
        BY <3>1
      <4>4. QED
        BY <3>1, <3>3, <4>1, <4>2, <4>3
    <3>4. QED
      BY <1>8, <3>1, <3>2, <3>3 DEF Resend, DiscussTypeOK
  <2>5. DiscussTypeOK'
    BY <1>2, <2>2, <2>3, <2>4 DEF DiscussTypeOK
  <2>6. \A v \in Workers : /\ handler'[v].at = "push" => handler'[v].time >= 1 /\ handler'[v].time <= now'
                           /\ handler'[v].rc <= Len(order')
    BY <2>2, <2>3 DEF ClockSound
  <2>7. QED
    BY <2>3, <2>4, <2>5, <2>6 DEF ClockSound

<1>9. QED
  BY <1>3, <1>4, <1>5, <1>6, <1>7, <1>8 DEF Notify

\* A handler's steps leave every event's place as it is.
LEMMA NotifyAsked ==
    ASSUME DiscussInv, NEW w \in Workers, Notify(w)
    PROVE  AskedSound'
<1>1. CASE Received(w)
  BY <1>1 DEF Received, DiscussInv, AskedSound
<1>2. CASE PushEvent(w)
  <2>1. UNCHANGED <<driver, rc, lastProcessedMs, stored, asked>>
    BY <1>2 DEF PushEvent
  <2>2. order \in Seq(Nat) /\ handler[w].time \in Nat /\ order' = Append(order, handler[w].time)
    BY <1>2 DEF PushEvent, DiscussInv, DiscussTypeOK
  <2>3. /\ Len(order') = Len(order) + 1 /\ Len(order) \in Nat
        /\ \A i \in 1 .. Len(order) : order'[i] = order[i]
    BY <2>2, PushFacts
  <2>4. ASSUME NEW e \in Events, e <= Len(order)
        PROVE  e <= Len(order') /\ order'[e] = order[e]
    BY <2>3, <2>4 DEF Events
  <2>5. QED
    BY <2>1, <2>4 DEF DiscussInv, AskedSound
<1>3. CASE Lookup(w)
  <2>1. CASE UNCHANGED <<order, driver, rc, lastProcessedMs, asked>>
    BY <2>1 DEF DiscussInv, AskedSound
  <2>2. CASE asked' = [e \in Events |-> 0]
    BY <2>2 DEF AskedSound
  <2>3. QED
    BY <1>3, <2>1, <2>2 DEF Lookup
<1>4. CASE Send(w)
  BY <1>4 DEF Send, DriverRest, DiscussInv, AskedSound
<1>5. CASE DropOldest(w)
  BY <1>5 DEF DropOldest, DriverRest, DiscussInv, AskedSound
<1>6. CASE Resend(w)
  BY <1>6 DEF Resend, DriverRest, DiscussInv, AskedSound
<1>7. QED
  BY <1>1, <1>2, <1>3, <1>4, <1>5, <1>6 DEF Notify

\* The cursor after a run is at or after the cursor before it and all the run's events.
LEMMA CursorMoves ==
    ASSUME DiscussTypeOK, ClockSound
    PROVE  /\ Consumed(rc, lastProcessedMs) \in Nat
           /\ lastProcessedMs <= Consumed(rc, lastProcessedMs)
           /\ \A e \in 1 .. rc : order[e] <= Consumed(rc, lastProcessedMs)
<1>1. PICK bound \in Nat : bound = now + lastProcessedMs
  BY DEF DiscussTypeOK
<1>2. rc \in Nat /\ lastProcessedMs \in Nat /\ lastProcessedMs <= bound
  BY <1>1 DEF DiscussTypeOK
<1>3. \A e \in 1 .. rc : order[e] \in Nat /\ order[e] <= bound
  <2>1. Len(order) \in Nat /\ rc <= Len(order) /\ \A e \in 1 .. Len(order) : order[e] \in Nat
    BY DEF DiscussTypeOK
  <2>2. \A e \in 1 .. Len(order) : order[e] <= now
    BY DEF ClockSound
  <2>3. now \in Nat
    BY DEF DiscussTypeOK
  <2>4. QED
    BY <1>1, <1>2, <2>1, <2>2, <2>3
<1>4. QED
  BY <1>2, <1>3, ConsumedFacts

\* The goroutine's steps keep types and times.
LEMMA RunSessionSteps ==
    ASSUME DiscussTypeOK, ClockSound, RunSession
    PROVE  DiscussTypeOK' /\ ClockSound'
<1> USE DiscussAssumption
<1>1. Consumed(rc, lastProcessedMs) \in Nat
  BY CursorMoves
<1>2. CASE Receive
  <2>1. rcCh \in Seq(Nat) /\ rcCh # << >> /\ rc' = rcCh[Len(rcCh)] /\ rcCh' = << >>
    BY <1>2 DEF Receive, DiscussTypeOK
  <2>2. rc' \in Nat /\ rc' <= Len(order)
    BY <2>1, TakeFacts DEF ClockSound
  <2>3. << >> \in Seq(Nat) /\ Len(<< >>) = 0
    OBVIOUS
  <2>4. DiscussTypeOK'
    BY <1>2, <2>1, <2>2, <2>3 DEF Receive, DiscussTypeOK
  <2>5. driver' # "none" /\ driver = "listening"
    BY <1>2 DEF Receive
  <2>6. QED
    BY <1>2, <2>1, <2>3, <2>4, <2>5 DEF Receive, ClockSound
<1>3. CASE IdleTimeout
  BY <1>3 DEF IdleTimeout, DiscussTypeOK, ClockSound
<1>4. CASE Exit
  BY <1>4 DEF Exit, DiscussTypeOK, ClockSound
<1>5. CASE Load
  <2>1. PICK n \in Nat : Ask(n)
    BY <1>5 DEF Load, DiscussTypeOK
  <2>2. /\ lastProcessedMs' \in Nat /\ driver' \in {"listening", "asking"}
        /\ asked' \in [Events -> Nat]
    BY <2>1 DEF Ask, DiscussTypeOK
  <2>3. DiscussTypeOK'
    BY <1>5, <2>2 DEF Load, DiscussTypeOK
  <2>4. QED
    BY <1>5, <2>2, <2>3 DEF Load, ClockSound
<1>6. CASE ResolveFails
  BY <1>6 DEF ResolveFails, DiscussTypeOK, ClockSound
<1>7. CASE Answered
  <2>1. stored' \in Nat
    BY <1>7 DEF Answered, DiscussTypeOK
  <2>2. /\ lastProcessedMs' = Consumed(rc, lastProcessedMs) /\ driver' = "listening" /\ driver = "asking"
        /\ UNCHANGED <<now, order, handler, started, listed, rcCh, rc, asked>>
    BY <1>7 DEF Answered
  <2>3. DiscussTypeOK'
    BY <1>1, <2>1, <2>2 DEF DiscussTypeOK
  <2>4. QED
    BY <2>2, <2>3 DEF ClockSound
<1>8. CASE NothingStored
  <2>1. /\ lastProcessedMs' = Consumed(rc, lastProcessedMs) /\ driver' = "listening" /\ driver = "asking"
        /\ UNCHANGED <<now, order, handler, started, listed, rcCh, rc, stored, asked>>
    BY <1>8 DEF NothingStored
  <2>2. DiscussTypeOK'
    BY <1>1, <2>1 DEF DiscussTypeOK
  <2>3. QED
    BY <2>1, <2>2 DEF ClockSound
<1>9. QED
  BY <1>2, <1>3, <1>4, <1>5, <1>6, <1>7, <1>8 DEF RunSession

\* The run takes only events after the cursor, and the cursor is at or after them when it
\* has ended, stored or not.  A cursor of 0 is that of a goroutine that has asked nothing.
LEMMA RunSessionAsked ==
    ASSUME DiscussInv, RunSession
    PROVE  AskedSound'
<1>1. \A e \in Events : e <= Len(order) => order[e] \in Nat /\ order[e] >= 1
  BY DEF DiscussInv, DiscussTypeOK, ClockSound, Events
<1>2. rc \in Nat /\ rc <= Len(order) /\ stored \in Nat /\ lastProcessedMs \in Nat /\ asked \in [Events -> Nat]
  BY DEF DiscussInv, DiscussTypeOK
<1>3. ASSUME driver # "asking", lastProcessedMs = 0, NEW e \in Events PROVE asked[e] = 0
  BY <1>1, <1>3 DEF DiscussInv, AskedSound
<1>4. ASSUME driver = "asking", driver' # "asking", UNCHANGED <<order, asked>>,
             lastProcessedMs' = Consumed(rc, lastProcessedMs)
      PROVE  AskedSound'
  <2>1. SUFFICES ASSUME NEW e \in Events, asked[e] # 0
                 PROVE  asked[e] = 1 /\ e <= Len(order) /\ order[e] <= lastProcessedMs'
    BY <1>4 DEF AskedSound
  <2>2. asked[e] = 1 /\ e <= Len(order) /\ (e <= rc \/ order[e] <= lastProcessedMs)
    BY <2>1 DEF DiscussInv, AskedSound
  <2>3. /\ Consumed(rc, lastProcessedMs) \in Nat /\ lastProcessedMs <= Consumed(rc, lastProcessedMs)
        /\ e <= rc => order[e] <= Consumed(rc, lastProcessedMs)
    BY <1>2, CursorMoves DEF DiscussInv, Events
  <2>4. order[e] \in Nat
    BY <1>1, <2>2
  <2>5. QED
    BY <1>2, <1>4, <2>2, <2>3, <2>4
<1>5. CASE Receive
  BY <1>5 DEF Receive, DiscussInv, AskedSound
<1>6. CASE IdleTimeout
  BY <1>6 DEF IdleTimeout, DiscussInv, AskedSound
<1>7. CASE Exit
  BY <1>7 DEF Exit, DiscussInv, AskedSound
<1>8. CASE Load
  <2>1. PICK n \in Nat : Ask(n)
    BY <1>2, <1>8 DEF Load
  <2>2. driver = "loading" /\ UNCHANGED <<order, rc, stored>>
    BY <1>8 DEF Load
  <2>3. PICK from \in Nat : /\ from = IF lastProcessedMs = 0 THEN n ELSE lastProcessedMs
                            /\ lastProcessedMs' = from
                            /\ driver' = IF NewIn(rc, from) = {} THEN "listening" ELSE "asking"
                            /\ asked' = [e \in Events |-> IF e \in NewIn(rc, from) THEN asked[e] + 1 ELSE asked[e]]
    BY <1>2, <2>1 DEF Ask
  <2>4. SUFFICES ASSUME NEW e \in Events, asked'[e] # 0
                 PROVE  /\ asked'[e] = 1 /\ e <= Len(order)
                        /\ (driver' = "asking" /\ e <= rc) \/ order[e] <= from
    BY <2>2, <2>3 DEF AskedSound
  <2>5. asked[e] # 0 => asked[e] = 1 /\ e <= Len(order) /\ order[e] <= from
    <3>1. asked[e] # 0 => asked[e] = 1 /\ e <= Len(order) /\ order[e] <= lastProcessedMs
      BY <2>2 DEF DiscussInv, AskedSound
    <3>2. QED
      BY <1>3, <2>2, <2>3, <3>1
  <2>6. CASE e \in NewIn(rc, from)
    <3>1. e <= rc /\ order[e] > from /\ NewIn(rc, from) # {} /\ e \in Nat
      BY <2>6 DEF NewIn, Events
    <3>2. e <= Len(order)
      BY <1>2, <3>1 DEF DiscussInv, DiscussTypeOK
    <3>3. order[e] \in Nat
      BY <1>1, <3>2
    <3>4. asked[e] = 0
      BY <2>3, <2>5, <3>1, <3>3
    <3>5. QED
      BY <2>3, <2>6, <3>1, <3>2, <3>4
  <2>7. CASE e \notin NewIn(rc, from)
    BY <2>3, <2>4, <2>5, <2>7
  <2>8. QED
    BY <2>6, <2>7
<1>9. CASE ResolveFails
  <2>1. driver = "loading" /\ driver' = "listening" /\ UNCHANGED <<order, rc, asked>>
    BY <1>9 DEF ResolveFails
  <2>2. lastProcessedMs # 0 => lastProcessedMs' = lastProcessedMs
    BY <1>9 DEF ResolveFails
  <2>3. QED
    BY <1>3, <2>1, <2>2 DEF DiscussInv, AskedSound
<1>10. CASE Answered
  BY <1>4, <1>10 DEF Answered
<1>11. CASE NothingStored
  BY <1>4, <1>11 DEF NothingStored
<1>12. QED
  BY <1>5, <1>6, <1>7, <1>8, <1>9, <1>10, <1>11 DEF RunSession

\* The invariant of the discuss session is inductive.
LEMMA DiscussStep == DiscussInv /\ [DiscussNext]_discussVars => DiscussInv'
<1>1. ASSUME DiscussInv, DiscussNext PROVE DiscussInv'
  <2>1. DiscussTypeOK' /\ ClockSound'
    BY <1>1, NotifySteps, RunSessionSteps DEF DiscussInv, DiscussNext
  <2>2. AskedSound'
    BY <1>1, NotifyAsked, RunSessionAsked DEF DiscussNext
  <2>3. QED
    BY <2>1, <2>2 DEF DiscussInv
<1>2. ASSUME DiscussInv, UNCHANGED discussVars PROVE DiscussInv'
  BY <1>2 DEF DiscussInv, discussVars, DiscussTypeOK, ClockSound, AskedSound
<1>3. QED
  BY <1>1, <1>2

-----------------------------------------------------------------------------
(* The theorems *)

InboundInv == sessionType \in SessionTypes /\ RouteInv /\ OnceInv /\ DiscussInv

\* It holds when no message has come.
LEMMA InboundInit == Init => InboundInv
<1> SUFFICES ASSUME Init PROVE InboundInv
  OBVIOUS
<1> USE RouteAssumption, DiscussAssumption
<1>1. RouteTypeOK
  <2>1. Free \in WorkerType
    BY DEF Free, WorkerType, Places
  <2>2. worker \in [Workers -> WorkerType] /\ \A w \in Workers : worker[w].at = "free"
    BY <2>1 DEF Init, RouteInit, Free
  <2>3. << >> \in Seq(Msgs) /\ Len(<< >>) <= InjectCap
    OBVIOUS
  <2>4. QED
    BY <2>2, <2>3 DEF Init, RouteInit, RouteTypeOK, Modes, Fates, WorkerType
<1>2. Range(<< >>) = {}
  BY DEF Range
<1>3. Arrived
  BY <1>2 DEF Init, RouteInit, Arrived, Idle, Free
<1>4. ActiveMeansStream /\ NothingStranded /\ StopTargetsLive
  BY <1>2 DEF Init, RouteInit, ActiveMeansStream, NothingStranded, StopTargetsLive
<1>5. DiscussTypeOK
  <2>1. Nobody \in [at : HandlerPlaces, time : Nat, rc : Nat, to : Nat]
    BY DEF Nobody, HandlerPlaces
  <2>2. << >> \in Seq(Nat) /\ Len(<< >>) <= RcCap /\ Len(<< >>) = 0
    OBVIOUS
  <2>3. listed \in BOOLEAN
    BY DEF Init, DiscussInit
  <2>4. asked \in [Events -> Nat]
    BY DEF Init, DiscussInit
  <2>5. handler \in [Workers -> [at : HandlerPlaces, time : Nat, rc : Nat, to : Nat]]
    BY <2>1 DEF Init, DiscussInit
  <2>6. /\ now = 1 /\ order = << >> /\ started = 0 /\ driver = "none" /\ rcCh = << >> /\ rc = 0
        /\ lastProcessedMs = 0 /\ stored = 0
    BY DEF Init, DiscussInit
  <2>7. QED
    BY <2>2, <2>3, <2>4, <2>5, <2>6 DEF DiscussTypeOK
<1>6. ClockSound
  BY DEF Init, DiscussInit, ClockSound, Nobody
<1>7. AskedSound
  BY DEF Init, DiscussInit, AskedSound
<1>8. OnceInv
  <2>1. NoRepeats(<< >>)
    BY DEF NoRepeats
  <2>2. /\ mode = [m \in Msgs |-> "none"] /\ worker = [w \in Workers |-> Free]
        /\ injectCh = << >> /\ queue = << >>
        /\ box = [m \in Msgs |-> << >>] /\ fate = [m \in Msgs |-> "pending"]
    BY DEF Init, RouteInit
  <2>3. \A w \in Workers : InOrder(w) /\ \A m \in Msgs : ~ Carries(w, m)
    BY <1>2, <2>1, <2>2 DEF InOrder, Carries, Handles, Idle, Free
  <2>4. ASSUME NEW m \in Msgs PROVE OneHolder(m)
    <3>1. \A k \in HolderKinds : \A x \in Holders : ~ Has(k, x, m)
      BY <1>2, <2>2, <2>3 DEF Has
    <3>2. QED
      BY <2>2, <3>1 DEF OneHolder
  <2>5. QED
    BY <2>1, <2>2, <2>3, <2>4 DEF OnceInv
<1>9. QED
  BY <1>1, <1>3, <1>4, <1>5, <1>6, <1>7, <1>8 DEF Init, InboundInv, RouteInv, DiscussInv

\* A step of either part keeps both invariants, for it leaves the other part alone.
LEMMA InboundStep == InboundInv /\ [Next]_vars => InboundInv'
<1> SUFFICES ASSUME InboundInv, [Next]_vars PROVE InboundInv'
  OBVIOUS
<1>1. sessionType' = sessionType
  BY DEF Next, Chat, Discuss, StopDiscuss, vars
<1>2. RouteInv' /\ OnceInv'
  <2>1. [RouteNext]_routeVars
    BY DEF Next, Chat, Discuss, StopDiscuss, vars, RouteNext
  <2>2. QED
    BY <2>1, RouteStep, OnceStep DEF InboundInv, RouteInv
<1>3. DiscussInv'
  <2>1. [DiscussNext]_discussVars
    BY DEF Next, Chat, Discuss, StopDiscuss, vars
  <2>2. QED
    BY <2>1, DiscussStep DEF InboundInv
<1>4. QED
  BY <1>1, <1>2, <1>3 DEF InboundInv

\* The invariant of every state of a route.
LEMMA InboundInvariant == Spec => []InboundInv
  BY InboundInit, InboundStep, PTL DEF Spec

\* The variables have their types: among them the bounds on the inject channel and on the
\* channel of contexts.
THEOREM InboundTypeCorrect == Spec => []TypeOK
<1>1. InboundInv => TypeOK
  BY DEF InboundInv, RouteInv, DiscussInv, TypeOK
<1>2. QED
  BY <1>1, InboundInvariant, PTL

\* The route is never left marked active with no stream that will mark it idle,
\* however many workers handle its messages.
THEOREM ActiveHasStream == Spec => []ActiveMeansStream
<1>1. InboundInv => ActiveMeansStream
  BY DEF InboundInv, RouteInv
<1>2. QED
  BY <1>1, InboundInvariant, PTL

\* What was injected or queued in time has a stream to wait for.
THEOREM NothingIsStranded == Spec => []NothingStranded
<1>1. InboundInv => NothingStranded
  BY DEF InboundInv, RouteInv
<1>2. QED
  BY <1>1, InboundInvariant, PTL

\* A /stop that finds a cancel function finds that of a stream under way.
THEOREM StopFindsLiveStream == Spec => []StopTargetsLive
<1>1. InboundInv => StopTargetsLive
  BY DEF InboundInv, RouteInv
<1>2. QED
  BY <1>1, InboundInvariant, PTL

\* A goroutine puts no event to the agent as new twice, however contexts are dropped and
\* overtaken and whether or not the reply is stored: the cursor goes past what was asked.
THEOREM EventsAskedOnce == Spec => []AskedOnce
<1>1. InboundInv => AskedOnce
  <2>1. SUFFICES ASSUME InboundInv, NEW e \in Events PROVE asked[e] <= 1
    BY DEF AskedOnce
  <2>2. asked[e] = 0 \/ asked[e] = 1
    BY <2>1 DEF InboundInv, DiscussInv, AskedSound
  <2>3. QED
    BY <2>2
<1>2. QED
  BY <1>1, InboundInvariant, PTL

\* A message with one holder that has it once is in one place.
LEMMA OnePlace ==
    ASSUME RouteTypeOK, OnceInv, NEW m \in Msgs, mode[m] # "none"
    PROVE  \E p : PlacesOf(m) = {p}
<1> DEFINE Hands == {v \in Workers : worker[v].msg = m /\ worker[v].at \notin {"free", "unwind", "cancel"}}
           Spots(s) == {j \in DOMAIN s : s[j] = m}
<1>1. PICK k \in HolderKinds, x \in Holders : Has(k, x, m)
  BY DEF OnceInv, OneHolder
<1>2. \A l \in HolderKinds : \A y \in Holders : Has(l, y, m) => l = k /\ y = x
  BY <1>1, HeldApart
<1>3. \A s : m \notin Range(s) => Spots(s) = {}
  BY DEF Range
<1>4. \A s : m \in Range(s) /\ NoRepeats(s) => \E j : Spots(s) = {j}
  BY DEF Range, NoRepeats
<1>5. /\ {"worker", "queue", "channel", "box", "fate"} \subseteq HolderKinds
      /\ Workers \subseteq Holders /\ Msgs \subseteq Holders /\ NoMsg \in Holders
  BY HolderFacts
<1>6. /\ \A w \in Workers : ~ (k = "worker" /\ x = w) => w \notin Hands /\ Spots(worker[w].todo) = {}
      /\ k # "queue" => Spots(queue) = {}
      /\ k # "channel" => Spots(injectCh) = {}
      /\ \A s \in Msgs : ~ (k = "box" /\ x = s) => Spots(box[s]) = {}
      /\ k # "fate" => fate[m] = "pending"
  BY <1>2, <1>3, <1>5 DEF Has, Carries, Handles, Idle
<1>7. PlacesOf(m) =
          {<<"hand", w>> : w \in Hands}
          \cup (UNION {{<<"todo", w, i>> : i \in Spots(worker[w].todo)} : w \in Workers})
          \cup {<<"queue", i>> : i \in Spots(queue)}
          \cup {<<"channel", i>> : i \in Spots(injectCh)}
          \cup (UNION {{<<"box", s, i>> : i \in Spots(box[s])} : s \in Msgs})
          \cup {<<"fate", f>> : f \in {fate[m]} \ {"pending"}}
  BY DEF PlacesOf
<1> HIDE DEF Hands, Spots
<1>8. CASE k = "worker"
  <2>1. /\ x \in Workers /\ Carries(x, m) /\ InOrder(x)
        /\ Spots(queue) = {} /\ Spots(injectCh) = {} /\ fate[m] = "pending"
        /\ \A s \in Msgs : Spots(box[s]) = {}
    BY <1>1, <1>6, <1>8 DEF Has, OnceInv
  <2>2. Hands \subseteq {x} /\ \A w \in Workers \ {x} : Spots(worker[w].todo) = {}
    BY <1>6, <1>8 DEF Hands
  <2>3. PlacesOf(m) = {<<"hand", w>> : w \in Hands}
                      \cup {<<"todo", x, i>> : i \in Spots(worker[x].todo)}
    BY <1>7, <2>1, <2>2
  <2>4. CASE Handles(x, m)
    <3>1. Hands = {x}
      BY <2>1, <2>2, <2>4 DEF Hands, Handles, Idle
    <3>2. Spots(worker[x].todo) = {}
      BY <1>3, <2>1, <2>4 DEF InOrder
    <3>3. PlacesOf(m) = {<<"hand", x>>}
      BY <2>3, <3>1, <3>2
    <3>4. QED
      BY <3>3
  <2>5. CASE ~ Handles(x, m)
    <3>1. Hands = {}
      BY <2>2, <2>5 DEF Hands, Handles, Idle
    <3>2. PICK j : Spots(worker[x].todo) = {j}
      BY <1>4, <2>1, <2>5 DEF InOrder, Carries
    <3>3. PlacesOf(m) = {<<"todo", x, j>>}
      BY <2>3, <3>1, <3>2
    <3>4. QED
      BY <3>3
  <2>6. QED
    BY <2>4, <2>5
<1>9. ASSUME k # "worker"
      PROVE  /\ {<<"hand", w>> : w \in Hands} = {}
             /\ (UNION {{<<"todo", w, i>> : i \in Spots(worker[w].todo)} : w \in Workers}) = {}
  <2>1. Hands = {} /\ \A w \in Workers : Spots(worker[w].todo) = {}
    BY <1>6, <1>9 DEF Hands
  <2>2. QED
    BY <2>1
<1>10. ASSUME k # "box"
       PROVE  (UNION {{<<"box", s, i>> : i \in Spots(box[s])} : s \in Msgs}) = {}
  BY <1>6, <1>10
<1>11. CASE k = "queue"
  <2>1. m \in Range(queue) /\ NoRepeats(queue)
    BY <1>1, <1>11 DEF Has, OnceInv
  <2>2. PICK j : Spots(queue) = {j}
    BY <1>4, <2>1
  <2>3. Spots(injectCh) = {} /\ fate[m] = "pending"
    BY <1>6, <1>11
  <2>4. PlacesOf(m) = {<<"queue", j>>}
    BY <1>7, <1>9, <1>10, <1>11, <2>2, <2>3
  <2>5. QED
    BY <2>4
<1>12. CASE k = "channel"
  <2>1. m \in Range(injectCh) /\ NoRepeats(injectCh)
    BY <1>1, <1>12 DEF Has, OnceInv
  <2>2. PICK j : Spots(injectCh) = {j}
    BY <1>4, <2>1
  <2>3. Spots(queue) = {} /\ fate[m] = "pending"
    BY <1>6, <1>12
  <2>4. PlacesOf(m) = {<<"channel", j>>}
    BY <1>7, <1>9, <1>10, <1>12, <2>2, <2>3
  <2>5. QED
    BY <2>4
<1>13. CASE k = "box"
  <2>1. x \in Msgs /\ m \in Range(box[x]) /\ NoRepeats(box[x])
    BY <1>1, <1>13 DEF Has, OnceInv
  <2>2. PICK j : Spots(box[x]) = {j}
    BY <1>4, <2>1
  <2>3. /\ Spots(queue) = {} /\ Spots(injectCh) = {} /\ fate[m] = "pending"
        /\ \A s \in Msgs \ {x} : Spots(box[s]) = {}
    BY <1>6, <1>13
  <2>4. PlacesOf(m) = UNION {{<<"box", s, i>> : i \in Spots(box[s])} : s \in Msgs}
    BY <1>7, <1>9, <1>13, <2>3
  <2>5. PlacesOf(m) = {<<"box", x, j>>}
    BY <2>1, <2>2, <2>3, <2>4
  <2>6. QED
    BY <2>5
<1>14. CASE k = "fate"
  <2>1. fate[m] # "pending" /\ Spots(queue) = {} /\ Spots(injectCh) = {}
    BY <1>1, <1>6, <1>14 DEF Has
  <2>2. PlacesOf(m) = {<<"fate", fate[m]>>}
    BY <1>7, <1>9, <1>10, <1>14, <2>1
  <2>3. QED
    BY <2>2
<1>15. QED
  BY <1>8, <1>11, <1>12, <1>13, <1>14 DEF HolderKinds

\* Every message that has come is in one place, whichever workers and forwarders
\* move messages at once and however often the queue comes back to a handler.
THEOREM MessagesKeptOnce == Spec => []EachMessageOnce
<1>1. ASSUME InboundInv PROVE EachMessageOnce
  <2>1. SUFFICES ASSUME NEW m \in Msgs, mode[m] # "none" PROVE Cardinality(PlacesOf(m)) = 1
    BY DEF EachMessageOnce
  <2>2. PICK p : PlacesOf(m) = {p}
    BY <1>1, <2>1, OnePlace DEF InboundInv, RouteInv
  <2>3. QED
    BY <2>2, FS_Singleton
<1>2. QED
  BY <1>1, InboundInvariant, PTL
=============================================================================
