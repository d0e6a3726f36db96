---------------------------- MODULE ProjectorProofs ----------------------------
(***************************************************************************)
(* For any number of tasks and of overlapping projections: the log has no  *)
(* gap and no repetition, the mark passes over no event that was not       *)
(* listed, and only projections that overlap post an event twice.          *)
(***************************************************************************)
EXTENDS Projector, FiniteSetTheorems, WellFoundedInduction, TLAPS

-----------------------------------------------------------------------------
(* Greatest members *)

\* The order of the natural numbers, as the relation the library speaks of.
LEMMA LessWellFounded == IsWellFoundedOn({p \in Nat \X Nat : p[1] < p[2]}, Nat)
  BY NatLessThanWellFounded, Zenon DEF OpToRel

\* A set of natural numbers that is bounded and not empty has a greatest member.
LEMMA GreatestExists ==
    ASSUME NEW bound \in Nat, NEW S, S \subseteq 0 .. bound, S # {}
    PROVE  \E n \in S : \A m \in S : m <= n
<1> DEFINE T == {bound - n : n \in S}
<1>1. T \subseteq Nat /\ T # {}
  <2>1. \A n \in S : n \in Nat /\ bound - n \in Nat
    OBVIOUS
  <2>2. PICK n \in S : TRUE
    OBVIOUS
  <2>3. bound - n \in T
    BY <2>2
  <2>4. QED
    BY <2>1, <2>3
<1>2. PICK x \in T : \A y \in T : ~ (<<y, x>> \in {p \in Nat \X Nat : p[1] < p[2]})
  BY <1>1, LessWellFounded, WFMin
<1>3. \A y \in T : x <= y
  <2>1. TAKE y \in T
  <2>2. <<y, x>> \in Nat \X Nat /\ <<y, x>>[1] = y /\ <<y, x>>[2] = x
    BY <1>1
  <2>3. ~ y < x
    BY <1>2, <2>2
  <2>4. QED
    BY <2>3, <1>1
<1>4. PICK n \in S : x = bound - n
  OBVIOUS
<1>5. \A m \in S : bound - n <= bound - m
  BY <1>3, <1>4
<1>6. QED
  BY <1>5

-----------------------------------------------------------------------------
(* The log *)

\* A call of AppendEvent that has read the maximum has read no more than there is.
CallsSound ==
    \A w \in Writers : /\ append[w].seq <= Cardinality(rows) + 1
                       /\ Quiet(w) => append[w].seq = 0

LogInv == LogTypeOK /\ LogDense /\ CallsSound

\* What a step may do to the log: add the next event, the one that a call is appending.
NextRow(w) == [seq |-> Cardinality(rows) + 1, kind |-> append[w].kind, of |-> append[w].of]

LogGrows ==
    \/ rows' = rows
    \/ \E w \in Writers : ~ Quiet(w) /\ rows' = rows \cup {NextRow(w)}

\* In a dense log the greatest sequence number is the number of events.
LEMMA LastSeqIs ==
    ASSUME LogTypeOK, LogDense
    PROVE  LastSeq = Cardinality(rows) /\ LastSeq \in Nat
<1>1. Cardinality(rows) \in Nat
  BY FS_CardinalityType DEF LogTypeOK
<1>2. Cardinality(rows) \in Seqs \cup {0}
  BY <1>1 DEF LogDense
<1>3. \A m \in Seqs \cup {0} : m \in Nat /\ m <= Cardinality(rows)
  BY <1>1 DEF LogDense
<1>4. LastSeq \in Seqs \cup {0} /\ \A m \in Seqs \cup {0} : m <= LastSeq
  BY <1>2, <1>3 DEF LastSeq
<1>5. QED
  BY <1>1, <1>2, <1>3, <1>4

\* The next event leaves the log dense.
LEMMA NextRowFacts ==
    ASSUME LogTypeOK, LogDense, NEW w \in Writers, ~ Quiet(w),
           rows' = rows \cup {NextRow(w)}
    PROVE  /\ NextRow(w) \in Row /\ NextRow(w) \notin rows
           /\ IsFiniteSet(rows') /\ rows' \subseteq Row
           /\ Cardinality(rows') = Cardinality(rows) + 1
           /\ Seqs' = 1 .. Cardinality(rows')
<1>1. Cardinality(rows) \in Nat
  BY FS_CardinalityType DEF LogTypeOK
<1>2. append[w].kind \in Kinds /\ append[w].of \in Subjects
  BY DEF LogTypeOK, Call, Quiet
<1>3. NextRow(w) \in Row /\ NextRow(w).seq = Cardinality(rows) + 1
  BY <1>1, <1>2 DEF NextRow, Row
<1>4. Cardinality(rows) + 1 \notin Seqs
  BY <1>1 DEF LogDense
<1>5. NextRow(w) \notin rows
  BY <1>3, <1>4 DEF Seqs
<1>6. IsFiniteSet(rows') /\ Cardinality(rows') = Cardinality(rows) + 1
  BY <1>5, FS_AddElement DEF LogTypeOK
<1>7. Seqs' = Seqs \cup {Cardinality(rows) + 1}
  <2>1. Seqs' = {q.seq : q \in rows \cup {NextRow(w)}}
    BY DEF Seqs
  <2>2. QED
    BY <1>3, <2>1, Zenon DEF Seqs
<1>8. Seqs' = 1 .. Cardinality(rows) + 1
  <2>1. (1 .. Cardinality(rows)) \cup {Cardinality(rows) + 1} = 1 .. Cardinality(rows) + 1
    BY <1>1
  <2>2. QED
    BY <1>7, <2>1 DEF LogDense
<1>9. rows' \subseteq Row
  BY <1>3 DEF LogTypeOK
<1>10. QED
  BY <1>3, <1>5, <1>6, <1>8, <1>9

\* Beginning to append an event.
LEMMA LogStep ==
    ASSUME LogInv, NEW w \in Writers, NEW s \in Subjects, NEW kind \in Kinds,
           Log(w, s, kind), rows' = rows
    PROVE  LogInv' /\ LogGrows
<1>1. Cardinality(rows) \in Nat
  BY FS_CardinalityType DEF LogInv, LogTypeOK
<1> DEFINE call == [kind |-> kind, seq |-> 0, tries |-> 0,
                    of |-> IF kind \in Alone THEN Run ELSE s]
<1>2. append' = [append EXCEPT ![w] = call] /\ call \in Call
  BY LogAssumption DEF Log, Call, Subjects
<1>3. LogTypeOK' /\ LogDense'
  BY <1>2 DEF LogInv, LogTypeOK, LogDense, Seqs
<1>4. CallsSound'
  BY <1>1, <1>2 DEF LogInv, LogTypeOK, CallsSound, Quiet
<1>5. QED
  BY <1>3, <1>4 DEF LogInv, LogGrows

\* A call that returns.
LEMMA ReturnsStep ==
    ASSUME LogInv, NEW w \in Writers, Returns(w), rows' = rows
    PROVE  LogInv'
<1>1. Cardinality(rows) \in Nat
  BY FS_CardinalityType DEF LogInv, LogTypeOK
<1>2. append' = [append EXCEPT ![w] = NoCall] /\ NoCall \in Call
  BY LogAssumption DEF Returns, NoCall, Call, Subjects
<1>3. LogTypeOK' /\ LogDense'
  BY <1>2 DEF LogInv, LogTypeOK, LogDense, Seqs
<1>4. CallsSound'
  BY <1>1, <1>2 DEF LogInv, LogTypeOK, CallsSound, Quiet, NoCall
<1>5. QED
  BY <1>3, <1>4 DEF LogInv

\* The steps of AppendEvent: what it inserts is the next event, because the numbers
\* that others have taken since it read the maximum are those it conflicts with.
LEMMA AppendStep ==
    ASSUME LogInv, NEW w \in Writers,
           ReadMax(w) \/ Insert(w) \/ Conflict(w) \/ InsertFails(w)
    PROVE  LogInv' /\ LogGrows
<1>1. Cardinality(rows) \in Nat
  BY FS_CardinalityType DEF LogInv, LogTypeOK
<1>2. append[w] \in Call
  BY DEF LogInv, LogTypeOK
<1>3. CASE ReadMax(w)
  <2>1. LastSeq = Cardinality(rows)
    BY LastSeqIs DEF LogInv
  <2>2. append' = [append EXCEPT ![w].seq = Cardinality(rows) + 1] /\ rows' = rows
    BY <1>3, <2>1 DEF ReadMax
  <2>3. LogTypeOK' /\ LogDense'
    BY <1>1, <1>2, <2>2 DEF LogInv, LogTypeOK, LogDense, Seqs, Call
  <2>4. CallsSound'
    BY <1>1, <1>2, <1>3, <2>2 DEF LogInv, LogTypeOK, CallsSound, Quiet, ReadMax, Call
  <2>5. QED
    BY <2>2, <2>3, <2>4 DEF LogInv, LogGrows
<1>4. CASE Insert(w)
  <2>1. append[w].seq = Cardinality(rows) + 1 /\ ~ Quiet(w)
    BY <1>1, <1>2, <1>4 DEF Insert, LogInv, CallsSound, LogDense, Call
  <2>2. rows' = rows \cup {NextRow(w)}
    BY <1>4, <2>1 DEF Insert, NextRow
  <2>3. /\ IsFiniteSet(rows') /\ rows' \subseteq Row
        /\ Cardinality(rows') = Cardinality(rows) + 1
        /\ Seqs' = 1 .. Cardinality(rows')
    BY <2>1, <2>2, NextRowFacts DEF LogInv
  <2>4. append' = [append EXCEPT ![w] = NoCall] /\ NoCall \in Call
    BY <1>4, LogAssumption DEF Insert, Returns, NoCall, Call, Subjects
  <2>5. CallsSound'
    BY <1>1, <2>3, <2>4 DEF LogInv, LogTypeOK, CallsSound, Quiet, NoCall, Call
  <2>6. QED
    BY <2>1, <2>2, <2>3, <2>4, <2>5 DEF LogInv, LogGrows, LogTypeOK, LogDense
<1>5. CASE Conflict(w)
  <2>1. CASE append[w].tries + 1 < MaxTries
    <3>1. append' = [append EXCEPT ![w] = [kind |-> append[w].kind, seq |-> 0,
                                           tries |-> append[w].tries + 1,
                                           of |-> append[w].of]]
      BY <1>2, <1>5, <2>1 DEF Conflict, LogInv, LogTypeOK, Call
    <3>2. append[w].tries + 1 \in 0 .. MaxTries - 1
      BY <1>2, <2>1, LogAssumption DEF Call
    <3>3. LogTypeOK' /\ LogDense'
      BY <1>2, <1>5, <3>1, <3>2 DEF Conflict, LogInv, LogTypeOK, LogDense, Seqs, Call
    <3>4. CallsSound'
      BY <1>1, <1>5, <3>1 DEF Conflict, LogInv, LogTypeOK, CallsSound, Quiet
    <3>5. QED
      BY <1>5, <3>3, <3>4 DEF LogInv, LogGrows, Conflict
  <2>2. CASE ~ (append[w].tries + 1 < MaxTries)
    BY <1>5, <2>2, ReturnsStep DEF Conflict, LogGrows
  <2>3. QED
    BY <2>1, <2>2
<1>6. CASE InsertFails(w)
  BY <1>6, ReturnsStep DEF InsertFails, LogGrows
<1>7. QED
  BY <1>3, <1>4, <1>5, <1>6

-----------------------------------------------------------------------------
(* The run *)

RunTypeOK == outcome \in [Tasks -> Outcomes] /\ over \in BOOLEAN

RunStep(w) ==
    \/ \E t \in Tasks : (\E to \in Statuses : Updates(w, t, to)) \/ Outputs(w, t)
    \/ RunMoves(w)

\* What a step of a task or of the run does to the log.
LEMMA RunLogs ==
    ASSUME NEW w \in Writers, RunStep(w)
    PROVE  /\ rows' = rows
           /\ \E s \in Subjects, kind \in Kinds : Log(w, s, kind)
           /\ UNCHANGED roomVars
<1>1. ASSUME NEW t \in Tasks, NEW to \in Statuses, Updates(w, t, to)
      PROVE  /\ rows' = rows /\ UNCHANGED roomVars
             /\ \E s \in Subjects, kind \in Kinds : Log(w, s, kind)
  BY <1>1 DEF Updates, EventsOf, Statuses, Kinds, Shown, Subjects
<1>2. ASSUME NEW t \in Tasks, Outputs(w, t)
      PROVE  /\ rows' = rows /\ UNCHANGED roomVars
             /\ \E s \in Subjects, kind \in Kinds : Log(w, s, kind)
  BY <1>2 DEF Outputs, Kinds, Shown, Subjects
<1>3. ASSUME RunMoves(w)
      PROVE  /\ rows' = rows /\ UNCHANGED roomVars
             /\ \E s \in Subjects, kind \in Kinds : Log(w, s, kind)
  BY <1>3 DEF RunMoves, Kinds, Shown, Subjects
<1>4. QED
  BY <1>1, <1>2, <1>3 DEF RunStep

\* Each step of a task and of the run.
LEMMA RunTypeStep ==
    ASSUME RunTypeOK, NEW w \in Writers, RunStep(w)
    PROVE  RunTypeOK'
<1>1. ASSUME NEW t \in Tasks, NEW to \in Statuses, Updates(w, t, to) PROVE RunTypeOK'
  <2>1. OutcomeOf(to) \in Outcomes
    BY DEF OutcomeOf, Outcomes
  <2>2. QED
    BY <1>1, <2>1 DEF Updates, RunTypeOK
<1>2. ASSUME NEW t \in Tasks, Outputs(w, t) PROVE RunTypeOK'
  BY <1>2 DEF Outputs, RunTypeOK, runVars
<1>3. ASSUME RunMoves(w) PROVE RunTypeOK'
  BY <1>3 DEF RunMoves, RunTypeOK
<1>4. QED
  BY <1>1, <1>2, <1>3 DEF RunStep

-----------------------------------------------------------------------------
(* The projections *)

RoomTypeOK ==
    /\ mark \in Nat
    /\ request \in [Requests -> Request]
    /\ posted \subseteq EventSeqs
    /\ unposted \subseteq EventSeqs
    /\ skipped \subseteq EventSeqs
    /\ told \subseteq EventSeqs

Done == posted \cup unposted

\* Settled, of any log.
SettledIn(row, log, done, old) ==
    \/ row.seq \in done \cup old
    \/ row.kind = "silent"
    \/ row.kind = "succeeded" /\ \E q \in log : /\ q.kind = "result" /\ q.of = row.of
                                                /\ q.seq \in done

\* What a projection has listed is settled once its messages are posted.
PageSound(req, log, m, done, old) ==
    /\ req.after <= m
    /\ \A n \in req.todo : n <= req.top
    /\ req.top <= Cardinality(log)
    /\ req.at = "post" =>
          \A row \in log : row.seq <= req.top => SettledIn(row, log, done \cup req.todo, old)

MarkSound(log, m, done, old) ==
    /\ m <= Cardinality(log)
    /\ \A row \in log : row.seq <= m => SettledIn(row, log, done, old)

\* What a projection was to find told lies below what it lists, and what it has posted
\* lies below what it will raise the mark to.
RepeatSound(req) ==
    /\ req.at # "post" => req.todo = {} /\ req.mine = {}
    /\ req.at = "list" => \A n \in req.old : n <= req.after
    /\ \A n \in req.mine : n <= req.top
    /\ req.todo \cap req.old = {}

ToldSound(m, t) == \A n \in t : n <= m

RequestsSound ==
    \A r \in Requests : PageSound(request[r], rows, mark, Done, skipped) /\ RepeatSound(request[r])

RoomSound == RequestsSound /\ MarkSound(rows, mark, Done, skipped) /\ ToldSound(mark, told)

\* More messages, and more failures judged too early, settle no less.
LEMMA SettledKept ==
    ASSUME NEW row, NEW log, NEW done, NEW old, NEW done2, NEW old2,
           done \subseteq done2, old \subseteq old2, SettledIn(row, log, done, old)
    PROVE  SettledIn(row, log, done2, old2)
  BY DEF SettledIn

\* A projection stays sound while others post messages and raise the mark.
LEMMA PageKept ==
    ASSUME NEW req \in Request, NEW m \in Nat, NEW m2 \in Nat, m <= m2,
           NEW done, NEW done2, done \subseteq done2,
           NEW old, NEW old2, old \subseteq old2,
           PageSound(req, rows, m, done, old)
    PROVE  PageSound(req, rows, m2, done2, old2)
<1>1. req.after <= m2
  BY DEF PageSound, Request
<1>2. done \cup req.todo \subseteq done2 \cup req.todo
  OBVIOUS
<1>3. \A row \in rows : SettledIn(row, rows, done \cup req.todo, old)
                            => SettledIn(row, rows, done2 \cup req.todo, old2)
  BY <1>2, SettledKept
<1>4. QED
  BY <1>1, <1>3 DEF PageSound

\* The room's part of the invariant survives a longer log.
LEMMA RoomSoundGrows ==
    ASSUME LogInv, RoomTypeOK, RoomSound, LogGrows, UNCHANGED roomVars
    PROVE  RoomSound'
<1>1. UNCHANGED <<mark, request, posted, unposted, skipped, told>>
  BY DEF roomVars
<1>2. CASE rows' = rows
  BY <1>1, <1>2 DEF RoomSound, RequestsSound, Done
<1>3. CASE \E w \in Writers : ~ Quiet(w) /\ rows' = rows \cup {NextRow(w)}
  <2>1. PICK w \in Writers : ~ Quiet(w) /\ rows' = rows \cup {NextRow(w)}
    BY <1>3
  <2>2. Cardinality(rows) \in Nat
    BY FS_CardinalityType DEF LogInv, LogTypeOK
  <2>3. Cardinality(rows') = Cardinality(rows) + 1 /\ NextRow(w).seq = Cardinality(rows) + 1
    BY <2>1, NextRowFacts DEF LogInv, NextRow
  <2>4. \A row \in rows : \A done, old :
            SettledIn(row, rows, done, old) => SettledIn(row, rows', done, old)
    BY <2>1 DEF SettledIn
  <2>5. ASSUME NEW r \in Requests
        PROVE  PageSound(request[r], rows', mark, Done, skipped)
    <3>1. PageSound(request[r], rows, mark, Done, skipped)
      BY DEF RoomSound, RequestsSound
    <3>2. request[r].top \in Nat
      BY DEF RoomTypeOK, Request
    <3>3. ~ (NextRow(w).seq <= request[r].top) /\ request[r].top <= Cardinality(rows')
      BY <2>2, <2>3, <3>1, <3>2 DEF PageSound
    <3>4. QED
      BY <2>1, <2>4, <3>1, <3>3 DEF PageSound
  <2>6. MarkSound(rows', mark, Done, skipped)
    <3>1. MarkSound(rows, mark, Done, skipped) /\ mark \in Nat
      BY DEF RoomSound, RoomTypeOK
    <3>2. ~ (NextRow(w).seq <= mark) /\ mark <= Cardinality(rows')
      BY <2>2, <2>3, <3>1 DEF MarkSound
    <3>3. QED
      BY <2>1, <2>4, <3>1, <3>2 DEF MarkSound
  <2>7. QED
    BY <1>1, <2>5, <2>6 DEF RoomSound, RequestsSound, Done
<1>4. QED
  BY <1>2, <1>3 DEF LogGrows

\* One request goes on to req, which is sound, and the others see more messages, more
\* failures judged too early and a higher mark, or none of it.
LEMMA GoesSound ==
    ASSUME LogInv, RoomTypeOK, RoomTypeOK', RoomSound, rows' = rows,
           NEW r \in Requests, NEW req \in Request, Goes(r, req),
           mark <= mark', Done \subseteq Done', skipped \subseteq skipped',
           PageSound(req, rows, mark', Done', skipped'), RepeatSound(req)
    PROVE  RequestsSound'
<1>1. SUFFICES ASSUME NEW q \in Requests
               PROVE  /\ PageSound(request'[q], rows, mark', Done', skipped')
                      /\ RepeatSound(request'[q])
  BY DEF RequestsSound
<1>2. CASE q = r
  <2>1. request'[q] = req
    BY <1>2 DEF Goes, RoomTypeOK
  <2>2. QED
    BY <2>1
<1>3. CASE q # r
  <2>1. request'[q] = request[q] /\ request[q] \in Request
    BY <1>3 DEF Goes, RoomTypeOK
  <2>2. PageSound(request[q], rows, mark, Done, skipped) /\ RepeatSound(request[q])
    BY DEF RoomSound, RequestsSound
  <2>3. mark \in Nat /\ mark' \in Nat
    BY DEF RoomTypeOK
  <2>4. PageSound(request[q], rows, mark', Done', skipped')
    BY <2>1, <2>2, <2>3, PageKept
  <2>5. QED
    BY <2>1, <2>2, <2>4
<1>4. QED
  BY <1>2, <1>3

\* A request at rest vouches for nothing.
LEMMA IdleFacts ==
    ASSUME NEW m \in Nat, NEW done, NEW old, LogInv
    PROVE  /\ Idle \in Request
           /\ PageSound(Idle, rows, m, done, old) /\ RepeatSound(Idle)
<1>1. Cardinality(rows) \in Nat
  BY FS_CardinalityType DEF LogInv, LogTypeOK
<1>2. Idle \in Request
  BY DEF Idle, Request
<1>3. PageSound(Idle, rows, m, done, old)
  BY <1>1 DEF Idle, PageSound
<1>4. RepeatSound(Idle)
  BY DEF Idle, RepeatSound
<1>5. QED
  BY <1>2, <1>3, <1>4

RoomInv == RoomTypeOK /\ RoomSound

\* A request that goes on without posting, or returns, leaving the room as it is.
LEMMA QuietStep ==
    ASSUME LogInv, RoomInv, rows' = rows, NEW r \in Requests, NEW req \in Request,
           Goes(r, req), UNCHANGED <<mark, posted, unposted, told>>,
           skipped' \subseteq EventSeqs, skipped \subseteq skipped',
           PageSound(req, rows, mark, Done, skipped'), RepeatSound(req)
    PROVE  RoomInv'
<1>1. RoomTypeOK'
  BY DEF RoomInv, RoomTypeOK, Goes
<1>2. Done' = Done /\ mark' = mark /\ mark <= mark'
  BY DEF Done, RoomInv, RoomTypeOK
<1>3. RequestsSound'
  BY <1>1, <1>2, GoesSound DEF RoomInv
<1>4. MarkSound(rows, mark, Done, skipped')
  BY SettledKept DEF RoomInv, RoomSound, MarkSound
<1>5. ToldSound(mark', told')
  BY DEF RoomInv, RoomSound
<1>6. QED
  BY <1>1, <1>2, <1>3, <1>4, <1>5 DEF RoomInv, RoomSound

\* The snapshot is taken.
LEMMA SnapshotStep ==
    ASSUME LogInv, RoomInv, NEW r \in Requests, Snapshot(r)
    PROVE  RoomInv'
<1> DEFINE failed == {t \in Tasks : outcome[t] = "failed"}
           req == [Idle EXCEPT !.at = "mark", !.failed = failed]
<1>1. /\ Goes(r, req) /\ rows' = rows
      /\ UNCHANGED <<mark, posted, unposted, skipped, told>>
  BY DEF Snapshot, Goes, logVars
<1>2. /\ req \in Request /\ req.at = "mark" /\ req.after = 0 /\ req.todo = {} /\ req.top = 0
      /\ req.mine = {} /\ req.old = {}
  BY DEF Idle, Request
<1>3. PageSound(req, rows, mark, Done, skipped')
  <2>1. Cardinality(rows) \in Nat
    BY FS_CardinalityType DEF LogInv, LogTypeOK
  <2>2. QED
    BY <1>2, <2>1 DEF PageSound, RoomInv, RoomTypeOK
<1>4. RepeatSound(req)
  BY <1>2 DEF RepeatSound
<1>5. QED
  BY <1>1, <1>2, <1>3, <1>4, QuietStep DEF RoomInv, RoomTypeOK

\* The mark is read: what lies below it is settled, and what was told lies below it.
LEMMA ReadMarkStep ==
    ASSUME LogInv, RoomInv, NEW r \in Requests, ReadMark(r)
    PROVE  RoomInv'
<1> DEFINE req == [request[r] EXCEPT !.at = "list", !.after = mark, !.old = told]
<1>1. /\ Goes(r, req) /\ request[r].at = "mark" /\ rows' = rows
      /\ UNCHANGED <<mark, posted, unposted, skipped, told>>
  BY DEF ReadMark, Goes, logVars
<1>2. request[r] \in Request /\ mark \in Nat /\ told \subseteq EventSeqs
  BY DEF RoomInv, RoomTypeOK
<1>3. /\ req \in Request /\ req.at = "list" /\ req.after = mark /\ req.old = told
      /\ req.failed = request[r].failed /\ req.mine = request[r].mine
      /\ req.todo = request[r].todo /\ req.top = request[r].top
  BY <1>2 DEF Request
<1>4. PageSound(request[r], rows, mark, Done, skipped) /\ RepeatSound(request[r])
  BY DEF RoomInv, RoomSound, RequestsSound
<1>5. PageSound(req, rows, mark, Done, skipped')
  BY <1>1, <1>2, <1>3, <1>4 DEF PageSound
<1>6. RepeatSound(req)
  BY <1>1, <1>3, <1>4 DEF RepeatSound, RoomInv, RoomSound, ToldSound
<1>7. QED
  BY <1>1, <1>3, <1>5, <1>6, QuietStep DEF RoomInv, RoomTypeOK

\* A page has no gap: an event after the mark and before one of the page is in it.
LEMMA PageDense ==
    ASSUME LogInv, NEW after \in Nat, NEW r \in ListEvents(after), NEW q \in rows,
           after < q.seq, q.seq < r.seq
    PROVE  q \in ListEvents(after)
<1> DEFINE Before(x) == {p \in rows : after < p.seq /\ p.seq < x.seq}
<1>1. \A p \in rows : p.seq \in Nat
  BY DEF LogInv, LogTypeOK, Row
<1>2. r \in rows /\ Cardinality(Before(r)) < ListLimit
  BY DEF ListEvents
<1>3. Before(q) \subseteq Before(r)
  BY <1>1, <1>2
<1>4. IsFiniteSet(Before(r))
  BY FS_Subset DEF LogInv, LogTypeOK
<1>5. IsFiniteSet(Before(q)) /\ Cardinality(Before(q)) <= Cardinality(Before(r))
  BY <1>3, <1>4, FS_Subset
<1>6. Cardinality(Before(q)) \in Nat /\ Cardinality(Before(r)) \in Nat
  BY <1>4, <1>5, FS_CardinalityType
<1>7. Cardinality(Before(q)) < ListLimit
  BY <1>2, <1>5, <1>6, LogAssumption
<1>8. QED
  BY <1>7 DEF ListEvents

\* What a projection lists and decides to post settles its page, and nothing that it was
\* to find told is on the page.
LEMMA ListSound ==
    ASSUME LogInv, RoomInv, NEW r \in Requests, request[r].at = "list",
           NEW page, page = ListEvents(request[r].after), page # {},
           NEW todo, todo = Messages(page, request[r].failed),
           NEW old, old = skipped \cup SkippedOf(page, request[r].failed),
           NEW req, req = Posting(request[r], todo, Last(page))
    PROVE  /\ req \in Request /\ old \subseteq EventSeqs
           /\ PageSound(req, rows, mark, Done, old) /\ RepeatSound(req)
<1>1. Cardinality(rows) \in Nat
  BY FS_CardinalityType DEF LogInv, LogTypeOK
<1>2. page \subseteq rows /\ \A row \in page : row.seq > request[r].after
  BY DEF ListEvents
<1>3. \A row \in rows : row.seq \in 1 .. Cardinality(rows) /\ row.seq \in EventSeqs
                       /\ row.kind \in Kinds
  BY <1>1 DEF LogInv, LogTypeOK, LogDense, Seqs, Row, EventSeqs
<1>4. request[r] \in Request /\ mark \in Nat
  BY DEF RoomInv, RoomTypeOK
<1>5. PageSound(request[r], rows, mark, Done, skipped) /\ RepeatSound(request[r])
  BY DEF RoomInv, RoomSound, RequestsSound
<1>6. /\ Last(page) \in {row.seq : row \in page}
      /\ \A row \in page : row.seq <= Last(page)
  <2> DEFINE S == {row.seq : row \in page}
  <2>1. S \subseteq 0 .. Cardinality(rows) /\ S # {}
    BY <1>1, <1>2, <1>3
  <2>2. \E n \in S : \A m \in S : m <= n
    BY <1>1, <2>1, GreatestExists
  <2>3. \E n \in S : \A row \in page : row.seq <= n
    BY <2>2
  <2>4. QED
    BY <2>3 DEF Last
<1>7. PICK last \in page : last.seq = Last(page)
  BY <1>6
<1>8. Last(page) \in Nat /\ Last(page) <= Cardinality(rows)
  BY <1>1, <1>2, <1>3, <1>7
<1>9. todo \subseteq {row.seq : row \in page}
  BY DEF Messages
<1>10. todo \subseteq EventSeqs /\ \A n \in todo : n <= Last(page) /\ n > request[r].after
  BY <1>2, <1>3, <1>6, <1>9
<1>11. /\ req \in Request /\ req.at = "post"
       /\ req.after = 0 /\ req.todo = todo /\ req.top = Last(page)
       /\ req.mine = request[r].mine /\ req.old = request[r].old
  BY <1>4, <1>8, <1>10 DEF Posting, Request
<1>12. old \subseteq EventSeqs
  BY <1>2, <1>3 DEF SkippedOf, RoomInv, RoomTypeOK
<1>13. RepeatSound(req)
  <2>1. req.mine = {} /\ \A n \in req.old : n <= request[r].after
    BY <1>5, <1>11 DEF RepeatSound
  <2>2. \A n \in todo : n \notin req.old
    <3>1. \A n \in todo : n \in Nat /\ request[r].after \in Nat
      BY <1>4, <1>10 DEF EventSeqs, Request
    <3>2. QED
      BY <1>10, <2>1, <3>1
  <2>3. QED
    BY <1>11, <2>1, <2>2 DEF RepeatSound
<1>14. ASSUME NEW row \in rows, row.seq <= Last(page)
       PROVE  SettledIn(row, rows, Done \cup todo, old)
  <2>1. CASE row.seq <= request[r].after
    <3>1. row.seq <= mark
      BY <1>3, <1>4, <1>5, <2>1 DEF PageSound, Request
    <3>2. SettledIn(row, rows, Done, skipped)
      BY <3>1 DEF RoomInv, RoomSound, MarkSound
    <3>3. QED
      BY <3>2, SettledKept
  <2>2. CASE ~ (row.seq <= request[r].after)
    <3>1. row \in page
      <4>1. CASE row.seq < Last(page)
        BY <1>3, <1>4, <1>7, <2>2, <4>1, PageDense DEF Request
      <4>2. CASE row.seq = Last(page)
        <5>1. {p \in rows : request[r].after < p.seq /\ p.seq < row.seq}
              = {p \in rows : request[r].after < p.seq /\ p.seq < last.seq}
          BY <1>7, <4>2
        <5>2. Cardinality({p \in rows : request[r].after < p.seq /\ p.seq < last.seq})
              < ListLimit
          BY <1>7 DEF ListEvents
        <5>3. row.seq > request[r].after
          BY <1>3, <1>4, <2>2 DEF Request
        <5>4. QED
          BY <5>1, <5>2, <5>3 DEF ListEvents
      <4>3. QED
        BY <1>3, <1>8, <1>14, <4>1, <4>2
    <3>2. CASE Surfaces(row, request[r].failed) /\ ~ Repeated(row, page)
      <4>1. row.seq \in todo
        BY <3>1, <3>2 DEF Messages
      <4>2. QED
        BY <4>1 DEF SettledIn
    <3>3. CASE Repeated(row, page)
      <4>1. PICK q \in page : q.kind = "result" /\ q.of = row.of
        BY <3>3 DEF Repeated
      <4>2. Surfaces(q, request[r].failed) /\ ~ Repeated(q, page)
        BY <4>1 DEF Surfaces, Repeated, Shown
      <4>3. q.seq \in todo /\ q \in rows /\ row.kind = "succeeded"
        BY <1>2, <3>3, <4>2 DEF Messages, Repeated
      <4>4. QED
        BY <4>1, <4>3 DEF SettledIn
    <3>4. CASE ~ Surfaces(row, request[r].failed)
      <4>1. row.kind \in {"silent", "failed"}
        BY <1>3, <3>4 DEF Surfaces, Kinds
      <4>2. CASE row.kind = "failed"
        <5>1. row.seq \in SkippedOf(page, request[r].failed)
          BY <3>1, <3>4, <4>2 DEF SkippedOf
        <5>2. QED
          BY <5>1 DEF SettledIn
      <4>3. QED
        BY <4>1, <4>2 DEF SettledIn
    <3>5. QED
      BY <3>2, <3>3, <3>4
  <2>3. QED
    BY <2>1, <2>2
<1>15. PageSound(req, rows, mark, Done, old)
  <2>1. req.after <= mark
    BY <1>4, <1>11
  <2>2. \A row \in rows : row.seq <= req.top => SettledIn(row, rows, Done \cup req.todo, old)
    BY <1>11, <1>14
  <2>3. QED
    BY <1>8, <1>10, <1>11, <2>1, <2>2 DEF PageSound
<1>16. QED
  BY <1>11, <1>12, <1>13, <1>15

\* Listing a page, or nothing new.
LEMMA ListStep ==
    ASSUME LogInv, RoomInv, NEW r \in Requests, List(r)
    PROVE  RoomInv'
<1> DEFINE page == ListEvents(request[r].after)
           todo == Messages(page, request[r].failed)
           old == skipped \cup SkippedOf(page, request[r].failed)
           req == Posting(request[r], todo, Last(page))
<1>1. /\ request[r].at = "list" /\ rows' = rows /\ skipped' = old
      /\ UNCHANGED <<mark, posted, unposted, told>>
      /\ Goes(r, IF page = {} THEN Idle ELSE req)
  BY DEF List, Goes, logVars
<1>2. CASE page = {}
  <2>1. SkippedOf(page, request[r].failed) = {}
    BY <1>2 DEF SkippedOf
  <2>2. /\ Idle \in Request /\ RepeatSound(Idle)
        /\ PageSound(Idle, rows, mark, Done, skipped')
    BY IdleFacts DEF RoomInv, RoomTypeOK
  <2>3. skipped' = skipped /\ Goes(r, Idle)
    BY <1>1, <1>2, <2>1
  <2>4. QED
    BY <1>1, <2>2, <2>3, QuietStep DEF RoomInv, RoomTypeOK
<1>3. CASE page # {}
  <2>1. /\ req \in Request /\ old \subseteq EventSeqs
        /\ PageSound(req, rows, mark, Done, old) /\ RepeatSound(req)
    BY <1>1, <1>3, ListSound
  <2>2. Goes(r, req) /\ skipped \subseteq skipped'
    BY <1>1, <1>3
  <2>3. QED
    BY <1>1, <2>1, <2>2, QuietStep
<1>4. QED
  BY <1>2, <1>3

\* A listing that fails leaves the events to the next request.
LEMMA ListFailsStep ==
    ASSUME LogInv, RoomInv, NEW r \in Requests, ListFails(r)
    PROVE  RoomInv'
<1>1. /\ Goes(r, Idle) /\ rows' = rows
      /\ UNCHANGED <<mark, posted, unposted, skipped, told>>
  BY DEF ListFails, Goes, logVars
<1>2. /\ Idle \in Request /\ RepeatSound(Idle)
      /\ PageSound(Idle, rows, mark, Done, skipped')
  BY IdleFacts DEF RoomInv, RoomTypeOK
<1>3. QED
  BY <1>1, <1>2, QuietStep DEF RoomInv, RoomTypeOK

\* A message moves from what is awaited to what is done, posted or not.
LEMMA MessageStep ==
    ASSUME LogInv, RoomInv, NEW r \in Requests, request[r].at = "post",
           NEW n \in request[r].todo, NEW req,
           req = [request[r] EXCEPT !.todo = @ \ {n}]
           \/ req = [request[r] EXCEPT !.todo = @ \ {n}, !.mine = @ \cup {n}],
           Goes(r, req), UNCHANGED <<mark, skipped, told>>,
           posted' \subseteq EventSeqs, unposted' \subseteq EventSeqs, Done' = Done \cup {n}
    PROVE  RoomInv'
<1>1. rows' = rows
  BY DEF Goes, logVars
<1>2. request[r] \in Request /\ mark \in Nat
  BY DEF RoomInv, RoomTypeOK
<1>3. n \in EventSeqs
  BY <1>2 DEF Request
<1>4. /\ req \in Request /\ req.at = "post" /\ req.todo = request[r].todo \ {n}
      /\ req.after = request[r].after /\ req.top = request[r].top /\ req.old = request[r].old
      /\ req.mine = request[r].mine \/ req.mine = request[r].mine \cup {n}
  <2>1. CASE req = [request[r] EXCEPT !.todo = @ \ {n}]
    BY <1>2, <2>1 DEF Request
  <2>2. CASE req = [request[r] EXCEPT !.todo = @ \ {n}, !.mine = @ \cup {n}]
    BY <1>2, <1>3, <2>2 DEF Request
  <2>3. QED
    BY <2>1, <2>2
<1>5. RoomTypeOK'
  BY <1>4 DEF RoomInv, RoomTypeOK, Goes
<1>6. PageSound(request[r], rows, mark, Done, skipped) /\ RepeatSound(request[r])
  BY DEF RoomInv, RoomSound, RequestsSound
<1>7. PageSound(req, rows, mark', Done', skipped')
  <2>1. Done' \cup req.todo = Done \cup request[r].todo
    BY <1>4
  <2>2. QED
    BY <1>4, <1>6, <2>1 DEF PageSound
<1>8. RepeatSound(req)
  <2>1. n <= req.top
    BY <1>4, <1>6 DEF PageSound
  <2>2. QED
    BY <1>4, <1>6, <2>1 DEF RepeatSound
<1>9. RequestsSound'
  <2>1. Done \subseteq Done' /\ skipped \subseteq skipped' /\ mark <= mark'
    BY <1>2
  <2>2. QED
    BY <1>1, <1>4, <1>5, <1>7, <1>8, <2>1, GoesSound DEF RoomInv
<1>10. MarkSound(rows, mark, Done', skipped)
  <2>1. Done \subseteq Done' /\ MarkSound(rows, mark, Done, skipped)
    BY DEF RoomInv, RoomSound
  <2>2. QED
    BY <2>1, SettledKept DEF MarkSound
<1>11. ToldSound(mark', told')
  BY DEF RoomInv, RoomSound
<1>12. QED
  BY <1>1, <1>5, <1>9, <1>10, <1>11 DEF RoomInv, RoomSound

\* The message of the next event is posted, or could not be.
LEMMA PostStep ==
    ASSUME LogInv, RoomInv, NEW r \in Requests, Post(r) \/ PostFails(r)
    PROVE  RoomInv'
<1>1. request[r].at = "post" /\ UNCHANGED <<mark, skipped, told>>
  BY DEF Post, PostFails
<1>2. request[r].todo \subseteq EventSeqs
  BY DEF RoomInv, RoomTypeOK, Request
<1>3. posted \subseteq EventSeqs /\ unposted \subseteq EventSeqs
  BY DEF RoomInv, RoomTypeOK
<1>4. CASE Post(r)
  <2>1. PICK n \in request[r].todo :
          /\ Goes(r, [request[r] EXCEPT !.todo = @ \ {n}, !.mine = @ \cup {n}])
          /\ posted' = posted \cup {n}
    BY <1>4 DEF Post
  <2>2. unposted' = unposted /\ Done' = Done \cup {n}
    BY <1>4, <2>1 DEF Post, Done
  <2>3. QED
    BY <1>1, <1>2, <1>3, <2>1, <2>2, MessageStep
<1>5. CASE PostFails(r)
  <2>1. PICK n \in request[r].todo :
          /\ Goes(r, [request[r] EXCEPT !.todo = @ \ {n}])
          /\ unposted' = unposted \cup {n}
    BY <1>5 DEF PostFails
  <2>2. posted' = posted /\ Done' = Done \cup {n}
    BY <1>5, <2>1 DEF PostFails, Done
  <2>3. QED
    BY <1>1, <1>2, <1>3, <2>1, <2>2, MessageStep
<1>6. QED
  BY <1>4, <1>5

\* The mark is raised over a page whose messages are all done.
LEMMA StoreStep ==
    ASSUME LogInv, RoomInv, NEW r \in Requests, Store(r)
    PROVE  RoomInv'
<1>1. /\ request[r].at = "post" /\ request[r].todo = {} /\ Goes(r, Idle)
      /\ mark' = IF request[r].top > mark THEN request[r].top ELSE mark
      /\ told' = told \cup request[r].mine
      /\ rows' = rows /\ posted' = posted /\ unposted' = unposted /\ skipped' = skipped
  BY DEF Store, Goes, logVars
<1>2. /\ request[r] \in Request /\ mark \in Nat /\ request[r].top \in Nat
      /\ told \subseteq Nat /\ request[r].mine \subseteq Nat
      /\ told' \subseteq EventSeqs
  BY <1>1 DEF RoomInv, RoomTypeOK, Request, EventSeqs
<1>3. /\ mark' \in Nat /\ mark <= mark' /\ request[r].top <= mark'
      /\ mark' = mark \/ mark' = request[r].top
  BY <1>1, <1>2
<1>4. /\ Idle \in Request /\ RepeatSound(Idle)
      /\ PageSound(Idle, rows, mark', Done', skipped')
  BY <1>3, IdleFacts
<1>5. RoomTypeOK'
  BY <1>1, <1>2, <1>3, <1>4 DEF RoomInv, RoomTypeOK, Goes
<1>6. /\ PageSound(request[r], rows, mark, Done, skipped) /\ RepeatSound(request[r])
      /\ MarkSound(rows, mark, Done, skipped) /\ ToldSound(mark, told)
  BY DEF RoomInv, RoomSound, RequestsSound
<1>7. Done' = Done
  BY <1>1 DEF Done
<1>8. RequestsSound'
  BY <1>1, <1>3, <1>4, <1>5, <1>7, GoesSound DEF RoomInv
<1>9. MarkSound(rows, mark', Done, skipped)
  <2>1. CASE mark' = mark
    BY <1>6, <2>1
  <2>2. CASE mark' = request[r].top
    <3>1. Done \cup request[r].todo = Done
      BY <1>1
    <3>2. QED
      BY <1>1, <1>6, <2>2, <3>1 DEF PageSound, MarkSound
  <2>3. QED
    BY <1>3, <2>1, <2>2
<1>10. ToldSound(mark', told')
  <2>1. \A n \in told : n <= mark'
    BY <1>2, <1>3, <1>6 DEF ToldSound
  <2>2. \A n \in request[r].mine : n <= mark'
    BY <1>2, <1>3, <1>6 DEF RepeatSound
  <2>3. QED
    BY <1>1, <2>1, <2>2 DEF ToldSound
<1>11. QED
  BY <1>1, <1>5, <1>7, <1>8, <1>9, <1>10 DEF RoomInv, RoomSound

-----------------------------------------------------------------------------
(* The invariant *)

ProjectorInv == LogInv /\ RunTypeOK /\ RoomInv /\ left \in Nat

\* A restart, and the start, begin with nothing posted and the mark at zero.
LEMMA FreshRoom ==
    ASSUME LogInv', mark' = 0, request' = [r \in Requests |-> Idle],
           posted' = {}, unposted' = {}, skipped' = {}, told' = {}
    PROVE  RoomInv'
<1>1. Cardinality(rows') \in Nat /\ \A row \in rows' : row.seq \in Nat /\ row.seq # 0
  BY FS_CardinalityType DEF LogInv, LogTypeOK, Row
<1>2. Idle \in Request
  BY DEF Idle, Request
<1>3. RoomTypeOK'
  BY <1>2 DEF RoomTypeOK
<1>4. ASSUME NEW r \in Requests
      PROVE  /\ PageSound(request'[r], rows', mark', Done', skipped')
             /\ RepeatSound(request'[r])
  <2>1. /\ request'[r].todo = {} /\ request'[r].mine = {} /\ request'[r].old = {}
        /\ request'[r].at = "idle" /\ request'[r].after = 0 /\ request'[r].top = 0
    BY DEF Idle
  <2>2. QED
    BY <1>1, <2>1 DEF PageSound, RepeatSound
<1>5. MarkSound(rows', mark', Done', skipped')
  BY <1>1 DEF MarkSound
<1>6. ToldSound(mark', told')
  BY DEF ToldSound
<1>7. QED
  BY <1>3, <1>4, <1>5, <1>6 DEF RoomInv, RoomSound, RequestsSound

\* A restart forgets the calls, the requests and the mark, and keeps the log.
LEMMA RestartStep ==
    ASSUME ProjectorInv, Restart
    PROVE  ProjectorInv'
<1>1. /\ append' = [w \in Writers |-> NoCall] /\ rows' = rows
      /\ outcome' = outcome /\ over' = over /\ left' = left - 1 /\ left > 0
  BY DEF Restart, Extra, runVars
<1>2. Cardinality(rows) \in Nat
  BY FS_CardinalityType DEF ProjectorInv, LogInv, LogTypeOK
<1>3. NoCall \in Call
  BY LogAssumption DEF NoCall, Call, Subjects
<1>4. LogInv'
  BY <1>1, <1>2, <1>3
     DEF ProjectorInv, LogInv, LogTypeOK, LogDense, Seqs, CallsSound, Quiet, NoCall
<1>5. RunTypeOK'
  BY <1>1 DEF ProjectorInv, RunTypeOK
<1>6. RoomInv'
  BY <1>4, FreshRoom DEF Restart
<1>7. left' \in Nat
  BY <1>1 DEF ProjectorInv
<1>8. QED
  BY <1>4, <1>5, <1>6, <1>7 DEF ProjectorInv

\* The plan is logged and nothing is projected.
LEMMA InvInit == Init => ProjectorInv
<1> SUFFICES ASSUME Init PROVE ProjectorInv
  OBVIOUS
<1> DEFINE planned == [seq |-> 1, kind |-> "shown", of |-> Run]
<1>1. rows = {planned} /\ append = [w \in Writers |-> NoCall]
  BY DEF Init, LogInit
<1>2. IsFiniteSet(rows) /\ Cardinality(rows) = 1
  BY <1>1, FS_Singleton
<1>3. rows \subseteq Row
  BY <1>1 DEF Row, Kinds, Shown, Subjects
<1>4. NoCall \in Call
  BY LogAssumption DEF NoCall, Call, Subjects
<1>5. LogTypeOK
  BY <1>1, <1>2, <1>3, <1>4 DEF LogTypeOK
<1>6. Seqs = {1}
  BY <1>1 DEF Seqs
<1>7. LogInv
  <2>1. {1} = 1 .. 1
    OBVIOUS
  <2>2. LogDense
    BY <1>2, <1>6, <2>1 DEF LogDense
  <2>3. CallsSound
    BY <1>1, <1>2 DEF CallsSound, Quiet, NoCall
  <2>4. QED
    BY <1>5, <2>2, <2>3 DEF LogInv
<1>8. RunTypeOK
  BY DEF Init, RunTypeOK, Outcomes
<1>9. RoomInv
  <2>1. RoomTypeOK
    BY DEF Init, RoomTypeOK, Idle, Request
  <2>2. ASSUME NEW r \in Requests
        PROVE  PageSound(request[r], rows, mark, Done, skipped) /\ RepeatSound(request[r])
    <3>1. request[r] = Idle /\ mark = 0
      BY DEF Init
    <3>2. QED
      BY <1>7, <3>1, IdleFacts
  <2>3. MarkSound(rows, mark, Done, skipped)
    BY <1>1, <1>2 DEF Init, MarkSound
  <2>4. ToldSound(mark, told)
    BY DEF Init, ToldSound
  <2>5. QED
    BY <2>1, <2>2, <2>3, <2>4 DEF RoomInv, RoomSound, RequestsSound
<1>10. QED
  BY <1>7, <1>8, <1>9, ProjectorAssumption DEF Init, ProjectorInv

\* The bound is used up, never exceeded.
LEMMA BoundStep == left \in Nat /\ [Next]_vars => left' \in Nat
<1> SUFFICES ASSUME left \in Nat, [Next]_vars PROVE left' \in Nat
  OBVIOUS
<1> DEFINE Kept == left' = left \/ Extra
<1>1. Kept => left' \in Nat
  BY DEF Extra
<1>2. ASSUME NEW w \in Writers, RunStep(w) PROVE Kept
  BY <1>2 DEF RunStep, Updates, Outputs, RunMoves
<1>3. ASSUME NEW w \in Writers, Appends(w) PROVE Kept
  BY <1>3 DEF Appends
<1>4. ASSUME NEW r \in Requests, Snapshot(r) \/ Serve(r) PROVE Kept
  BY <1>4 DEF Snapshot, Serve, ReadMark, List, ListFails, Post, PostFails, Store
<1>5. Restart => Kept
  BY DEF Restart
<1>6. UNCHANGED vars => Kept
  BY DEF vars
<1>7. QED
  BY <1>1, <1>2, <1>3, <1>4, <1>5, <1>6 DEF Next, RunStep

\* One step per part: the run, the log, the projections, a restart.
LEMMA InvStep == ProjectorInv /\ [Next]_vars => ProjectorInv'
<1> SUFFICES ASSUME ProjectorInv, [Next]_vars PROVE ProjectorInv'
  OBVIOUS
<1>1. left' \in Nat
  BY BoundStep DEF ProjectorInv
<1>2. ASSUME NEW w \in Writers, RunStep(w) PROVE ProjectorInv'
  <2>1. PICK s \in Subjects, kind \in Kinds : Log(w, s, kind)
    BY <1>2, RunLogs
  <2>2. rows' = rows /\ UNCHANGED roomVars
    BY <1>2, RunLogs
  <2>3. LogInv' /\ LogGrows
    BY <2>1, <2>2, LogStep DEF ProjectorInv
  <2>4. RunTypeOK'
    BY <1>2, RunTypeStep DEF ProjectorInv
  <2>5. RoomInv'
    BY <2>2, <2>3, RoomSoundGrows DEF ProjectorInv, RoomInv, RoomTypeOK, roomVars
  <2>6. QED
    BY <1>1, <2>3, <2>4, <2>5 DEF ProjectorInv
<1>3. ASSUME NEW w \in Writers, Appends(w) PROVE ProjectorInv'
  <2>1. UNCHANGED roomVars /\ (ReadMax(w) \/ Insert(w) \/ Conflict(w) \/ InsertFails(w))
    BY <1>3 DEF Appends
  <2>2. LogInv' /\ LogGrows
    BY <2>1, AppendStep DEF ProjectorInv
  <2>3. RunTypeOK'
    BY <1>3 DEF Appends, runVars, ProjectorInv, RunTypeOK
  <2>4. RoomInv'
    BY <2>1, <2>2, RoomSoundGrows DEF ProjectorInv, RoomInv, RoomTypeOK, roomVars
  <2>5. QED
    BY <1>1, <2>2, <2>3, <2>4 DEF ProjectorInv
<1>4. ASSUME NEW r \in Requests, Snapshot(r) \/ Serve(r) PROVE ProjectorInv'
  <2>1. UNCHANGED <<logVars, runVars>>
    BY <1>4 DEF Snapshot, Serve, ReadMark, List, ListFails, Post, PostFails, Store, Goes
  <2>2. LogInv' /\ RunTypeOK'
    BY <2>1 DEF ProjectorInv, LogInv, LogTypeOK, LogDense, CallsSound, Quiet, Seqs, RunTypeOK,
                logVars, runVars
  <2>3. RoomInv'
    BY <1>4, SnapshotStep, ReadMarkStep, ListStep, ListFailsStep, PostStep, StoreStep
       DEF ProjectorInv, Serve
  <2>4. QED
    BY <1>1, <2>2, <2>3 DEF ProjectorInv
<1>5. CASE Restart
  BY <1>5, RestartStep
<1>6. CASE UNCHANGED vars
  <2>1. UNCHANGED <<rows, append, outcome, over>>
    BY <1>6 DEF vars, logVars, runVars
  <2>2. UNCHANGED <<mark, request, posted, unposted, skipped, told>>
    BY <1>6 DEF vars, roomVars
  <2>3. LogInv' /\ RunTypeOK'
    BY <2>1 DEF ProjectorInv, LogInv, LogTypeOK, LogDense, CallsSound, Quiet, Seqs, RunTypeOK
  <2>4. RoomInv'
    BY <2>1, <2>2 DEF ProjectorInv, RoomInv, RoomTypeOK, RoomSound, RequestsSound, Done
  <2>5. QED
    BY <1>1, <2>3, <2>4 DEF ProjectorInv
<1>7. QED
  BY <1>2, <1>3, <1>4, <1>5, <1>6 DEF Next, RunStep

\* The invariant of every state of a run and its room.
LEMMA ProjectorInvariant == Spec => []ProjectorInv
  BY InvInit, InvStep, PTL DEF Spec

\* The variables have their types; a call of AppendEvent stays within its tries.
THEOREM ProjectorTypeCorrect == Spec => []TypeOK
<1>1. ProjectorInv => TypeOK
  BY DEF ProjectorInv, LogInv, RunTypeOK, RoomInv, RoomTypeOK, TypeOK
<1>2. QED
  BY <1>1, ProjectorInvariant, PTL

\* However many goroutines append at once, fail and are given up, the events of a run
\* are numbered without a gap or a repetition.
THEOREM LogIsDense == Spec => []LogDense
<1>1. ProjectorInv => LogDense
  BY DEF ProjectorInv, LogInv
<1>2. QED
  BY <1>1, ProjectorInvariant, PTL

\* However many projections overlap, and whatever the goroutines of the run write
\* meanwhile, the mark passes over no event that is not settled.
THEOREM MarkPassesNothing == Spec => []NothingPassedOver
<1>1. ProjectorInv => NothingPassedOver
  BY DEF ProjectorInv, RoomInv, RoomSound, MarkSound, NothingPassedOver, SettledIn, Settled, Done
<1>2. QED
  BY <1>1, ProjectorInvariant, PTL

\* A projection posts no event that one posted which returned before this one read the
\* mark: every event that is posted twice is posted by two projections that overlap.
THEOREM RepeatsOverlap == Spec => []OnlyOverlapsRepeat
<1>1. ProjectorInv => OnlyOverlapsRepeat
  BY DEF ProjectorInv, RoomInv, RoomSound, RequestsSound, RepeatSound, OnlyOverlapsRepeat
<1>2. QED
  BY <1>1, ProjectorInvariant, PTL
=============================================================================
