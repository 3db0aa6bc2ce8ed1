-------------------------- MODULE RunEventsProofs --------------------------
(***************************************************************************)
(* Theorems about RunEvents, for any number of events, any size of a       *)
(* batch, any number of attempts and any number of faults: what the API    *)
(* has acknowledged is stored, however posts and answers are lost, late or *)
(* repeated; the page has no gap, however often it reconnects; and the     *)
(* table is a transcript of what the runner reported.                      *)
(***************************************************************************)
EXTENDS RunEvents, WellFoundedInduction, TLAPS

Batches == [number: Nat, attempt: Nat, events: Seq(Nat) \ {<<>>}]

Handlers == [request: Batches, rows: Seq(Nat), starts: BOOLEAN]

TypeOK ==
  /\ emitted \in Nat /\ pending \in Seq(Nat) /\ batches_sent \in Nat /\ last_batch \in Nat
  /\ posting \in Batches \union {Nothing}
  /\ requests \subseteq Batches /\ handlers \subseteq Handlers
  /\ status \in {"claimed", "running", "ended"}
  /\ table \in Seq(Nat) /\ announce \in Seq(Nat)

\* The run is on its way out of "claimed", unless a crash stopped that.
Started == status # "claimed" \/ died \/ \E h \in handlers : h.starts

\* What NothingAcknowledgedIsLost asks of a batch.
Stored(events) ==
  /\ Elements(events) \ {START} \subseteq Elements(table)
  /\ START \in Elements(events) => Started

\* A post, wherever it is: if it has the number of the batch at hand, it is an attempt at it.
Attempted(q) ==
  /\ q.number <= batches_sent
  /\ posting # Nothing /\ q.number = posting.number => q.events = posting.events

\* A number up to last_batch was stored or given up, and the batch at hand was not given up.
BatchInv ==
  /\ last_batch <= batches_sent
  /\ posting # Nothing =>
       posting.number = batches_sent /\ (posting.number <= last_batch => Stored(posting.events))
  /\ \A q \in requests : Attempted(q)
  /\ \A h \in handlers : Attempted(h.request) /\ Stored(h.request.events)

Inv == TypeOK /\ BatchInv /\ NothingAcknowledgedIsLost

-----------------------------------------------------------------------------
(* Sequences and records. *)

\* The next attempt at a batch.
LEMMA NextAttempt ==
  ASSUME NEW b \in Batches
  PROVE  LET c == [b EXCEPT !.attempt = @ + 1]
         IN  c \in Batches /\ c # Nothing /\ c.number = b.number /\ c.events = b.events
  BY EventsAssumption DEF Batches

LEMMA BatchesAreNot == ASSUME NEW b \in Batches PROVE b # Nothing
  BY EventsAssumption DEF Batches

LEMMA AppendElements ==
  ASSUME NEW s \in Seq(Nat), NEW e \in Nat
  PROVE  Append(s, e) \in Seq(Nat) /\ Elements(s) \subseteq Elements(Append(s, e))
  BY DEF Elements

LEMMA ConcatElements ==
  ASSUME NEW s \in Seq(Nat), NEW t \in Seq(Nat)
  PROVE  /\ s \o t \in Seq(Nat)
         /\ Elements(s) \subseteq Elements(s \o t) /\ Elements(t) \subseteq Elements(s \o t)
  <1>1. s \o t \in Seq(Nat) /\ Len(s \o t) = Len(s) + Len(t)
    OBVIOUS
  <1>2. \A i \in 1..Len(s) : i \in 1..Len(s \o t) /\ (s \o t)[i] = s[i]
    BY <1>1
  <1>3. \A i \in 1..Len(t) : Len(s) + i \in 1..Len(s \o t) /\ (s \o t)[Len(s) + i] = t[i]
    BY <1>1
  <1> QED
    BY <1>1, <1>2, <1>3 DEF Elements

\* A batch's rows are its events but the first of all.
LEMMA RowsOfElements ==
  ASSUME NEW events \in Seq(Nat)
  PROVE  /\ events # <<>> => RowsOf(events) \in Seq(Nat)
         /\ events # <<>> => Elements(events) \ {START} \subseteq Elements(RowsOf(events))
  <1>1. CASE events # <<>> /\ Head(events) = START
    <2>1. Tail(events) \in Seq(Nat) /\ Len(Tail(events)) = Len(events) - 1
          /\ events[1] = START
          /\ \A i \in 2..Len(events) : i - 1 \in 1..Len(Tail(events)) /\ Tail(events)[i - 1] = events[i]
      BY <1>1
    <2>2. \A i \in 1..Len(events) : i = 1 \/ i \in 2..Len(events)
      OBVIOUS
    <2>3. RowsOf(events) = Tail(events)
      BY <1>1 DEF RowsOf
    <2>4. ASSUME NEW e \in Elements(events), e # START PROVE e \in Elements(Tail(events))
      <3>1. PICK i \in 1..Len(events) : e = events[i]
        BY DEF Elements
      <3>2. i \in 2..Len(events)
        BY <2>1, <2>2, <2>4, <3>1
      <3> QED
        BY <2>1, <3>1, <3>2 DEF Elements
    <2> QED
      BY <2>1, <2>3, <2>4
  <1>2. CASE Head(events) # START
    BY <1>2 DEF RowsOf
  <1> QED
    BY <1>1, <1>2

-----------------------------------------------------------------------------
(* Steps. *)

\* A handler that has published a row, or has made its transition.
LEMMA HandlerAfter ==
  ASSUME NEW h \in Handlers
  PROVE  /\ h.request \in Batches /\ h.rows \in Seq(Nat) /\ h.starts \in BOOLEAN
         /\ h.rows # <<>> =>
              LET g == [h EXCEPT !.rows = Tail(@)]
              IN  g \in Handlers /\ g.request = h.request /\ (g.starts <=> h.starts)
         /\ \A id \in Nat :
              LET g == [h EXCEPT !.rows = <<id>>, !.starts = FALSE]
              IN  g \in Handlers /\ g.request = h.request
         /\ LET g == [h EXCEPT !.starts = FALSE]
            IN  g \in Handlers /\ g.request = h.request
  <1>1. h.request \in Batches /\ h.rows \in Seq(Nat) /\ h.starts \in BOOLEAN
    BY DEF Handlers
  <1>3. ASSUME h.rows # <<>>
        PROVE  LET g == [h EXCEPT !.rows = Tail(@)]
               IN  g \in Handlers /\ g.request = h.request /\ (g.starts <=> h.starts)
    <2>1. Tail(h.rows) \in Seq(Nat)
      BY <1>1, <1>3
    <2> QED
      BY <2>1 DEF Handlers
  <1>4. ASSUME NEW id \in Nat
        PROVE  LET g == [h EXCEPT !.rows = <<id>>, !.starts = FALSE]
               IN  g \in Handlers /\ g.request = h.request
    <2>1. <<id>> \in Seq(Nat)
      OBVIOUS
    <2> DEFINE f == [h EXCEPT !.rows = <<id>>]
    <2>2. f \in Handlers /\ f.request = h.request
      BY <2>1 DEF Handlers
    <2>3. [f EXCEPT !.starts = FALSE] \in Handlers /\ [f EXCEPT !.starts = FALSE].request = f.request
      <3> HIDE DEF f
      <3> QED
        BY <2>2 DEF Handlers
    <2> QED
      BY <2>2, <2>3
  <1>5. LET g == [h EXCEPT !.starts = FALSE]
        IN  g \in Handlers /\ g.request = h.request
    BY DEF Handlers
  <1> QED
    BY <1>1, <1>3, <1>4, <1>5

\* What an answer does to the runner, if it is the one it waits for.
LEMMA AnsweredDoes ==
  ASSUME NEW q \in Batches, NEW code, Answered(q, code), TypeOK
  PROVE  /\ posting' \in {posting, Nothing} /\ pending' \in Seq(Nat)
         /\ \/ acked' = acked
            \/ code = "ok" /\ posting = q /\ acked' = acked \union Elements(q.events)
  BY DEF Answered, TypeOK

\* A batch is a non-empty part of what is pending.
LEMMA TakenBatch ==
  ASSUME TypeOK, TakeBatch
  PROVE  /\ posting' \in Batches /\ posting' # Nothing /\ posting = Nothing
         /\ posting'.number = batches_sent + 1 /\ batches_sent' = batches_sent + 1
         /\ pending' \in Seq(Nat)
         /\ requests' = requests \union {posting'}
  <1>1. PICK size, number, events, b :
          /\ size = Least(max_batch, Len(pending)) /\ posting' = b
          /\ number = NextNumber /\ events = SubSeq(pending, 1, size)
          /\ b = [number |-> number, attempt |-> 1, events |-> events]
          /\ pending' = SubSeq(pending, size + 1, Len(pending))
    BY DEF TakeBatch
  <1>2. pending \in Seq(Nat) /\ Len(pending) \in Nat \ {0}
    BY DEF TypeOK, TakeBatch, Sendable
  <1>3. size \in 1..Len(pending)
    BY <1>1, <1>2, EventsAssumption DEF Least
  <1>4. events \in Seq(Nat) \ {<<>>}
    <2>1. events \in Seq(Nat) /\ Len(events) = size
      BY <1>1, <1>2, <1>3
    <2> QED
      BY <1>3, <2>1
  <1>5. SubSeq(pending, size + 1, Len(pending)) \in Seq(Nat)
    BY <1>2, <1>3
  <1>6. number \in Nat /\ number = batches_sent + 1
    BY <1>1 DEF NextNumber, TypeOK
  <1>7. b = [number |-> number, attempt |-> 1, events |-> events]
    BY <1>1
  <1>8. b \in Batches /\ b # Nothing /\ b.number = number
    BY <1>4, <1>6, <1>7, EventsAssumption DEF Batches
  <1> QED
    BY <1>1, <1>5, <1>6, <1>8 DEF TakeBatch

\* A retry repeats the batch.
LEMMA AttemptFailsDoes ==
  ASSUME TypeOK, AttemptFails
  PROVE  /\ posting \in Batches /\ posting # Nothing
         /\ \/ /\ posting' \in Batches /\ posting'.number = posting.number
               /\ posting'.events = posting.events
            \/ posting' = Nothing
         /\ requests' \subseteq requests \union ({posting'} \ {Nothing})
  <1>1. posting \in Batches /\ posting # Nothing
    BY DEF AttemptFails, TypeOK
  <1>2. PICK sent \in {requests, requests \ {posting}} :
          IF MayTryAgain
            THEN /\ posting' = [posting EXCEPT !.attempt = @ + 1]
                 /\ requests' = sent \union {posting'}
            ELSE posting' = Nothing /\ requests' = sent
    BY DEF AttemptFails
  <1>3. CASE MayTryAgain
    BY <1>1, <1>2, <1>3, NextAttempt
  <1> QED
    BY <1>1, <1>2, <1>3

\* The handler of a batch that was stored.
LEMMA StoreBatchDoes ==
  ASSUME TypeOK, NEW q \in requests, StoreBatch(q)
  PROVE  \E h \in Handlers :
           /\ h.request = q
           /\ h.starts <=> Starts(q.events) /\ status = "claimed"
           /\ handlers' = handlers \union {h}
           /\ table' \in Seq(Nat) /\ Elements(table) \subseteq Elements(table')
           /\ Elements(q.events) \ {START} \subseteq Elements(table')
  <1>1. PICK stored, h, starts :
          /\ stored = RowsOf(q.events) /\ table' = table \o stored
          /\ starts = (Starts(q.events) /\ status = "claimed")
          /\ h = [request |-> q, rows |-> [i \in 1..Len(stored) |-> Len(table) + i],
                  starts |-> starts]
          /\ handlers' = handlers \union {h}
    BY DEF StoreBatch
  <1>2. q \in Batches /\ q.events \in Seq(Nat) /\ q.events # <<>>
    BY DEF TypeOK, Batches
  <1>3. stored \in Seq(Nat) /\ Elements(q.events) \ {START} \subseteq Elements(stored)
    BY <1>1, <1>2, RowsOfElements
  <1>4. table \in Seq(Nat) /\ Len(table) \in Nat /\ Len(stored) \in Nat
    BY <1>3 DEF TypeOK
  <1>5. [i \in 1..Len(stored) |-> Len(table) + i] \in Seq(Nat)
    BY <1>4
  <1>6. starts \in BOOLEAN /\ (starts <=> Starts(q.events) /\ status = "claimed")
    BY <1>1, Zenon DEF Starts
  <1>7. h \in Handlers /\ h.request = q /\ (h.starts <=> starts)
    BY <1>1, <1>2, <1>5, <1>6 DEF Handlers
  <1>8. h \in Handlers /\ h.request = q /\ (h.starts <=> Starts(q.events) /\ status = "claimed")
    BY <1>6, <1>7, Zenon
  <1>9. table' \in Seq(Nat) /\ Elements(table) \subseteq Elements(table')
        /\ Elements(stored) \subseteq Elements(table')
    BY <1>1, <1>3, <1>4, ConcatElements
  <1> QED
    BY <1>1, <1>3, <1>8, <1>9

\* The steps that change neither the sink, nor the API, nor who announces the end.
Aside == UNCHANGED <<sink, api, announce>>

LEMMA AsideSteps == PageStep => Aside
  BY DEF PageStep, LoadHistory, Subscribe, Replay, CatchUp, Disconnect, LearnEnd, Aside

LEMMA TypeStep == TypeOK /\ [Next]_vars => TypeOK'
  <1> SUFFICES ASSUME TypeOK, [Next]_vars PROVE TypeOK'
    OBVIOUS
  <1> USE DEF sink, api, page, stream
  <1>1. CASE Report
    BY <1>1, AppendElements DEF Report, Emit, TypeOK
  <1>2. CASE Finish
    <2>1. CASE gone
      BY <1>2, <2>1 DEF Finish, TypeOK
    <2>2. CASE ~gone
      <3>1. emitted' = emitted + 1 /\ pending' = Append(pending, emitted + 1)
            /\ UNCHANGED <<posting, batches_sent, requests, handlers, last_batch, status, table, announce>>
        BY <1>2, <2>2 DEF Finish, Emit
      <3> QED
        BY <3>1 DEF TypeOK
    <2> QED
      BY <2>1, <2>2
  <1>3. CASE TakeBatch
    <2>1. posting' \in Batches /\ pending' \in Seq(Nat) /\ batches_sent' = batches_sent + 1
          /\ requests' = requests \union {posting'}
      BY <1>3, TakenBatch
    <2>2. UNCHANGED <<emitted, last_batch, handlers, status, table, announce>>
      BY <1>3 DEF TakeBatch
    <2> QED
      BY <2>1, <2>2 DEF TypeOK
  <1>4. CASE AttemptFails
    <2>1. requests' \subseteq Batches /\ posting' \in Batches \union {Nothing}
      BY <1>4, AttemptFailsDoes DEF TypeOK
    <2> QED
      BY <1>4, <2>1 DEF AttemptFails, TypeOK
  <1>5. CASE Drained
    BY <1>5 DEF Drained, TypeOK
  <1>6. CASE DrainTimesOut
    BY <1>6 DEF DrainTimesOut, TypeOK
  <1>7. ASSUME NEW q \in requests, Refuse(q) PROVE TypeOK'
    <2>1. posting' \in {posting, Nothing} /\ pending' \in Seq(Nat)
      BY <1>7, AnsweredDoes DEF Refuse, TypeOK
    <2> QED
      BY <1>7, <2>1 DEF Refuse, TypeOK
  <1>8. ASSUME NEW q \in requests, StoreBatch(q) PROVE TypeOK'
    <2>1. table' \in Seq(Nat) /\ handlers' \subseteq Handlers
      BY <1>8, StoreBatchDoes DEF TypeOK
    <2>2. q.number \in Nat
      BY DEF TypeOK, Batches
    <2> QED
      BY <1>8, <2>1, <2>2 DEF StoreBatch, TypeOK
  <1>9. ASSUME NEW h \in handlers, PublishRow(h) PROVE TypeOK'
    BY <1>9, HandlerAfter DEF PublishRow, TypeOK
  <1>10. ASSUME NEW h \in handlers, StartRunning(h) PROVE TypeOK'
    <2>1. table \in Seq(Nat) /\ Len(table) + 1 \in Nat /\ TRANSITION \in Nat
      BY DEF TypeOK, TRANSITION
    <2>2. handlers' \subseteq Handlers
      <3>1. h \in Handlers /\ handlers \subseteq Handlers
        BY DEF TypeOK
      <3>2. [h EXCEPT !.rows = <<Len(table) + 1>>, !.starts = FALSE] \in Handlers
            /\ [h EXCEPT !.starts = FALSE] \in Handlers
        BY <2>1, <3>1, HandlerAfter
      <3> QED
        BY <1>10, <3>1, <3>2 DEF StartRunning
    <2> QED
      BY <1>10, <2>1, <2>2, AppendElements DEF StartRunning, TypeOK
  <1>11. ASSUME NEW h \in handlers, Answer(h) PROVE TypeOK'
    <2>1. posting' \in {posting, Nothing} /\ pending' \in Seq(Nat)
      BY <1>11, AnsweredDoes, HandlerAfter DEF Answer, TypeOK
    <2> QED
      BY <1>11, <2>1 DEF Answer, TypeOK
  <1>12. ASSUME NEW h \in handlers, HandlerDies(h) PROVE TypeOK'
    BY <1>12 DEF HandlerDies, TypeOK
  <1>13. CASE EndRun
    <2>1. table \in Seq(Nat) /\ Len(table) + 1 \in Nat /\ TRANSITION \in Nat
      BY DEF TypeOK, TRANSITION
    <2> QED
      BY <1>13, <2>1, AppendElements DEF EndRun, TypeOK
  <1>14. CASE AnnounceEnd
    BY <1>14 DEF AnnounceEnd, TypeOK
  <1>15. CASE PageStep \/ UNCHANGED vars
    BY <1>15, AsideSteps DEF Aside, vars, TypeOK
  <1> QED
    BY <1>1, <1>2, <1>3, <1>4, <1>5, <1>6, <1>7, <1>8, <1>9, <1>10, <1>11, <1>12, <1>13,
       <1>14, <1>15
    DEF Next, RunnerStep, ApiStep

\* What is stored stays, and a run that has started has started: the table only grows, no status
\* is "claimed" again, and a handler goes only when its transition is made, or by dying.
LEMMA StoredStays ==
  ASSUME TypeOK, [Next]_vars
  PROVE  Elements(table) \subseteq Elements(table') /\ (Started => Started')
  <1> USE DEF sink, api, page, stream
  <1>1. CASE UNCHANGED <<table, status, died, handlers>>
    BY <1>1 DEF Started, Elements
  <1>2. CASE RunnerStep \/ AnnounceEnd \/ PageStep \/ UNCHANGED vars
    BY <1>1, <1>2, AsideSteps
    DEF RunnerStep, Report, Finish, TakeBatch, AttemptFails, Drained, DrainTimesOut, AnnounceEnd,
        Aside, vars
  <1>3. ASSUME NEW q \in requests, Refuse(q) PROVE UNCHANGED <<table, status, died, handlers>>
    BY <1>3 DEF Refuse
  <1>4. ASSUME NEW q \in requests, StoreBatch(q)
        PROVE  Elements(table) \subseteq Elements(table') /\ (Started => Started')
    BY <1>4, StoreBatchDoes DEF StoreBatch, Started
  <1>5. ASSUME NEW h \in handlers, PublishRow(h)
        PROVE  Elements(table) \subseteq Elements(table') /\ (Started => Started')
    BY <1>5, HandlerAfter DEF PublishRow, Started, Elements, TypeOK
  <1>6. ASSUME NEW h \in handlers, StartRunning(h)
        PROVE  Elements(table) \subseteq Elements(table') /\ (Started => Started')
    <2>1. Elements(table) \subseteq Elements(table')
      <3>1. table' = table \/ table' = Append(table, TRANSITION)
        BY <1>6 DEF StartRunning
      <3>2. table \in Seq(Nat) /\ TRANSITION \in Nat
        BY DEF TypeOK, TRANSITION
      <3>3. Elements(table) \subseteq Elements(Append(table, TRANSITION))
        BY <3>2, AppendElements
      <3> QED
        BY <3>1, <3>3
    <2>2. Started'
      BY <1>6 DEF StartRunning, Started
    <2> QED
      BY <2>1, <2>2
  <1>7. ASSUME NEW h \in handlers, Answer(h)
        PROVE  Elements(table) \subseteq Elements(table') /\ (Started => Started')
    BY <1>7 DEF Answer, Started, Elements
  <1>8. ASSUME NEW h \in handlers, HandlerDies(h)
        PROVE  Elements(table) \subseteq Elements(table') /\ (Started => Started')
    BY <1>8 DEF HandlerDies, Started, Elements
  <1>9. ASSUME EndRun
        PROVE  Elements(table) \subseteq Elements(table') /\ (Started => Started')
    BY <1>9, AppendElements DEF EndRun, Started, TypeOK, TRANSITION
  <1> QED
    BY <1>1, <1>2, <1>3, <1>4, <1>5, <1>6, <1>7, <1>8, <1>9 DEF Next, ApiStep

-----------------------------------------------------------------------------
(* The invariant. *)

\* The steps that send and store nothing, and answer at most what is stored.
Modest ==
  /\ posting' \in {posting, Nothing}
  /\ UNCHANGED <<batches_sent, last_batch>>
  /\ requests' \subseteq requests
  /\ \A g \in handlers' : \E h \in handlers : g.request = h.request
  /\ acked' = acked \/ \E q \in Batches : Stored(q.events) /\ acked' = acked \union Elements(q.events)

LEMMA ModestStep ==
  ASSUME Inv, [Next]_vars
  PROVE  \/ Modest \/ TakeBatch \/ AttemptFails \/ \E q \in requests : StoreBatch(q)
  <1> USE DEF sink, api, page, stream
  <1>a. TypeOK /\ BatchInv
    BY DEF Inv
  <1>1. CASE Report \/ Finish \/ Drained \/ DrainTimesOut
    BY <1>1 DEF Report, Finish, Drained, DrainTimesOut, Modest
  <1>2. ASSUME NEW q \in requests, Refuse(q) PROVE Modest
    <2>1. q \in Batches /\ q.number \in Nat /\ last_batch \in Nat
      BY <1>a DEF TypeOK, Batches
    <2>2. PICK code \in {"gone", "ok", "rejected"} :
            Answered(q, code) /\ (code = "ok" => ~NewBatch(q))
      BY <1>2 DEF Refuse
    <2>3. /\ posting' \in {posting, Nothing}
          /\ \/ acked' = acked
             \/ code = "ok" /\ posting = q /\ acked' = acked \union Elements(q.events)
      BY <1>a, <2>1, <2>2, AnsweredDoes
    <2>4. posting = q /\ code = "ok" => Stored(q.events)
      BY <1>a, <2>1, <2>2, BatchesAreNot DEF BatchInv, NewBatch
    <2> QED
      BY <1>2, <2>1, <2>3, <2>4 DEF Refuse, Modest
  <1>3. ASSUME NEW h \in handlers, PublishRow(h) \/ StartRunning(h) PROVE Modest
    <2>1. h \in Handlers
      BY <1>a DEF TypeOK
    <2>2. \A g \in handlers' : g \in handlers \/ g.request = h.request
      <3>1. CASE PublishRow(h)
        BY <2>1, <3>1, HandlerAfter DEF PublishRow
      <3>2. CASE StartRunning(h)
        <4>1. Len(table) + 1 \in Nat
          BY <1>a DEF TypeOK
        <4>2. /\ [h EXCEPT !.rows = <<Len(table) + 1>>, !.starts = FALSE].request = h.request
              /\ [h EXCEPT !.starts = FALSE].request = h.request
          BY <2>1, <4>1, HandlerAfter
        <4> QED
          BY <3>2, <4>2 DEF StartRunning
      <3> QED
        BY <1>3, <3>1, <3>2
    <2> QED
      BY <1>3, <2>2 DEF PublishRow, StartRunning, Modest
  <1>4. ASSUME NEW h \in handlers, Answer(h) PROVE Modest
    <2>1. h.request \in Batches /\ Stored(h.request.events)
      BY <1>a, HandlerAfter DEF TypeOK, BatchInv
    <2>2. posting' \in {posting, Nothing}
          /\ (acked' = acked \/ acked' = acked \union Elements(h.request.events))
      BY <1>4, <1>a, <2>1, AnsweredDoes DEF Answer
    <2> QED
      BY <1>4, <2>1, <2>2 DEF Answer, Modest
  <1>5. ASSUME NEW h \in handlers, HandlerDies(h) PROVE Modest
    BY <1>5 DEF HandlerDies, Modest
  <1>6. CASE EndRun \/ AnnounceEnd \/ PageStep \/ UNCHANGED vars
    BY <1>6, AsideSteps DEF EndRun, AnnounceEnd, Aside, vars, Modest
  <1> QED
    BY <1>1, <1>2, <1>3, <1>4, <1>5, <1>6 DEF Next, RunnerStep, ApiStep

LEMMA InvStep == Inv /\ [Next]_vars => Inv'
  <1> SUFFICES ASSUME Inv, [Next]_vars PROVE Inv'
    OBVIOUS
  <1>a. TypeOK /\ BatchInv /\ NothingAcknowledgedIsLost /\ TypeOK'
    BY TypeStep DEF Inv
  <1>b. Elements(table) \subseteq Elements(table') /\ (Started => Started')
    BY <1>a, StoredStays
  <1>c. \A events : Stored(events) => Stored(events)'
    BY <1>b DEF Stored
  <1>d. (acked' = acked \/ \E q \in Batches : Stored(q.events) /\ acked' = acked \union Elements(q.events))
          => NothingAcknowledgedIsLost'
    BY <1>a, <1>b, <1>c DEF NothingAcknowledgedIsLost, Stored, Started
  <1>e. /\ batches_sent \in Nat /\ last_batch \in Nat /\ last_batch <= batches_sent
        /\ posting \in Batches \union {Nothing} /\ requests \subseteq Batches
        /\ handlers \subseteq Handlers
        /\ \A q \in Batches : q.number \in Nat /\ q # Nothing
        /\ \A h \in Handlers : h.request \in Batches
    BY <1>a, BatchesAreNot, HandlerAfter DEF TypeOK, BatchInv, Batches
  <1>1. CASE Modest
    <2>1. \A q : Attempted(q) => Attempted(q)'
      BY <1>1 DEF Modest, Attempted
    <2>2. BatchInv'
      BY <1>1, <1>a, <1>c, <2>1 DEF Modest, BatchInv
    <2> QED
      BY <1>1, <1>a, <1>d, <2>2 DEF Modest, Inv
  <1>2. CASE TakeBatch
    <2>1. /\ posting' \in Batches /\ posting' # Nothing
          /\ posting'.number = batches_sent + 1 /\ batches_sent' = batches_sent + 1
          /\ requests' = requests \union {posting'}
      BY <1>2, <1>a, TakenBatch
    <2>2. UNCHANGED <<handlers, last_batch, acked>>
      BY <1>2 DEF TakeBatch
    <2>3. \A q \in Batches : Attempted(q) \/ q = posting' => Attempted(q)'
      BY <1>e, <2>1 DEF Attempted
    <2>4. BatchInv'
      BY <1>a, <1>c, <1>e, <2>1, <2>2, <2>3 DEF BatchInv
    <2> QED
      BY <1>a, <1>d, <2>2, <2>4 DEF Inv
  <1>3. CASE AttemptFails
    <2>1. /\ posting \in Batches /\ posting # Nothing
          /\ \/ /\ posting' \in Batches /\ posting'.number = posting.number
                /\ posting'.events = posting.events
             \/ posting' = Nothing
          /\ requests' \subseteq requests \union ({posting'} \ {Nothing})
      BY <1>3, <1>a, AttemptFailsDoes
    <2>2. UNCHANGED <<handlers, last_batch, batches_sent, acked>>
      BY <1>3 DEF AttemptFails
    <2>3. posting.number = batches_sent
      BY <1>a, <2>1 DEF BatchInv
    <2>4. \A q \in Batches : Attempted(q) \/ q = posting' => Attempted(q)'
      BY <1>e, <2>1, <2>2, <2>3 DEF Attempted
    <2>5. BatchInv'
      BY <1>a, <1>c, <1>e, <2>1, <2>2, <2>3, <2>4 DEF BatchInv
    <2> QED
      BY <1>a, <1>d, <2>2, <2>5 DEF Inv
  <1>4. ASSUME NEW q \in requests, StoreBatch(q) PROVE Inv'
    <2>1. PICK h \in Handlers :
            /\ h.request = q
            /\ h.starts <=> Starts(q.events) /\ status = "claimed"
            /\ handlers' = handlers \union {h}
            /\ Elements(q.events) \ {START} \subseteq Elements(table')
      BY <1>4, <1>a, StoreBatchDoes
    <2>2. /\ last_batch' = q.number /\ requests' \subseteq requests
          /\ UNCHANGED <<posting, batches_sent, status, acked>>
      BY <1>4 DEF StoreBatch, sink
    <2>3. Stored(q.events)'
      BY <2>1, <2>2 DEF Stored, Started, Starts, Elements
    <2>4. \A p : Attempted(p) => Attempted(p)'
      BY <2>2 DEF Attempted
    <2>5. Attempted(q)
      BY <1>a DEF BatchInv
    <2>6. posting # Nothing => posting.number = batches_sent
            /\ (posting.number <= q.number => Stored(posting.events)')
      <3> SUFFICES ASSUME posting # Nothing
                   PROVE  posting.number = batches_sent
                          /\ (posting.number <= q.number => Stored(posting.events)')
        OBVIOUS
      <3>1. posting.number = batches_sent /\ q.number <= batches_sent
        BY <1>a, <2>5 DEF BatchInv, Attempted
      <3>2. ASSUME posting.number <= q.number PROVE posting.events = q.events
        <4>1. q.number \in Nat /\ batches_sent \in Nat
          BY <1>e
        <4>2. q.number = posting.number
          BY <3>1, <3>2, <4>1
        <4> QED
          BY <2>5, <4>2 DEF Attempted
      <3>3. posting' = posting
        BY <2>2
      <3> QED
        BY <2>3, <3>1, <3>2, <3>3 DEF Stored
    <2>7. BatchInv'
      BY <1>a, <1>c, <1>e, <2>1, <2>2, <2>3, <2>4, <2>5, <2>6 DEF BatchInv, Attempted
    <2> QED
      BY <1>a, <1>d, <2>2, <2>7 DEF Inv
  <1> QED
    BY <1>1, <1>2, <1>3, <1>4, ModestStep

LEMMA InvInit == Init => Inv
  BY DEF Init, Inv, TypeOK, BatchInv, NothingAcknowledgedIsLost, Elements

\* Every variable of the sink and the API stays in its range.
THEOREM TypeCorrect == Spec => []TypeOK
  <1>1. Inv => TypeOK
    BY DEF Inv
  <1> QED
    BY InvInit, InvStep, <1>1, PTL DEF Spec

\* What the API has acknowledged is stored, whatever is lost, late or sent again: _batches_sent
\* and last_batch never let a batch pass for another.
THEOREM AcknowledgedIsStored == Spec => []NothingAcknowledgedIsLost
  <1>1. Inv => NothingAcknowledgedIsLost
    BY DEF Inv
  <1> QED
    BY InvInit, InvStep, <1>1, PTL DEF Spec

-----------------------------------------------------------------------------
(* The page. *)

Less == {p \in Nat \X Nat : p[1] < p[2]}

\* A set of numbers that is not empty has a least one.
LEMMA LeastNumber ==
  ASSUME NEW T, T \subseteq Nat, T # {}
  PROVE  \E x \in T : \A y \in T : x <= y
<1>1. IsWellFoundedOn(Less, Nat)
  BY NatLessThanWellFounded DEF OpToRel, Less
<1>2. PICK x \in T : \A y \in T : ~ (<<y, x>> \in Less)
  BY <1>1, WFMin
<1>3. \A y \in T : ~ (y < x)
  BY <1>2 DEF Less
<1>4. QED
  BY <1>3

\* LastOf is the greatest of the rows.
LEMMA LastOfRows ==
  ASSUME NEW n \in Nat, NEW rows, rows \subseteq 1..n
  PROVE  /\ LastOf(rows) \in 0..n
         /\ \A r \in rows : r <= LastOf(rows)
         /\ rows # {} => LastOf(rows) \in rows
<1>1. CASE rows = {}
  BY <1>1 DEF LastOf
<1>2. CASE rows # {}
  <2> DEFINE Above == {m \in Nat : \A r \in rows : r <= m}
  <2>1. n \in Above
    OBVIOUS
  <2>2. PICK m \in Above : \A k \in Above : m <= k
    BY <2>1, LeastNumber
  <2>3. m \in rows
    <3>1. SUFFICES ASSUME m \notin rows PROVE FALSE
      OBVIOUS
    <3>2. \A r \in rows : r \in Nat /\ r >= 1 /\ r <= m - 1
      BY <3>1
    <3>3. m - 1 \in Nat
      <4>1. PICK r \in rows : TRUE
        BY <1>2
      <4>2. QED
        BY <3>2, <4>1
    <3>4. m - 1 \in Above
      BY <3>2, <3>3
    <3>5. ~ (m <= m - 1)
      OBVIOUS
    <3>6. QED
      BY <2>2, <3>4, <3>5
  <2>4. \E r \in rows : \A s \in rows : s <= r
    BY <2>3
  <2>5. LastOf(rows) \in rows /\ \A s \in rows : s <= LastOf(rows)
    BY <1>2, <2>4 DEF LastOf
  <2>6. \A r \in rows : r \in 0..n
    OBVIOUS
  <2> HIDE DEF LastOf
  <2>7. QED
    BY <2>5, <2>6
<1>3. QED
  BY <1>1, <1>2

\* A row that the page shows, or that will not come in order any more.
Settled(row) == row \in shown \/ (row <= latest /\ row \notin timely)

\* All rows are in the table.
RowsExist ==
  /\ shown \subseteq 1..Len(table) /\ timely \subseteq 1..latest
  /\ latest \in 0..Len(table) /\ last_id \in 0..Len(table)
  /\ inbox \in Seq(Nat) /\ Elements(inbox) \subseteq 1..latest
  /\ Elements(announce) \subseteq 1..Len(table)
  /\ \A h \in handlers : Elements(h.rows) \subseteq 1..Len(table)

\* The page may count on everything up to its last row and up to its Last-Event-ID; from the
\* replay on, what came meanwhile is behind it.
PageIsSettled ==
  /\ \A row \in 1..last_id : Settled(row)
  /\ \A last \in shown : \A row \in 1..last : Settled(row)
  /\ at = "replayed" => timely \subseteq shown \union Elements(inbox)
  /\ at = "live" => timely \subseteq shown

\* It is closed after the end, when nothing is added.
ClosesAtTheEnd ==
  /\ at \in {"closing", "done"} => status = "ended"
  /\ at = "done" => LastOf(shown) = Len(table)

PageInv == TypeOK /\ RowsExist /\ PageIsSettled /\ ClosesAtTheEnd

LEMMA AppendedElements ==
  ASSUME NEW s \in Seq(Nat), NEW e \in Nat
  PROVE  Elements(Append(s, e)) = Elements(s) \union {e}
<1>1. Append(s, e) \in Seq(Nat) /\ Len(Append(s, e)) = Len(s) + 1
      /\ Append(s, e)[Len(s) + 1] = e
      /\ \A i \in 1..Len(s) : Append(s, e)[i] = s[i]
  OBVIOUS
<1>2. 1..(Len(s) + 1) = 1..Len(s) \union {Len(s) + 1}
  OBVIOUS
<1>3. QED
  BY <1>1, <1>2 DEF Elements

\* A message: to the page, to those that wait behind its replay, or to nobody.
LEMMA PublishKeeps ==
  ASSUME PageInv, NEW row \in 1..Len(table), Publish(row), UNCHANGED <<table, status>>
  PROVE  /\ shown' \subseteq 1..Len(table) /\ timely' \subseteq 1..latest'
         /\ latest' \in 0..Len(table) /\ last_id' \in 0..Len(table)
         /\ inbox' \in Seq(Nat) /\ Elements(inbox)' \subseteq 1..latest'
         /\ PageIsSettled' /\ ClosesAtTheEnd'
<1> USE DEF page, stream
<1>a. TypeOK /\ RowsExist /\ PageIsSettled /\ ClosesAtTheEnd /\ Len(table) \in Nat
  BY DEF PageInv, TypeOK
<1>1. CASE UNCHANGED <<page, stream>>
  BY <1>1, <1>a DEF RowsExist, PageIsSettled, Settled, ClosesAtTheEnd, Elements, LastOf
<1>2. CASE ~ UNCHANGED <<page, stream>>
  <2>1. /\ latest' = (IF row > latest THEN row ELSE latest)
        /\ timely' = timely \union (IF row > latest THEN {row} ELSE {})
        /\ at = "live" => shown' = shown \union {row} /\ last_id' = row /\ UNCHANGED inbox
        /\ at # "live" /\ Listening => inbox' = Append(inbox, row) /\ UNCHANGED <<shown, last_id>>
        /\ at # "live" /\ ~Listening => UNCHANGED <<inbox, shown, last_id>>
        /\ UNCHANGED at
    BY <1>2 DEF Publish, Listening
  <2>2. /\ latest' \in 0..Len(table) /\ latest <= latest' /\ row <= latest'
        /\ timely' \subseteq 1..latest' /\ timely' \subseteq timely \union {row}
        /\ row > latest \/ timely' = timely
    BY <2>1, <1>a DEF RowsExist
  <2>3. \A r \in Nat : r <= latest /\ r \notin timely => r <= latest' /\ r \notin timely'
    BY <2>1, <2>2, <1>a DEF RowsExist
  <2>4. CASE at = "live"
    <3>1. shown' = shown \union {row} /\ last_id' = row /\ inbox' = inbox /\ at' = "live"
      BY <2>1, <2>4
    <3>2. timely' \subseteq shown'
      BY <2>2, <2>4, <3>1, <1>a DEF PageIsSettled
    <3>3. \A r \in Nat : r <= latest' => Settled(r)'
      BY <3>2 DEF Settled
    <3>4. \A last \in shown : \A r \in 1..last : Settled(r)'
      BY <2>3, <3>1, <1>a DEF PageIsSettled, Settled, RowsExist
    <3>5. \A r \in 1..row : Settled(r)'
      BY <2>2, <3>3, <1>a
    <3>6. QED
      BY <2>2, <2>4, <3>1, <3>2, <3>4, <3>5, <1>a
      DEF PageIsSettled, RowsExist, ClosesAtTheEnd, Elements
  <2>5. CASE at # "live" /\ Listening
    <3>1. UNCHANGED <<shown, last_id, at>> /\ inbox' = Append(inbox, row)
      BY <2>1, <2>5
    <3>2. inbox' \in Seq(Nat) /\ Elements(inbox)' = Elements(inbox) \union {row}
      <4>1. inbox \in Seq(Nat) /\ row \in Nat
        BY <1>a DEF RowsExist
      <4>2. Elements(inbox)' = Elements(inbox')
        BY DEF Elements
      <4>3. QED
        BY <3>1, <4>1, <4>2, AppendedElements
    <3>3. \A r \in Nat : Settled(r) => Settled(r)'
      BY <2>3, <3>1 DEF Settled
    <3>4. PageIsSettled'
      BY <2>2, <2>5, <3>1, <3>2, <3>3, <1>a DEF PageIsSettled, RowsExist, Listening
    <3>5. QED
      BY <2>2, <2>5, <3>1, <3>2, <3>4, <1>a DEF RowsExist, ClosesAtTheEnd, Listening
  <2>6. CASE at # "live" /\ ~Listening
    <3>1. UNCHANGED <<shown, last_id, at, inbox>>
      BY <2>1, <2>6
    <3>2. \A r \in Nat : Settled(r) => Settled(r)'
      BY <2>3, <3>1 DEF Settled
    <3>3. PageIsSettled'
      BY <2>6, <3>1, <3>2, <1>a DEF PageIsSettled, RowsExist, Listening
    <3>4. /\ shown' \subseteq 1..Len(table) /\ last_id' \in 0..Len(table)
          /\ inbox' \in Seq(Nat) /\ Elements(inbox)' \subseteq 1..latest'
      <4>1. Elements(inbox)' = Elements(inbox) /\ Elements(inbox) \subseteq 1..latest
        BY <3>1, <1>a DEF RowsExist, Elements
      <4>2. latest \in Nat /\ latest' \in Nat /\ latest <= latest'
        BY <2>2, <1>a DEF RowsExist
      <4>3. Elements(inbox)' \subseteq 1..latest'
        BY <4>1, <4>2
      <4>4. QED
        BY <3>1, <4>3, <1>a DEF RowsExist
    <3>5. LastOf(shown)' = LastOf(shown)
      BY <3>1 DEF LastOf
    <3>6. ClosesAtTheEnd'
      BY <3>1, <3>5, <1>a DEF ClosesAtTheEnd
    <3>7. QED
      BY <2>2, <3>3, <3>4, <3>6
  <2>7. QED
    BY <2>4, <2>5, <2>6
<1>3. QED
  BY <1>1, <1>2

\* The steps of the page.
LEMMA PageStepKeeps == PageInv /\ PageStep => RowsExist' /\ PageIsSettled' /\ ClosesAtTheEnd'
<1> SUFFICES ASSUME PageInv, PageStep PROVE RowsExist' /\ PageIsSettled' /\ ClosesAtTheEnd'
  OBVIOUS
<1> USE DEF sink, api, page, stream
<1>a. TypeOK /\ RowsExist /\ PageIsSettled /\ ClosesAtTheEnd /\ Len(table) \in Nat
  BY DEF PageInv, TypeOK
<1>b. UNCHANGED <<table, status, announce, handlers, timely, latest>>
  BY DEF PageStep, LoadHistory, Subscribe, Replay, CatchUp, Disconnect, LearnEnd
<1>c. \A row : row \in After(0) <=> row \in 1..Len(table)
  BY <1>a DEF After
<1>d. shown \subseteq shown' => \A row : Settled(row) => Settled(row)'
  BY <1>b DEF Settled
<1>1. CASE LoadHistory
  <2> DEFINE last == LastOf(shown)
  <2>1. /\ last \in 0..Len(table) /\ \A row \in shown : row <= last
        /\ shown # {} => last \in shown
        /\ shown = {} => last = 0
    <3>1. shown = {} => last = 0
      BY DEF LastOf
    <3>2. QED
      BY <3>1, <1>a, LastOfRows DEF RowsExist
  <2>2. /\ shown' = shown \union After(last) /\ last_id' = 0 /\ inbox' = inbox
        /\ at' \in {"connecting", "done"}
        /\ at' = "done" => status = "ended"
    BY <1>1, <1>a DEF LoadHistory, ClosesAtTheEnd
  <2> HIDE DEF last
  <2>3. shown' \subseteq 1..Len(table) /\ shown \subseteq shown'
    BY <2>2, <1>a DEF After, RowsExist
  <2>4. \A row \in 1..Len(table) : Settled(row)'
    <3> SUFFICES ASSUME NEW row \in 1..Len(table) PROVE Settled(row)'
      OBVIOUS
    <3>1. CASE row <= last
      <4>1. shown # {} /\ last \in shown
        BY <3>1, <2>1, <1>a
      <4>2. Settled(row)
        BY <3>1, <4>1, <1>a, <2>1 DEF PageIsSettled
      <4>3. QED
        BY <4>2, <1>d, <2>3
    <3>2. CASE row > last
      BY <3>2, <2>1, <2>2, <1>a DEF Settled, After
    <3>3. QED
      BY <3>1, <3>2, <2>1, <1>a
  <2>5. LastOf(shown') = Len(table)
    <3>1. CASE Len(table) = 0
      BY <3>1, <2>3 DEF LastOf
    <3>2. PICK size \in Nat : size = Len(table)
      BY <1>a
    <3>3. CASE size > 0
      <4>1. size \in shown'
        <5>1. CASE last = size
          BY <5>1, <3>2, <3>3, <2>1, <2>3
        <5>2. CASE last < size
          BY <5>2, <3>2, <3>3, <2>1, <2>2 DEF After
        <5>3. last \in 0..size
          BY <2>1, <3>2
        <5>4. QED
          BY <5>1, <5>2, <5>3
      <4>2. /\ LastOf(shown') \in 0..size /\ size <= LastOf(shown')
        BY <4>1, <3>2, <2>3, LastOfRows
      <4>3. LastOf(shown') = size
        BY <4>2
      <4>4. QED
        BY <4>3, <3>2
    <3>4. QED
      BY <3>1, <3>2, <3>3
  <2>6. RowsExist'
    BY <2>2, <2>3, <1>a, <1>b DEF RowsExist, Elements
  <2>7. PageIsSettled'
    BY <2>2, <2>3, <2>4, <1>a, <1>b DEF PageIsSettled
  <2>8. ClosesAtTheEnd'
    BY <2>2, <2>5, <1>b DEF ClosesAtTheEnd, LastOf
  <2>9. QED
    BY <2>6, <2>7, <2>8
<1>2. CASE Subscribe
  <2>1. at' = "subscribed" /\ UNCHANGED <<last_id, inbox, shown>>
    BY <1>2 DEF Subscribe
  <2>2. RowsExist' /\ PageIsSettled'
    BY <2>1, <1>a, <1>b DEF RowsExist, PageIsSettled, Settled, Elements
  <2>3. QED
    BY <2>1, <2>2, <1>b DEF ClosesAtTheEnd
<1>3. CASE Replay
  <2>1. /\ at' = "replayed" /\ inbox' = inbox /\ shown' = shown \union After(last_id)
        /\ last_id' \in {last_id, Len(table)}
    BY <1>3 DEF Replay
  <2>2. shown' \subseteq 1..Len(table) /\ shown \subseteq shown'
    BY <2>1, <1>a DEF After, RowsExist
  <2>3. \A row \in 1..Len(table) : Settled(row)'
    <3> SUFFICES ASSUME NEW row \in 1..Len(table) PROVE Settled(row)'
      OBVIOUS
    <3>1. CASE row <= last_id
      <4>1. Settled(row)
        BY <3>1, <1>a DEF PageIsSettled, RowsExist
      <4>2. QED
        BY <4>1, <1>d, <2>2
    <3>2. CASE row > last_id
      BY <3>2, <2>1, <1>a DEF Settled, After
    <3>3. QED
      BY <3>1, <3>2, <1>a DEF RowsExist
  <2>4. timely \subseteq shown'
    BY <2>3, <1>a, <1>b DEF Settled, RowsExist
  <2>5. RowsExist'
    BY <2>1, <2>2, <1>a, <1>b DEF RowsExist, Elements
  <2>6. PageIsSettled'
    BY <2>1, <2>2, <2>3, <2>4, <2>5, <1>a, <1>b DEF PageIsSettled, RowsExist
  <2>7. QED
    BY <2>1, <2>5, <2>6 DEF ClosesAtTheEnd
<1>4. CASE CatchUp
  <2>1. /\ at = "replayed" /\ at' = "live" /\ inbox' = <<>>
        /\ shown' = shown \union Elements(inbox)
        /\ last_id' = (IF inbox # <<>> THEN inbox[Len(inbox)] ELSE last_id)
    BY <1>4 DEF CatchUp
  <2>2. shown' \subseteq 1..Len(table) /\ shown \subseteq shown' /\ timely \subseteq shown'
    <3>1. 1..latest \subseteq 1..Len(table)
      BY <1>a DEF RowsExist
    <3>2. QED
      BY <3>1, <2>1, <1>a DEF PageIsSettled, RowsExist
  <2>3. last_id' = last_id \/ last_id' \in 1..latest
    BY <2>1, <1>a DEF RowsExist, Elements
  <2>4. \A row \in 1..latest : Settled(row)'
    BY <2>2, <1>a, <1>b DEF Settled, RowsExist
  <2>5. Elements(<<>>) = {}
    BY DEF Elements
  <2>6. RowsExist'
    BY <2>1, <2>2, <2>3, <2>5, <1>a, <1>b DEF RowsExist, Elements
  <2>7. \A row \in 1..last_id' : Settled(row)'
    BY <2>2, <2>3, <2>4, <1>a, <1>d DEF PageIsSettled, RowsExist
  <2>8. \A last \in shown' : \A row \in 1..last : Settled(row)'
    <3> SUFFICES ASSUME NEW last \in shown' PROVE \A row \in 1..last : Settled(row)'
      OBVIOUS
    <3>1. CASE last \in shown
      BY <3>1, <2>2, <1>a, <1>d DEF PageIsSettled
    <3>2. CASE last \in Elements(inbox)
      BY <3>2, <2>4, <1>a DEF RowsExist
    <3>3. QED
      BY <2>1, <3>1, <3>2
  <2>9. QED
    BY <2>1, <2>2, <2>6, <2>7, <2>8, <1>b DEF PageIsSettled, ClosesAtTheEnd
<1>5. CASE Disconnect \/ LearnEnd
  <2>1. /\ at' \in {"connecting", "new", "closing"} /\ (at' = "closing" => status = "ended")
        /\ inbox' = <<>> /\ UNCHANGED <<last_id, shown>>
    BY <1>5 DEF Disconnect, LearnEnd
  <2>2. Elements(<<>>) = {}
    BY DEF Elements
  <2>3. RowsExist'
    BY <2>1, <2>2, <1>a, <1>b DEF RowsExist, Elements
  <2>4. PageIsSettled'
    BY <2>1, <1>a, <1>b DEF PageIsSettled, Settled
  <2>5. QED
    BY <2>1, <2>3, <2>4, <1>b DEF ClosesAtTheEnd
<1>6. QED
  BY <1>1, <1>2, <1>3, <1>4, <1>5 DEF PageStep

\* The table grows behind all rows, and not after the end.
LEMMA TableGrows ==
  ASSUME PageInv, table' \in Seq(Nat), Len(table) <= Len(table'), UNCHANGED <<page, stream>>,
         status # "ended" \/ UNCHANGED <<table, status>>,
         announce' = announce \/ Elements(announce') \subseteq 1..Len(table'),
         \A h \in handlers' :
           (\E g \in handlers : h.rows = g.rows) \/ Elements(h.rows) \subseteq 1..Len(table')
  PROVE  RowsExist' /\ PageIsSettled' /\ ClosesAtTheEnd'
<1> USE DEF page, stream
<1>a. RowsExist /\ PageIsSettled /\ ClosesAtTheEnd /\ Len(table) \in Nat /\ Len(table') \in Nat
  BY DEF PageInv, TypeOK
<1>1. 1..Len(table) \subseteq 1..Len(table') /\ 0..Len(table) \subseteq 0..Len(table')
  BY <1>a
<1>2. RowsExist'
  <2>1. Elements(announce)' \subseteq 1..Len(table')
    BY <1>1, <1>a DEF RowsExist, Elements
  <2>2. \A h \in handlers' : Elements(h.rows) \subseteq 1..Len(table')
    BY <1>1, <1>a DEF RowsExist
  <2>3. QED
    BY <1>1, <1>a, <2>1, <2>2 DEF RowsExist, Elements
<1>3. PageIsSettled'
  BY <1>a DEF PageIsSettled, Settled, Elements
<1>4. ClosesAtTheEnd'
  BY <1>a DEF ClosesAtTheEnd, LastOf
<1>5. QED
  BY <1>2, <1>3, <1>4

\* Every step of the API and the runner publishes a row, makes the table longer, or does neither.
LEMMA PageInvStep == PageInv /\ [Next]_vars => PageInv'
<1> SUFFICES ASSUME PageInv, [Next]_vars PROVE RowsExist' /\ PageIsSettled' /\ ClosesAtTheEnd'
  BY TypeStep DEF PageInv
<1> USE DEF sink, api
<1>a. TypeOK /\ RowsExist /\ PageIsSettled /\ ClosesAtTheEnd /\ Len(table) \in Nat /\ table \in Seq(Nat)
      /\ handlers \subseteq Handlers
  BY DEF PageInv, TypeOK
<1>b. \A rows \in Seq(Nat) \ {<<>>} :
        Head(rows) \in Elements(rows) /\ Elements(Tail(rows)) \subseteq Elements(rows)
  <2>1. ASSUME NEW rows \in Seq(Nat) \ {<<>>}
        PROVE  Head(rows) \in Elements(rows) /\ Elements(Tail(rows)) \subseteq Elements(rows)
    <3>1. Len(rows) \in Nat \ {0} /\ Head(rows) = rows[1] /\ Len(Tail(rows)) = Len(rows) - 1
          /\ \A i \in 1..(Len(rows) - 1) : Tail(rows)[i] = rows[i + 1]
      OBVIOUS
    <3>2. \A i \in 1..(Len(rows) - 1) : i + 1 \in 1..Len(rows)
      BY <3>1
    <3>3. QED
      BY <3>1, <3>2 DEF Elements
  <2>2. QED
    BY <2>1
<1>1. ASSUME UNCHANGED <<page, stream, table, status, announce>>, handlers' \subseteq handlers
      PROVE  RowsExist' /\ PageIsSettled' /\ ClosesAtTheEnd'
  BY <1>1, <1>a, TableGrows
<1>2. CASE RunnerStep \/ UNCHANGED vars
  BY <1>2, <1>1
  DEF RunnerStep, Report, Finish, TakeBatch, AttemptFails, Drained, DrainTimesOut, vars
<1>3. ASSUME NEW q \in requests, Refuse(q) PROVE RowsExist' /\ PageIsSettled' /\ ClosesAtTheEnd'
  BY <1>3, <1>1 DEF Refuse
<1>4. ASSUME NEW h \in handlers, Answer(h) \/ HandlerDies(h)
      PROVE  RowsExist' /\ PageIsSettled' /\ ClosesAtTheEnd'
  BY <1>4, <1>1 DEF Answer, HandlerDies
<1>5. ASSUME NEW q \in requests, StoreBatch(q)
      PROVE  RowsExist' /\ PageIsSettled' /\ ClosesAtTheEnd'
  <2>1. PICK stored, rows, starts :
          /\ stored = RowsOf(q.events) /\ table' = table \o stored
          /\ rows = [i \in 1..Len(stored) |-> Len(table) + i]
          /\ handlers' = handlers \union {[request |-> q, rows |-> rows, starts |-> starts]}
    BY <1>5 DEF StoreBatch
  <2>2. stored \in Seq(Nat)
    BY <2>1, <1>a, RowsOfElements DEF TypeOK, Batches
  <2>3. table' \in Seq(Nat) /\ Len(table') = Len(table) + Len(stored) /\ Len(stored) \in Nat
    BY <2>1, <2>2, <1>a
  <2>4. Elements(rows) \subseteq 1..Len(table')
    <3>1. Len(rows) = Len(stored) /\ \A i \in 1..Len(stored) : rows[i] = Len(table) + i
      BY <2>1, <2>3
    <3>2. QED
      BY <3>1, <2>3, <1>a DEF Elements
  <2>5. \A g \in handlers' : g \in handlers \/ Elements(g.rows) \subseteq 1..Len(table')
    BY <2>1, <2>4
  <2>6. UNCHANGED <<page, stream, announce>> /\ status # "ended"
    BY <1>5 DEF StoreBatch
  <2>7. QED
    BY <2>3, <2>5, <2>6, <1>a, TableGrows
<1>6. ASSUME NEW h \in handlers, PublishRow(h)
      PROVE  RowsExist' /\ PageIsSettled' /\ ClosesAtTheEnd'
  <2>1. /\ h.rows # <<>> /\ Publish(Head(h.rows))
        /\ handlers' = (handlers \ {h}) \union {[h EXCEPT !.rows = Tail(@)]}
        /\ UNCHANGED <<table, status, announce>>
    BY <1>6 DEF PublishRow
  <2>2. h \in Handlers /\ h.rows \in Seq(Nat) \ {<<>>}
    BY <2>1, <1>a, HandlerAfter
  <2>3. Head(h.rows) \in 1..Len(table) /\ Elements(Tail(h.rows)) \subseteq 1..Len(table)
    BY <2>2, <1>a, <1>b DEF RowsExist
  <2>4. [h EXCEPT !.rows = Tail(@)].rows = Tail(h.rows)
    BY <2>2 DEF Handlers
  <2>5. \A g \in handlers' : Elements(g.rows) \subseteq 1..Len(table)
    BY <2>1, <2>3, <2>4, <1>a DEF RowsExist
  <2>6. QED
    BY <2>1, <2>3, <2>5, <1>a, PublishKeeps DEF RowsExist, Elements
<1>7. ASSUME NEW h \in handlers, StartRunning(h)
      PROVE  RowsExist' /\ PageIsSettled' /\ ClosesAtTheEnd'
  <2>1. h \in Handlers /\ UNCHANGED <<page, stream, announce>>
    BY <1>7, <1>a DEF StartRunning
  <2>2. CASE status = "claimed"
    <3>1. PICK g :
            /\ table' = Append(table, TRANSITION)
            /\ g = [h EXCEPT !.rows = <<Len(table) + 1>>, !.starts = FALSE]
            /\ handlers' = (handlers \ {h}) \union {g}
      BY <1>7, <2>2 DEF StartRunning
    <3>2. table' \in Seq(Nat) /\ Len(table') = Len(table) + 1
      BY <3>1, <1>a DEF TRANSITION
    <3>3. g.rows = <<Len(table) + 1>>
      BY <2>1, <3>1 DEF Handlers
    <3>4. Elements(g.rows) = {Len(table) + 1}
      BY <3>3 DEF Elements
    <3>5. \A f \in handlers' : f \in handlers \/ Elements(f.rows) \subseteq 1..Len(table')
      <4>1. Elements(g.rows) \subseteq 1..Len(table')
        BY <3>2, <3>4, <1>a
      <4>2. handlers' \subseteq handlers \union {g}
        BY <3>1
      <4>3. QED
        BY <4>1, <4>2
    <3>6. QED
      BY <2>1, <2>2, <3>2, <3>5, <1>a, TableGrows
  <2>3. CASE status # "claimed"
    <3>1. /\ UNCHANGED <<table, status>>
          /\ handlers' = (handlers \ {h}) \union {[h EXCEPT !.starts = FALSE]}
      BY <1>7, <2>3 DEF StartRunning
    <3>2. [h EXCEPT !.starts = FALSE].rows = h.rows
      BY <2>1 DEF Handlers
    <3>3. \A g \in handlers' : \E f \in handlers : g.rows = f.rows
      BY <3>1, <3>2
    <3>4. QED
      BY <2>1, <3>1, <3>3, <1>a, TableGrows
  <2>4. QED
    BY <2>2, <2>3
<1>8. CASE EndRun
  <2>1. /\ status # "ended" /\ table' = Append(table, TRANSITION)
        /\ announce' = <<Len(table) + 1>> /\ UNCHANGED <<handlers, page, stream>>
    BY <1>8 DEF EndRun
  <2>2. table' \in Seq(Nat) /\ Len(table') = Len(table) + 1
    BY <2>1, <1>a DEF TRANSITION
  <2>3. Elements(<<Len(table) + 1>>) = {Len(table) + 1}
    BY DEF Elements
  <2>4. Elements(announce') \subseteq 1..Len(table')
    BY <2>1, <2>2, <2>3, <1>a
  <2>5. QED
    BY <2>1, <2>2, <2>4, <1>a, TableGrows
<1>9. CASE AnnounceEnd
  <2>1. /\ announce # <<>> /\ announce' = Tail(announce) /\ Publish(Head(announce))
        /\ UNCHANGED <<table, status, handlers>>
    BY <1>9 DEF AnnounceEnd
  <2>2. announce \in Seq(Nat) \ {<<>>}
    BY <2>1, <1>a DEF TypeOK
  <2>3. Head(announce) \in 1..Len(table) /\ Elements(announce') \subseteq 1..Len(table)
    BY <2>1, <2>2, <1>a, <1>b DEF RowsExist
  <2>4. QED
    BY <2>1, <2>3, <1>a, PublishKeeps DEF RowsExist, Elements
<1>10. CASE PageStep
  BY <1>10, PageStepKeeps
<1>11. QED
  BY <1>2, <1>3, <1>4, <1>5, <1>6, <1>7, <1>8, <1>9, <1>10 DEF Next, ApiStep

LEMMA PageInvInit == Init => PageInv
<1>1. Elements(<<>>) = {}
  BY DEF Elements
<1>2. QED
  BY <1>1, InvInit
  DEF Init, Inv, PageInv, RowsExist, PageIsSettled, ClosesAtTheEnd, Elements

\* The page misses nothing that was published in order, however its connection drops and however
\* subscription, replay and messages interleave, and it closes with the whole table.
THEOREM PageHasNoGap == Spec => []NoSilentGap
<1>1. PageInv => NoSilentGap
  <2> SUFFICES ASSUME PageInv PROVE NoSilentGap
    OBVIOUS
  <2>1. TypeOK /\ RowsExist /\ PageIsSettled /\ ClosesAtTheEnd /\ Len(table) \in Nat
    BY DEF PageInv, TypeOK
  <2>2. LastOf(shown) \in 0..Len(table) /\ (shown # {} => LastOf(shown) \in shown)
    BY <2>1, LastOfRows DEF RowsExist
  <2>3. shown = {} => LastOf(shown) = 0
    BY DEF LastOf
  <2>4. ASSUME NEW row \in timely, row <= LastOf(shown) PROVE row \in shown
    <3>1. row \in Nat /\ row >= 1 /\ row <= latest
      BY <2>1 DEF RowsExist
    <3>2. LastOf(shown) \in shown
      BY <2>2, <2>3, <2>4, <3>1
    <3>3. Settled(row)
      BY <2>1, <2>2, <2>4, <3>1, <3>2 DEF PageIsSettled
    <3>4. QED
      BY <3>3 DEF Settled
  <2>5. QED
    BY <2>1, <2>4 DEF NoSilentGap, ClosesAtTheEnd
<1>2. QED
  BY PageInvInit, PageInvStep, <1>1, PTL DEF Spec

-----------------------------------------------------------------------------
(* The order of the events. *)

LastEvent(events) == events[Len(events)]
Consecutive(events) == \A i \in 1..Len(events) : events[i] = events[1] + i - 1

\* How many events have left _pending.
Taken == emitted - Len(pending)

InFlight == requests \union ({posting} \ {Nothing})

\* Each batch holds the events after those of the one before, and a batch that may still be stored
\* has none that are in the table or before one that is.
OrderInv ==
  /\ Taken \in Nat /\ \A i \in 1..Len(pending) : pending[i] = Taken + i
  /\ \A i \in 1..Len(table) : table[i] <= Taken
  /\ \A q \in InFlight :
       /\ q.events[1] >= 1 /\ LastEvent(q.events) <= Taken /\ Consecutive(q.events)
       /\ q.number > last_batch => \A i \in 1..Len(table) : table[i] < q.events[1]
  /\ \A q, r \in InFlight : q.number < r.number => LastEvent(q.events) < r.events[1]

\* The rows of a batch are consecutive events too, if there are any.
LEMMA ConsecutiveRows ==
  ASSUME NEW events \in Seq(Nat) \ {<<>>}, Consecutive(events), events[1] >= 1
  PROVE  \/ RowsOf(events) = <<>>
         \/ \E first \in Nat :
              /\ events[1] <= first /\ first <= LastEvent(events)
              /\ RowsOf(events) = [i \in 1..(LastEvent(events) - first + 1) |-> first + i - 1]
<1> DEFINE last == LastEvent(events)
<1>1. /\ Len(events) \in Nat \ {0} /\ events[1] \in Nat /\ last = events[1] + Len(events) - 1
      /\ \A i \in 1..Len(events) : events[i] = events[1] + i - 1
  BY DEF LastEvent, Consecutive
<1> HIDE DEF last
<1>2. CASE Head(events) # START
  <2>1. RowsOf(events) = events
    BY <1>2 DEF RowsOf
  <2>2. last - events[1] + 1 = Len(events)
    <3>1. PICK size \in Nat : size = Len(events)
      BY <1>1
    <3>2. last - events[1] + 1 = size
      BY <1>1, <3>1
    <3>3. QED
      BY <3>1, <3>2
  <2>3. events = [i \in 1..Len(events) |-> events[1] + i - 1]
    BY <1>1
  <2>4. RowsOf(events) = [i \in 1..(last - events[1] + 1) |-> events[1] + i - 1]
    BY <2>1, <2>2, <2>3
  <2>5. events[1] \in Nat /\ events[1] <= events[1] /\ events[1] <= last
    BY <1>1
  <2>6. QED
    BY <2>4, <2>5 DEF last
<1>3. CASE Head(events) = START /\ Len(events) = 1
  <2>1. PICK rest : rest = Tail(events)
    OBVIOUS
  <2>2. rest \in Seq(Nat) /\ Len(rest) = 0
    BY <1>3, <2>1
  <2>3. rest = <<>>
    BY <2>2
  <2>4. QED
    BY <1>3, <2>1, <2>3 DEF RowsOf
<1>4. CASE Head(events) = START /\ Len(events) > 1
  <2> DEFINE rows == Tail(events)
             first == events[1] + 1
  <2>1. RowsOf(events) = rows
    BY <1>4 DEF RowsOf
  <2>2. rows \in Seq(Nat) /\ Len(rows) = Len(events) - 1
    BY <1>1
  <2>3. \A i \in 1..Len(rows) : rows[i] = first + i - 1
    <3>1. \A i \in 1..Len(rows) : i + 1 \in 1..Len(events) /\ rows[i] = events[i + 1]
      BY <1>1, <2>2
    <3>2. QED
      BY <1>1, <3>1
  <2>4. first \in Nat /\ last - first + 1 = Len(rows) /\ events[1] <= first /\ first <= last
    BY <1>1, <1>4, <2>2
  <2> HIDE DEF rows, first
  <2>5. rows = [i \in 1..Len(rows) |-> first + i - 1]
    BY <2>2, <2>3
  <2>6. RowsOf(events) = [i \in 1..(last - first + 1) |-> first + i - 1]
    BY <2>1, <2>4, <2>5
  <2>7. QED
    BY <2>4, <2>6 DEF last
<1>5. Len(events) = 1 \/ Len(events) > 1
  <2>1. \A n \in Nat \ {0} : n = 1 \/ n > 1
    OBVIOUS
  <2>2. QED
    BY <1>1, <2>1
<1>6. QED
  BY <1>2, <1>3, <1>4, <1>5, Zenon

\* The steps that report, take and store no events.
LEMMA OrderKept ==
  ASSUME TypeOK, OrderInv, TypeOK',
         table' = table \/ table' = Append(table, TRANSITION),
         UNCHANGED <<emitted, last_batch>>, pending' = pending \/ pending' = <<>>,
         \A q \in InFlight' : \E p \in InFlight : p.number = q.number /\ p.events = q.events
  PROVE  OrderInv'
<1>1. Taken \in Nat /\ Taken' \in Nat /\ Taken <= Taken'
      /\ \A i \in 1..Len(pending') : pending'[i] = Taken' + i
  <2>1. CASE pending' = pending
    BY <2>1 DEF OrderInv, Taken
  <2>2. CASE pending' = <<>>
    BY <2>2 DEF OrderInv, Taken, TypeOK
  <2>3. QED
    BY <2>1, <2>2
<1>2. \A i \in 1..Len(table') : \/ i \in 1..Len(table) /\ table'[i] = table[i]
                                \/ table'[i] = 0
  <2>1. table \in Seq(Nat) /\ Len(table) \in Nat
    BY DEF TypeOK
  <2>2. CASE table' = Append(table, TRANSITION)
    <3>1. Len(table') = Len(table) + 1 /\ table'[Len(table) + 1] = 0
          /\ \A i \in 1..Len(table) : table'[i] = table[i]
      BY <2>1, <2>2 DEF TRANSITION
    <3>2. QED
      BY <2>1, <3>1
  <2>3. QED
    BY <2>2
<1>3. \A i \in 1..Len(table) : table[i] <= Taken /\ table[i] \in Nat
  <2>1. \A i \in 1..Len(table) : table[i] \in Nat
    BY DEF TypeOK
  <2>2. QED
    BY <2>1 DEF OrderInv
<1>4. \A i \in 1..Len(table') : table'[i] <= Taken'
  BY <1>1, <1>2, <1>3
<1>5. \A q \in InFlight : /\ q \in Batches /\ LastEvent(q.events) \in Nat /\ q.events[1] \in Nat
                          /\ q.events[1] >= 1 /\ LastEvent(q.events) <= Taken
  <2>1. \A q \in InFlight : q \in Batches
    BY DEF InFlight, TypeOK
  <2>2. \A q \in Batches : q.events \in Seq(Nat) /\ Len(q.events) \in Nat \ {0}
    BY DEF Batches
  <2>3. \A q \in Batches : LastEvent(q.events) \in Nat /\ q.events[1] \in Nat
    BY <2>2 DEF LastEvent
  <2>4. QED
    BY <2>1, <2>3 DEF OrderInv
<1>6. \A q \in InFlight' :
        /\ q.events[1] >= 1 /\ LastEvent(q.events) <= Taken' /\ Consecutive(q.events)
        /\ q.number > last_batch' => \A i \in 1..Len(table') : table'[i] < q.events[1]
  <2> SUFFICES ASSUME NEW q \in InFlight'
               PROVE  /\ q.events[1] >= 1 /\ LastEvent(q.events) <= Taken' /\ Consecutive(q.events)
                      /\ q.number > last_batch' => \A i \in 1..Len(table') : table'[i] < q.events[1]
    OBVIOUS
  <2>1. PICK p \in InFlight : p.number = q.number /\ p.events = q.events
    OBVIOUS
  <2>2. q.events[1] >= 1 /\ LastEvent(q.events) <= Taken' /\ Consecutive(q.events)
    BY <2>1, <1>1, <1>5 DEF OrderInv, LastEvent, Consecutive
  <2>3. ASSUME q.number > last_batch' PROVE \A i \in 1..Len(table') : table'[i] < q.events[1]
    <3>1. \A i \in 1..Len(table) : table[i] < q.events[1]
      BY <2>1, <2>3 DEF OrderInv
    <3>2. QED
      BY <1>2, <1>5, <2>1, <3>1
  <2>4. QED
    BY <2>2, <2>3
<1>7. \A q, r \in InFlight' : q.number < r.number => LastEvent(q.events) < r.events[1]
  <2> SUFFICES ASSUME NEW q \in InFlight', NEW r \in InFlight', q.number < r.number
               PROVE  LastEvent(q.events) < r.events[1]
    OBVIOUS
  <2>1. PICK p \in InFlight : p.number = q.number /\ p.events = q.events
    OBVIOUS
  <2>2. PICK o \in InFlight : o.number = r.number /\ o.events = r.events
    OBVIOUS
  <2>3. LastEvent(p.events) < o.events[1]
    BY <2>1, <2>2 DEF OrderInv
  <2>4. QED
    BY <2>1, <2>2, <2>3
<1>8. QED
  BY <1>1, <1>4, <1>6, <1>7 DEF OrderInv

\* One more event is pending.
LEMMA OrderEmit ==
  ASSUME TypeOK, OrderInv, Emit, UNCHANGED <<table, last_batch, posting, requests>>
  PROVE  OrderInv'
<1>1. /\ pending \in Seq(Nat) /\ emitted \in Nat /\ Len(pending) \in Nat
      /\ emitted' = emitted + 1 /\ pending' = Append(pending, emitted + 1)
  BY DEF TypeOK, Emit
<1>2. /\ Len(pending') = Len(pending) + 1 /\ pending'[Len(pending) + 1] = emitted + 1
      /\ \A i \in 1..Len(pending) : pending'[i] = pending[i]
  BY <1>1
<1>3. Taken' = Taken /\ \A i \in 1..Len(pending') : pending'[i] = Taken + i
  BY <1>1, <1>2 DEF OrderInv, Taken
<1>4. InFlight' = InFlight
  BY DEF InFlight
<1>5. QED
  BY <1>3, <1>4 DEF OrderInv, LastEvent, Consecutive

\* The next batch follows those in flight and what is stored.
LEMMA OrderTake ==
  ASSUME TypeOK, BatchInv, OrderInv, TakeBatch
  PROVE  OrderInv'
<1>1. PICK size :
        /\ size = Least(max_batch, Len(pending))
        /\ posting' = [number |-> NextNumber, attempt |-> 1, events |-> SubSeq(pending, 1, size)]
        /\ pending' = SubSeq(pending, size + 1, Len(pending))
        /\ requests' = requests \union {posting'}
        /\ posting = Nothing /\ UNCHANGED <<emitted, table, last_batch>>
  BY DEF TakeBatch
<1>2. /\ pending \in Seq(Nat) /\ emitted \in Nat /\ Len(pending) \in Nat \ {0}
      /\ batches_sent \in Nat /\ last_batch \in Nat /\ requests \subseteq Batches
  BY DEF TypeOK, TakeBatch, Sendable
<1>3. size \in 1..Len(pending)
  BY <1>1, <1>2, EventsAssumption DEF Least
<1> DEFINE events == SubSeq(pending, 1, size)
<1>4. /\ Len(events) = size /\ \A i \in 1..size : events[i] = pending[i]
  BY <1>2, <1>3
<1>5. /\ Len(pending') = Len(pending) - size
      /\ \A i \in 1..(Len(pending) - size) : pending'[i] = pending[size + i]
  <2>1. PICK rest : rest = SubSeq(pending, size + 1, Len(pending))
    OBVIOUS
  <2>2. /\ Len(rest) = Len(pending) - size
        /\ \A i \in 1..(Len(pending) - size) : rest[i] = pending[size + i]
    BY <1>2, <1>3, <2>1
  <2>3. pending' = rest
    BY <1>1, <2>1
  <2>4. QED
    BY <2>2, <2>3
<1>6. /\ posting'.number = batches_sent + 1 /\ posting'.events = events
      /\ InFlight' = requests \union {posting'}
  <2>1. posting' # Nothing
    BY TakenBatch
  <2>2. QED
    BY <1>1, <2>1 DEF NextNumber, InFlight
<1> HIDE DEF events
<1>7. Taken \in Nat /\ Taken' = Taken + size /\ \A i \in 1..Len(pending) : pending[i] = Taken + i
  <2>1. Taken \in Nat /\ \A i \in 1..Len(pending) : pending[i] = Taken + i
    BY DEF OrderInv
  <2>2. Taken' = Taken + size
    <3>1. emitted' = emitted
      BY <1>1
    <3>2. QED
      BY <1>2, <1>3, <1>5, <3>1 DEF Taken
  <2>3. QED
    BY <2>1, <2>2
<1>8. \A i \in 1..Len(pending') : pending'[i] = Taken' + i
  BY <1>2, <1>3, <1>5, <1>7
<1>9. /\ events[1] = Taken + 1 /\ LastEvent(events) = Taken + size /\ Consecutive(events)
  <2>1. \A i \in 1..size : events[i] = Taken + i
    BY <1>2, <1>3, <1>4, <1>7
  <2>2. events[1] = Taken + 1 /\ events[size] = Taken + size
    BY <1>2, <1>3, <2>1
  <2>3. Consecutive(events)
    BY <1>2, <1>3, <1>4, <1>7, <2>1, <2>2 DEF Consecutive
  <2>4. QED
    BY <1>4, <2>2, <2>3 DEF LastEvent
<1>10. \A q \in requests : /\ q \in InFlight /\ q.number \in Nat /\ q.number <= batches_sent
                           /\ LastEvent(q.events) \in Nat /\ LastEvent(q.events) <= Taken
  <2>1. \A q \in requests : q \in InFlight /\ q.number <= batches_sent
    BY DEF InFlight, BatchInv, Attempted
  <2>2. \A q \in Batches : q.events \in Seq(Nat) /\ Len(q.events) \in Nat \ {0} /\ q.number \in Nat
    BY DEF Batches
  <2>3. \A q \in Batches : LastEvent(q.events) \in Nat
    BY <2>2 DEF LastEvent
  <2>4. QED
    BY <1>2, <2>1, <2>2, <2>3 DEF OrderInv
<1>11. \A i \in 1..Len(table) : table[i] \in Nat /\ table[i] <= Taken
  BY DEF OrderInv, TypeOK
<1>12. \A i \in 1..Len(table') : table'[i] <= Taken'
  <2>1. table' = table
    BY <1>1
  <2>2. Taken' \in Nat /\ Taken <= Taken'
    BY <1>2, <1>3, <1>7
  <2>3. QED
    BY <1>7, <1>11, <2>1, <2>2
<1>13. \A q \in InFlight' :
         /\ q.events[1] >= 1 /\ LastEvent(q.events) <= Taken' /\ Consecutive(q.events)
         /\ q.number > last_batch' => \A i \in 1..Len(table') : table'[i] < q.events[1]
  <2>1. ASSUME NEW q \in requests
        PROVE  /\ q.events[1] >= 1 /\ LastEvent(q.events) <= Taken' /\ Consecutive(q.events)
               /\ q.number > last_batch' => \A i \in 1..Len(table') : table'[i] < q.events[1]
    BY <1>1, <1>2, <1>3, <1>7, <1>10 DEF OrderInv
  <2>2. /\ events[1] >= 1 /\ LastEvent(events) <= Taken' /\ Consecutive(events)
        /\ \A i \in 1..Len(table') : table'[i] < events[1]
    <3>1. events[1] >= 1 /\ LastEvent(events) <= Taken' /\ Consecutive(events)
      BY <1>3, <1>7, <1>9
    <3>2. \A i \in 1..Len(table) : table[i] < events[1]
      BY <1>7, <1>9, <1>11
    <3>3. table' = table
      BY <1>1
    <3>4. QED
      BY <3>1, <3>2, <3>3
  <2>3. QED
    BY <1>6, <2>1, <2>2
<1>14. \A q, r \in InFlight' : q.number < r.number => LastEvent(q.events) < r.events[1]
  <2> SUFFICES ASSUME NEW q \in InFlight', NEW r \in InFlight', q.number < r.number
               PROVE  LastEvent(q.events) < r.events[1]
    OBVIOUS
  <2>1. q \in requests
    BY <1>2, <1>6, <1>10
  <2>2. CASE r \in requests
    BY <2>1, <2>2, <1>10 DEF OrderInv
  <2>3. CASE r = posting'
    BY <2>1, <2>3, <1>6, <1>7, <1>9, <1>10
  <2>4. QED
    BY <2>2, <2>3, <1>6
<1>15. QED
  BY <1>2, <1>3, <1>7, <1>8, <1>12, <1>13, <1>14 DEF OrderInv

\* What is stored is in order, and what may still be stored comes after it.
LEMMA OrderStore ==
  ASSUME TypeOK, OrderInv, NEW q \in requests, StoreBatch(q)
  PROVE  /\ OrderInv'
         /\ UNCHANGED <<emitted, status>> /\ status # "ended"
         /\ \/ UNCHANGED table
            \/ \E first \in 1..emitted, last \in 1..emitted :
                 /\ \A i \in 1..Len(table) : table[i] < first
                 /\ table' = table \o [i \in 1..(last - first + 1) |-> first + i - 1]
<1> USE DEF sink
<1>1. /\ table' = table \o RowsOf(q.events) /\ last_batch' = q.number /\ q.number > last_batch
      /\ UNCHANGED <<emitted, pending, posting, status>> /\ status # "ended"
      /\ requests' = requests \ {q}
  BY DEF StoreBatch, NewBatch
<1>2. /\ q \in InFlight /\ q \in Batches /\ q.number \in Nat /\ last_batch \in Nat
      /\ q.events \in Seq(Nat) \ {<<>>} /\ Len(q.events) \in Nat \ {0}
      /\ table \in Seq(Nat) /\ Len(table) \in Nat /\ emitted \in Nat /\ Len(pending) \in Nat
  BY DEF InFlight, TypeOK, Batches
<1>3. q.events[1] \in Nat /\ LastEvent(q.events) \in Nat
  BY <1>2 DEF LastEvent
<1>4. /\ q.events[1] >= 1 /\ LastEvent(q.events) <= Taken /\ Consecutive(q.events)
      /\ \A i \in 1..Len(table) : table[i] < q.events[1] /\ table[i] \in Nat
      /\ Taken \in Nat /\ Taken <= emitted /\ Taken' = Taken
  <2>1. q.events[1] >= 1 /\ LastEvent(q.events) <= Taken /\ Consecutive(q.events)
    BY <1>2 DEF OrderInv
  <2>2. \A i \in 1..Len(table) : table[i] < q.events[1] /\ table[i] \in Nat
    <3>1. \A i \in 1..Len(table) : table[i] \in Nat
      BY <1>2
    <3>2. q \in InFlight /\ q.number > last_batch
      BY <1>1, <1>2
    <3>3. QED
      BY <3>1, <3>2 DEF OrderInv
  <2>3. Taken \in Nat /\ Taken <= emitted
    BY <1>2 DEF OrderInv, Taken
  <2>4. Taken' = Taken
    BY <1>1 DEF Taken
  <2>5. QED
    BY <2>1, <2>2, <2>3, <2>4
<1>5. InFlight' \subseteq InFlight
  BY <1>1 DEF InFlight
<1>6. PICK rows : rows = RowsOf(q.events)
  OBVIOUS
<1>7. /\ rows \in Seq(Nat)
      /\ \/ rows = <<>>
         \/ \E first \in Nat :
              /\ q.events[1] <= first /\ first <= LastEvent(q.events)
              /\ rows = [i \in 1..(LastEvent(q.events) - first + 1) |-> first + i - 1]
  BY <1>2, <1>4, <1>6, ConsecutiveRows, RowsOfElements
<1>8. /\ Len(rows) \in Nat /\ Len(table') = Len(table) + Len(rows)
      /\ \A i \in 1..Len(table) : table'[i] = table[i]
      /\ \A i \in 1..Len(rows) : table'[Len(table) + i] = rows[i]
  BY <1>1, <1>2, <1>6, <1>7
<1>9. \A i \in 1..Len(rows) : rows[i] \in Nat /\ rows[i] <= LastEvent(q.events)
  <2>1. CASE rows = <<>>
    BY <2>1
  <2>2. CASE rows # <<>>
    <3>1. PICK first \in Nat :
            /\ q.events[1] <= first /\ first <= LastEvent(q.events)
            /\ rows = [i \in 1..(LastEvent(q.events) - first + 1) |-> first + i - 1]
      BY <1>7, <2>2
    <3>2. PICK size \in Nat : size = LastEvent(q.events) - first + 1
      BY <1>3, <3>1
    <3>3. Len(rows) = size /\ \A i \in 1..size : rows[i] = first + i - 1
      BY <3>1, <3>2
    <3>4. \A i \in 1..size : first + i - 1 \in Nat /\ first + i - 1 <= LastEvent(q.events)
      BY <1>3, <3>2
    <3>5. QED
      BY <3>3, <3>4
  <2>3. QED
    BY <2>1, <2>2
<1>10. \A i \in 1..Len(table') : table'[i] \in Nat /\ table'[i] <= LastEvent(q.events)
  <2>1. q.events[1] <= LastEvent(q.events)
    <3>1. PICK size \in Nat \ {0} : size = Len(q.events)
      BY <1>2
    <3>2. LastEvent(q.events) = q.events[1] + size - 1
      BY <1>4, <3>1 DEF Consecutive, LastEvent
    <3>3. QED
      BY <1>3, <3>2
  <2>2. \A i \in 1..Len(table') :
          \/ i \in 1..Len(table)
          \/ i - Len(table) \in 1..Len(rows) /\ i = Len(table) + (i - Len(table))
    BY <1>2, <1>8
  <2>3. \A i \in 1..Len(table) : table'[i] \in Nat /\ table'[i] <= LastEvent(q.events)
    <3>1. \A i \in 1..Len(table) : table[i] \in Nat /\ table[i] <= LastEvent(q.events)
      BY <1>3, <1>4, <2>1
    <3>2. QED
      BY <1>8, <3>1
  <2>4. \A i \in 1..Len(rows) :
          table'[Len(table) + i] \in Nat /\ table'[Len(table) + i] <= LastEvent(q.events)
    BY <1>8, <1>9
  <2>5. QED
    BY <2>2, <2>3, <2>4
<1>11. OrderInv'
  <2>1. \A i \in 1..Len(table') : table'[i] <= Taken'
    BY <1>3, <1>4, <1>10
  <2>2. ASSUME NEW r \in InFlight', r.number > last_batch'
        PROVE  \A i \in 1..Len(table') : table'[i] < r.events[1]
    <3>1. LastEvent(q.events) < r.events[1] /\ r.events[1] \in Nat
      <4>1. r \in InFlight /\ r \in Batches
        BY <1>5 DEF InFlight, TypeOK
      <4>2. r.events \in Seq(Nat) /\ Len(r.events) \in Nat \ {0}
        BY <4>1 DEF Batches
      <4>3. LastEvent(q.events) < r.events[1]
        BY <1>1, <1>2, <2>2, <4>1 DEF OrderInv
      <4>4. QED
        BY <4>2, <4>3
    <3>2. QED
      BY <1>3, <1>10, <3>1
  <2>3. QED
    BY <1>1, <1>4, <1>5, <2>1, <2>2 DEF OrderInv
<1>12. ASSUME rows # <<>>
       PROVE  \E first \in 1..emitted, last \in 1..emitted :
                /\ \A i \in 1..Len(table) : table[i] < first
                /\ table' = table \o [i \in 1..(last - first + 1) |-> first + i - 1]
  <2>1. PICK first \in Nat :
          /\ q.events[1] <= first /\ first <= LastEvent(q.events)
          /\ rows = [i \in 1..(LastEvent(q.events) - first + 1) |-> first + i - 1]
    BY <1>7, <1>12
  <2>2. first \in 1..emitted /\ LastEvent(q.events) \in 1..emitted
    <3>1. /\ q.events[1] \in Nat /\ LastEvent(q.events) \in Nat /\ emitted \in Nat /\ Taken \in Nat
          /\ 1 <= q.events[1] /\ LastEvent(q.events) <= Taken /\ Taken <= emitted
      BY <1>2, <1>3, <1>4
    <3>2. 1 <= first /\ first <= LastEvent(q.events) /\ LastEvent(q.events) <= emitted
      BY <2>1, <3>1
    <3>3. QED
      BY <3>1, <3>2
  <2>3. \A i \in 1..Len(table) : table[i] < first
    BY <1>3, <1>4, <2>1
  <2>4. QED
    BY <1>1, <1>6, <2>1, <2>2, <2>3
<1>13. rows = <<>> => table' = table
  BY <1>1, <1>2, <1>6
<1>14. QED
  BY <1>1, <1>11, <1>12, <1>13

\* What all the other steps do: they report and store nothing, and nothing new is sent.
Quiet ==
  /\ UNCHANGED <<emitted, last_batch>> /\ (pending' = pending \/ pending' = <<>>)
  /\ \A q \in InFlight' : \E p \in InFlight : p.number = q.number /\ p.events = q.events
  /\ \/ UNCHANGED <<table, status>>
     \/ status # "ended" /\ table' = Append(table, TRANSITION)

Storing == \E q \in requests : StoreBatch(q)

LEMMA OtherSteps ==
  ASSUME TypeOK, [Next]_vars, ~Report, ~(Finish /\ ~gone), ~TakeBatch, ~Storing
  PROVE  Quiet
<1> USE DEF sink, api, page, stream
<1>1. ASSUME UNCHANGED <<emitted, last_batch, table, status>>, pending' = pending \/ pending' = <<>>,
             InFlight' \subseteq InFlight
      PROVE  Quiet
  BY <1>1 DEF Quiet
<1>2. CASE Finish
  <2>1. UNCHANGED <<emitted, pending, last_batch, table, status, requests, posting>>
    BY <1>2 DEF Finish
  <2>2. QED
    BY <1>1, <2>1 DEF InFlight
<1>3. CASE AttemptFails
  <2>1. UNCHANGED <<emitted, pending, last_batch, table, status>>
    BY <1>3 DEF AttemptFails
  <2>2. \A q \in InFlight' : \E p \in InFlight : p.number = q.number /\ p.events = q.events
    <3>1. posting \in InFlight /\ requests \subseteq InFlight
      BY <1>3, AttemptFailsDoes DEF InFlight
    <3>2. \A q \in InFlight' : q \in requests \/ (q = posting' /\ posting' # Nothing)
      BY <1>3, AttemptFailsDoes DEF InFlight
    <3>3. posting' # Nothing => posting'.number = posting.number /\ posting'.events = posting.events
      BY <1>3, AttemptFailsDoes
    <3>4. QED
      BY <3>1, <3>2, <3>3
  <2>3. QED
    BY <2>1, <2>2 DEF Quiet
<1>4. CASE Drained
  BY <1>1, <1>4 DEF Drained, InFlight
<1>5. CASE DrainTimesOut
  BY <1>1, <1>5 DEF DrainTimesOut, InFlight
<1>6. ASSUME NEW q \in requests, Refuse(q) PROVE Quiet
  <2>1. \/ UNCHANGED <<pending, posting>>
        \/ posting' = Nothing /\ (pending' = pending \/ pending' = <<>>)
    BY <1>6 DEF Refuse, Answered
  <2>2. UNCHANGED <<emitted, last_batch, table, status>> /\ requests' \subseteq requests
    BY <1>6 DEF Refuse
  <2>3. QED
    BY <1>1, <2>1, <2>2 DEF InFlight
<1>7. ASSUME NEW h \in handlers, PublishRow(h) PROVE Quiet
  BY <1>1, <1>7 DEF PublishRow, InFlight
<1>8. ASSUME NEW h \in handlers, StartRunning(h) PROVE Quiet
  <2>1. /\ UNCHANGED <<emitted, pending, last_batch, requests, posting>>
        /\ \/ UNCHANGED <<table, status>>
           \/ status = "claimed" /\ table' = Append(table, TRANSITION)
    BY <1>8 DEF StartRunning
  <2>2. QED
    BY <2>1 DEF Quiet, InFlight
<1>9. ASSUME NEW h \in handlers, Answer(h) PROVE Quiet
  <2>1. \/ UNCHANGED <<pending, posting>>
        \/ posting' = Nothing /\ (pending' = pending \/ pending' = <<>>)
    BY <1>9 DEF Answer, Answered
  <2>2. UNCHANGED <<emitted, last_batch, table, status, requests>>
    BY <1>9 DEF Answer
  <2>3. QED
    BY <1>1, <2>1, <2>2 DEF InFlight
<1>10. ASSUME NEW h \in handlers, HandlerDies(h) PROVE Quiet
  BY <1>1, <1>10 DEF HandlerDies, InFlight
<1>11. CASE EndRun
  BY <1>11 DEF EndRun, Quiet, InFlight
<1>12. CASE AnnounceEnd
  BY <1>1, <1>12 DEF AnnounceEnd, InFlight
<1>13. CASE Aside
  BY <1>1, <1>13 DEF Aside, InFlight
<1>14. CASE UNCHANGED vars
  BY <1>1, <1>14 DEF vars, InFlight
<1>15. QED
  BY <1>2, <1>3, <1>4, <1>5, <1>6, <1>7, <1>8, <1>9, <1>10, <1>11, <1>12, <1>13, <1>14, AsideSteps
  DEF Next, RunnerStep, ApiStep, Storing

\* Each step keeps the order, and is a step of the transcript.
LEMMA OrderStep ==
  ASSUME Inv, OrderInv, TypeOK', [Next]_vars
  PROVE  OrderInv' /\ [Promised!Next]_(Promised!vars)
<1> USE DEF Promised!vars
<1>1. ASSUME Emit, UNCHANGED <<table, last_batch, posting, requests, status>>
      PROVE  OrderInv' /\ Promised!Next
  <2>1. OrderInv'
    BY <1>1, OrderEmit DEF Inv
  <2>2. Promised!Report
    BY <1>1 DEF Emit, Promised!Report
  <2>3. QED
    BY <2>1, <2>2 DEF Promised!Next
<1>2. CASE Report
  BY <1>1, <1>2 DEF Report, api
<1>3. CASE Finish /\ ~gone
  BY <1>1, <1>3 DEF Finish, api
<1>4. CASE TakeBatch
  <2>1. OrderInv'
    BY <1>4, OrderTake DEF Inv
  <2>2. UNCHANGED <<emitted, table, status>>
    BY <1>4 DEF TakeBatch
  <2>3. QED
    BY <2>1, <2>2
<1>5. ASSUME NEW q \in requests, StoreBatch(q) PROVE OrderInv' /\ [Promised!Next]_(Promised!vars)
  <2>1. /\ OrderInv' /\ UNCHANGED <<emitted, status>> /\ status # "ended"
        /\ \/ UNCHANGED table
           \/ \E first \in 1..emitted, last \in 1..emitted :
                /\ \A i \in 1..Len(table) : table[i] < first
                /\ table' = table \o [i \in 1..(last - first + 1) |-> first + i - 1]
    BY <1>5, OrderStore DEF Inv
  <2>2. UNCHANGED <<emitted, table, status>> \/ Promised!Store
    BY <2>1 DEF Promised!Store
  <2>3. QED
    BY <2>1, <2>2 DEF Promised!Next
<1>6. CASE Quiet
  <2>1. OrderInv'
    BY <1>6, OrderKept DEF Inv, Quiet
  <2>2. UNCHANGED <<emitted, table, status>> \/ Promised!Transition
    BY <1>6 DEF Quiet, Promised!Transition, TRANSITION, Promised!TransitionRow
  <2>3. QED
    BY <2>1, <2>2 DEF Promised!Next
<1>7. QED
  BY <1>2, <1>3, <1>4, <1>5, <1>6, OtherSteps DEF Inv, Storing

\* The table is always a transcript: however posts are lost, late or repeated, each batch is stored
\* at most once, whole, after those sent before it, and none after the run has ended.
THEOREM ImplementsTranscript == Spec => TranscriptSpec
<1>1. Init => Promised!Init /\ OrderInv
  BY DEF Init, Promised!Init, OrderInv, Taken, InFlight
<1>2. Inv /\ OrderInv /\ Inv' /\ [Next]_vars => OrderInv' /\ [Promised!Next]_(Promised!vars)
  BY OrderStep DEF Inv
<1>3. QED
  BY InvInit, InvStep, <1>1, <1>2, PTL DEF Spec, TranscriptSpec, Promised!Spec
=============================================================================
