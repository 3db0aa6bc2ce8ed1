----------------------------- MODULE RunEvents -----------------------------
(***************************************************************************)
(* A run's events on their way from the runner (EventSink, runner.py) to   *)
(* the callback API (api/internal.py, runs/events.py), the run_events      *)
(* table, the run's Redis channel, the stream (api/runs.py) and the page   *)
(* (Transcript.tsx).  Events are numbered as the runner reports them; the  *)
(* first is the report that the agent starts, what setup logs before it    *)
(* being like what follows.  A row's id is its place in the table: every   *)
(* writer of rows holds the run's row lock.                                *)
(***************************************************************************)
EXTENDS Integers, Sequences

CONSTANTS
  MaxEvents,     \* how many events the runner reports at most
  max_batch,     \* Timings.max_batch
  Attempts,      \* len(retry_delays_s) + 1
  MaxFaults,     \* how many things go wrong at most
  Nothing

ASSUME EventsAssumption ==
  /\ MaxEvents \in Nat /\ max_batch \in Nat \ {0} /\ Attempts \in Nat \ {0} /\ MaxFaults \in Nat
  /\ Nothing \notin [number: Nat, attempt: Nat, events: Seq(Nat)]

VARIABLES
  emitted,       \* how many events the runner has reported
  pending,       \* _pending
  posting,       \* the batch under the lock, and the attempt at it
  batches_sent,  \* _batches_sent
  gone,
  runner,        \* "works", "drains" or "over"
  requests,      \* posts on their way to the API
  handlers,      \* requests that are stored: rows to publish, transition to make
  status,        \* the run's: "claimed", "running" or "ended"
  last_batch,
  table,         \* run_events
  announce,      \* the row of the run's end, while nobody has published it
  at,            \* the page: "new", "connecting", "subscribed", "replayed", "live", "closing", "done"
  last_id,       \* the EventSource's Last-Event-ID
  inbox,         \* published since the subscription, behind the replay
  shown,         \* the rows on the page
  acked,         \* history: events whose batch was answered with 2xx
  dropped,       \* history: events the runner gave up
  timely,        \* history: rows published before any later row
  latest,        \* history: the latest row published
  died,          \* history: a handler died after its first commit
  faults

sink == <<emitted, pending, posting, batches_sent, gone, runner, acked, dropped>>
api == <<requests, handlers, status, last_batch, table, died>>
page == <<at, last_id, inbox, shown>>
stream == <<timely, latest>>
vars == <<sink, api, page, stream, announce, faults>>

Least(a, b) == IF a < b THEN a ELSE b
Elements(seq) == {seq[i] : i \in 1..Len(seq)}

\* The id of the last row of a set, and 0 for none (lastEventId).
LastOf(rows) == IF rows = {} THEN 0 ELSE CHOOSE r \in rows : \A s \in rows : s <= r

START == 1     \* the event "state": running
TRANSITION == 0     \* a row that a transition of the run writes itself

Fault == faults < MaxFaults /\ faults' = faults + 1

Init ==
  /\ emitted = 0 /\ pending = <<>> /\ posting = Nothing /\ batches_sent = 0
  /\ gone = FALSE /\ runner = "works" /\ acked = {} /\ dropped = {}
  /\ requests = {} /\ handlers = {} /\ status = "claimed" /\ last_batch = 0
  /\ table = <<>> /\ died = FALSE
  /\ announce = <<>>
  /\ at = "new" /\ last_id = 0 /\ inbox = <<>> /\ shown = {}
  /\ timely = {} /\ latest = 0 /\ faults = 0

-----------------------------------------------------------------------------
(* The runner's sink. *)

Emit == emitted' = emitted + 1 /\ pending' = Append(pending, emitted + 1)

Report ==
  /\ runner = "works" /\ ~gone /\ emitted < MaxEvents - 1
  /\ Emit
  /\ UNCHANGED <<posting, batches_sent, gone, runner, acked, dropped, api, page, stream, announce,
                 faults>>

\* The end of run(): one last line, then drain(); nothing after a 410.
Finish ==
  /\ runner = "works"
  /\ IF gone THEN runner' = "over" /\ UNCHANGED <<emitted, pending>>
             ELSE runner' = "drains" /\ Emit
  /\ UNCHANGED <<posting, batches_sent, gone, acked, dropped, api, page, stream, announce, faults>>

\* Wrong: a batch is counted when it is done.
CountedWhenDone == IF batches_sent = 0 THEN 1 ELSE batches_sent

NextNumber == batches_sent + 1

\* Wrong: only a full batch is sent.
FullBatches == Len(pending) >= max_batch

Sendable == pending # <<>>

\* flush: a batch leaves _pending before it is posted.
TakeBatch ==
  /\ posting = Nothing /\ Sendable /\ ~gone /\ runner # "over"
  /\ LET size == Least(max_batch, Len(pending))
     IN  /\ posting' = [number |-> NextNumber, attempt |-> 1, events |-> SubSeq(pending, 1, size)]
         /\ pending' = SubSeq(pending, size + 1, Len(pending))
  /\ batches_sent' = batches_sent + 1
  /\ requests' = requests \union {posting'}
  /\ UNCHANGED <<emitted, gone, runner, acked, dropped, handlers, status, last_batch, table, died,
                 page, stream, announce, faults>>

Unanswerable == posting \notin requests /\ \A h \in handlers : h.request # posting

MayTryAgain == posting.attempt < Attempts

\* No answer, or a 5xx: the post is sent again, or given up.
AttemptFails ==
  /\ posting # Nothing
  /\ \/ Unanswerable /\ UNCHANGED faults
     \/ Fault
  /\ \E sent \in {requests, requests \ {posting}} :
       IF MayTryAgain
         THEN /\ posting' = [posting EXCEPT !.attempt = @ + 1]
              /\ requests' = sent \union {posting'}
              /\ UNCHANGED dropped
         ELSE /\ posting' = Nothing /\ requests' = sent
              /\ dropped' = dropped \union Elements(posting.events)
  /\ UNCHANGED <<emitted, pending, batches_sent, gone, runner, acked, handlers, status, last_batch,
                 table, died, page, stream, announce>>

Drained ==
  /\ runner = "drains"
  /\ gone \/ (pending = <<>> /\ posting = Nothing)
  /\ runner' = "over"
  /\ UNCHANGED <<emitted, pending, posting, batches_sent, gone, acked, dropped, api, page, stream,
                 announce, faults>>

\* drain() gives up after final_flush_s, and with it whatever is left.
DrainTimesOut ==
  /\ runner = "drains" /\ Fault
  /\ runner' = "over" /\ posting' = Nothing /\ pending' = <<>>
  /\ dropped' = dropped \union Elements(pending)
                  \union (IF posting = Nothing THEN {} ELSE Elements(posting.events))
  /\ UNCHANGED <<emitted, batches_sent, gone, acked, api, page, stream, announce>>

-----------------------------------------------------------------------------
(* The API. *)

\* The answer to a request, if its runner still waits for it.
Answered(request, code) ==
  IF posting # request
    THEN UNCHANGED <<pending, posting, gone, acked, dropped>>
    ELSE /\ posting' = Nothing
         /\ gone' = (code = "gone")
         /\ pending' = (IF code = "gone" THEN <<>> ELSE pending)
         /\ acked' = acked \union (IF code = "ok" THEN Elements(request.events) ELSE {})
         /\ dropped' = dropped \union (IF code = "ok" THEN {} ELSE Elements(request.events))
                         \union (IF code = "gone" THEN Elements(pending) ELSE {})

\* Wrong: every batch is new.
EveryBatch(request) == TRUE

NewBatch(request) == request.number > last_batch

\* "state" is no row: the transition itself records it.
RowsOf(events) == IF Head(events) = START THEN Tail(events) ELSE events

Starts(events) == \E i \in 1..Len(events) : events[i] = START

Refuse(request) ==
  /\ request \in requests /\ requests' = requests \ {request}
  /\ \/ /\ status = "ended" /\ Answered(request, "gone") /\ UNCHANGED faults
     \/ /\ status # "ended" /\ ~NewBatch(request) /\ Answered(request, "ok") /\ UNCHANGED faults
     \/ /\ status # "ended" /\ Fault /\ Answered(request, "rejected")
  /\ UNCHANGED <<emitted, batches_sent, runner, handlers, status, last_batch, table, died,
                 page, stream, announce>>

\* run_events up to its first commit, under the run's row lock.
StoreBatch(request) ==
  /\ request \in requests /\ requests' = requests \ {request}
  /\ status # "ended" /\ NewBatch(request)
  /\ last_batch' = request.number
  /\ LET stored == RowsOf(request.events)
     IN  /\ table' = table \o stored
         /\ handlers' = handlers \union
              {[request |-> request,
                rows |-> [i \in 1..Len(stored) |-> Len(table) + i],
                starts |-> Starts(request.events) /\ status = "claimed"]}
  /\ UNCHANGED <<sink, status, died, page, stream, announce, faults>>

\* Wrong: the subscription starts when the replay is over.
NotYet == FALSE

\* Subscribed, and the messages wait behind the replay.
Listening == at \in {"subscribed", "replayed"}

\* What the channel's subscriber gets; a failure to publish is only logged.
Publish(row) ==
  \/ /\ latest' = (IF row > latest THEN row ELSE latest)
     /\ timely' = timely \union (IF row > latest THEN {row} ELSE {})
     /\ CASE at = "live" -> shown' = shown \union {row} /\ last_id' = row /\ UNCHANGED inbox
          [] Listening -> inbox' = Append(inbox, row) /\ UNCHANGED <<shown, last_id>>
          [] OTHER -> UNCHANGED <<inbox, shown, last_id>>
     /\ UNCHANGED <<at, faults>>
  \/ Fault /\ UNCHANGED <<page, stream>>

PublishRow(h) ==
  /\ h \in handlers /\ h.rows # <<>>
  /\ Publish(Head(h.rows))
  /\ handlers' = (handlers \ {h}) \union {[h EXCEPT !.rows = Tail(@)]}
  /\ UNCHANGED <<sink, requests, status, last_batch, table, died, announce>>

\* The second transaction, with the row locked and read again.
StartRunning(h) ==
  /\ h \in handlers /\ h.rows = <<>> /\ h.starts
  /\ IF status = "claimed"
       THEN /\ status' = "running" /\ table' = Append(table, TRANSITION)
            /\ handlers' = (handlers \ {h})
                 \union {[h EXCEPT !.rows = <<Len(table) + 1>>, !.starts = FALSE]}
       ELSE /\ handlers' = (handlers \ {h}) \union {[h EXCEPT !.starts = FALSE]}
            /\ UNCHANGED <<status, table>>
  /\ UNCHANGED <<sink, requests, last_batch, died, page, stream, announce, faults>>

Answer(h) ==
  /\ h \in handlers /\ h.rows = <<>> /\ ~h.starts
  /\ handlers' = handlers \ {h}
  /\ Answered(h.request, "ok")
  /\ UNCHANGED <<emitted, batches_sent, runner, requests, status, last_batch, table, died,
                 page, stream, announce, faults>>

\* The API's process ends, or the second transaction fails.
HandlerDies(h) ==
  /\ h \in handlers /\ Fault
  /\ handlers' = handlers \ {h} /\ died' = TRUE
  /\ UNCHANGED <<sink, requests, status, last_batch, table, page, stream, announce>>

\* Somebody else ends the run: the worker, a cancel, the reaper (record_transition).
EndRun ==
  /\ status # "ended" /\ status' = "ended"
  /\ table' = Append(table, TRANSITION) /\ announce' = <<Len(table) + 1>>
  /\ UNCHANGED <<sink, requests, handlers, last_batch, died, page, stream, faults>>

AnnounceEnd ==
  /\ announce # <<>> /\ announce' = Tail(announce)
  /\ Publish(Head(announce))
  /\ UNCHANGED <<sink, api>>

-----------------------------------------------------------------------------
(* The page of the run. *)

After(row) == {r \in 1..Len(table) : r > row}

\* The history from the last row on; the page may not know yet that the run has ended.
LoadHistory ==
  /\ at \in {"new", "closing"}
  /\ shown' = shown \union After(LastOf(shown))
  /\ at' \in (IF at = "new" THEN {"connecting"} ELSE {"done"})
               \union (IF status = "ended" THEN {"done"} ELSE {})
  /\ last_id' = 0
  /\ UNCHANGED <<inbox, sink, api, stream, announce, faults>>

Subscribe ==
  /\ at = "connecting" /\ at' = "subscribed"
  /\ UNCHANGED <<last_id, inbox, shown, sink, api, stream, announce, faults>>

\* The stored rows after Last-Event-ID.
Replay ==
  /\ at = "subscribed" /\ at' = "replayed"
  /\ shown' = shown \union After(last_id)
  /\ last_id' = (IF After(last_id) # {} THEN Len(table) ELSE last_id)
  /\ UNCHANGED <<inbox, sink, api, stream, announce, faults>>

\* What was published since the subscription.
CatchUp ==
  /\ at = "replayed" /\ at' = "live"
  /\ shown' = shown \union Elements(inbox)
  /\ last_id' = (IF inbox # <<>> THEN inbox[Len(inbox)] ELSE last_id)
  /\ inbox' = <<>>
  /\ UNCHANGED <<sink, api, stream, announce, faults>>

\* The connection drops: the EventSource reconnects by itself, or is closed and made anew.
Disconnect ==
  /\ Listening \/ at = "live"
  /\ Fault
  /\ at' \in {"connecting", "new"} /\ inbox' = <<>>
  /\ UNCHANGED <<last_id, shown, sink, api, stream, announce>>

\* run.updated, the board's stream or a re-read of the ticket says that the run has ended.
LearnEnd ==
  /\ status = "ended" /\ announce = <<>> /\ at \in {"connecting", "subscribed", "replayed", "live"}
  /\ at' = "closing" /\ inbox' = <<>>
  /\ UNCHANGED <<last_id, shown, sink, api, stream, announce, faults>>

-----------------------------------------------------------------------------

RunnerStep == Report \/ Finish \/ TakeBatch \/ AttemptFails \/ Drained \/ DrainTimesOut
ApiStep ==
  \/ \E r \in requests : Refuse(r) \/ StoreBatch(r)
  \/ \E h \in handlers : PublishRow(h) \/ StartRunning(h) \/ Answer(h) \/ HandlerDies(h)
  \/ EndRun \/ AnnounceEnd
PageStep == LoadHistory \/ Subscribe \/ Replay \/ CatchUp \/ Disconnect \/ LearnEnd

Next == RunnerStep \/ ApiStep \/ PageStep

Spec == Init /\ [][Next]_vars

\* The runner's flusher and drain() go on, and the API handles what it got. Nothing is assumed of
\* faults, of who ends the run, or of the page.
Handled == \/ \E r \in requests : Refuse(r) \/ StoreBatch(r)
           \/ \E h \in handlers : PublishRow(h) \/ StartRunning(h) \/ Answer(h)
FairSpec ==
  /\ Spec
  /\ WF_vars(TakeBatch) /\ WF_vars(AttemptFails /\ Unanswerable) /\ WF_vars(Handled)
  /\ WF_vars(Drained) /\ WF_vars(Finish)

-----------------------------------------------------------------------------
(* Properties. *)

\* The table, through every lost, late and repeated request, is a transcript.
Promised == INSTANCE Transcript WITH
  reported <- emitted, rows <- table, closed <- (status = "ended")
TranscriptSpec == Promised!Spec

\* What the API has acknowledged is stored: a batch is never taken for one that was sent before
\* (_batches_sent, last_batch), nor answered before its commit.  The report that the agent starts
\* is no row: when it was acknowledged, also as a duplicate, the run is no longer "claimed", unless
\* a handler is, or died, between its two transactions.
NothingAcknowledgedIsLost ==
  /\ acked \ {START} \subseteq Elements(table)
  /\ START \in acked => status # "claimed" \/ died \/ \E h \in handlers : h.starts

\* The page has no gap: up to its last row it shows all that was published in the order of the
\* table, also what was published while it was reconnecting or replaying ("subscribe before
\* replaying"); and in the end it shows the rest of the table too.
NoSilentGap ==
  /\ \A row \in timely : row <= LastOf(shown) => row \in shown
  /\ at = "done" => LastOf(shown) = Len(table)

\* In the end every event that was reported is stored, unless every attempt at its batch failed,
\* the drain timed out or the run ended before.
EveryEventArrives ==
  <>[](status = "ended" \/ 1..emitted \ {START} \subseteq Elements(table) \union dropped)
=============================================================================
