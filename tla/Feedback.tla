------------------------------ MODULE Feedback ------------------------------
(***************************************************************************)
(* How the feedback on one ticket's pull request becomes runs: the webhook *)
(* handlers that queue a run or park the review (or PR comment) on the     *)
(* ticket, and the two kinds of starter, a worker that has just finished a *)
(* run and the reaper's beat, that take what is parked and queue its run.  *)
(*                                                                         *)
(* A handler or starter is cut into one action per commit, per call to     *)
(* GitHub or to the broker, and per unlocked read. What a run does is the  *)
(* business of RunExecution; here it is active and then it ends.           *)
(*                                                                         *)
(* Bounds: MaxFaults (how many faults of the kinds in Faults happen); each *)
(* delivery of Reviews, Comments and Asks is made once or more, and acts   *)
(* once. A pull request is closed at most once.                            *)
(***************************************************************************)
EXTENDS Naturals, FiniteSets

CONSTANTS
  Reviews, Comments,    \* feedback: each is also the webhook delivery that brings it
  Asks,                 \* deliveries and requests that ask for a run, with nothing to park
  Workers, Reapers,     \* processes that call start_pending_review
  Nothing,              \* null value
  Faults, MaxFaults

FaultKinds == {"broker", "github", "crash"}

Feedbacks == Reviews \union Comments
Handlers  == Feedbacks \union Asks
Starters  == Workers \union Reapers
Callers   == Handlers \union Starters

ASSUME CallerAssumption ==
  /\ Reviews \intersect Comments = {}
  /\ Feedbacks \intersect Asks = {}
  /\ Workers \intersect Reapers = {}
  /\ Handlers \intersect Starters = {}
  /\ Nothing \notin Callers

ASSUME FaultAssumption ==
  /\ Faults \subseteq FaultKinds
  /\ MaxFaults \in Nat

VARIABLES
  recorded,     \* the deliveries in webhook_deliveries
  pending,      \* tickets.pending_review_id and tickets.pending_comment
  pr_open,      \* the pull request and its issue are open
  active,       \* who queued the ticket's active run, if it has one
  pc,           \* where each handler and each starter is
  held,         \* the feedback a starter read from the ticket
  saw_open,     \* pr_open, as a starter read it
  \* history: what had arrived when a caller inserted its run; the newest feedback of
  \* each kind; the feedback that a later run of its kind was queued after; how many
  \* runs (2 for more) were queued for a piece of feedback
  news, newest, followed, served,
  faults

ticket  == <<recorded, pending, pr_open, active>>
history == <<news, newest, followed, served>>
vars    == <<ticket, pc, held, saw_open, history, faults>>

-----------------------------------------------------------------------------
(* Types *)

Kinds == {"review", "comment"}

OfKind(kind) == IF kind = "review" THEN Reviews ELSE Comments

Kind(f) == IF f \in Reviews THEN "review" ELSE "comment"

\* Inside enqueue_run, and its caller's two answers to an exception from it.
ENQUEUEING == {"check", "insert", "reread", "hand"}
REFUSED == {"busy", "failed"}

\* Inside start_pending_review, before it clears the column.
STARTING == {"read", "look", "drop", "fetch", "clear"}

TypeOK ==
  /\ recorded \subseteq Handlers
  /\ pending \in [Kinds -> Feedbacks \union {Nothing}]
  /\ \A k \in Kinds : pending[k] \in OfKind(k) \union {Nothing}
  /\ pr_open \in BOOLEAN
  /\ active \in Callers \union {Nothing}
  /\ pc \in [Callers -> {"idle"} \union ENQUEUEING \union REFUSED \union STARTING]
  /\ \A c \in Handlers : pc[c] \notin STARTING
  /\ held \in [Starters -> Feedbacks \union {Nothing}]
  /\ \A s \in Starters : pc[s] \notin {"idle", "read"} => held[s] \in Feedbacks
  /\ saw_open \in [Starters -> BOOLEAN]
  /\ news \in [Callers -> SUBSET Feedbacks]
  /\ newest \in [Kinds -> Feedbacks \union {Nothing}]
  /\ followed \subseteq Feedbacks
  /\ served \in [Feedbacks -> 0..2]
  /\ faults \in 0..MaxFaults

Init ==
  /\ recorded = {}
  /\ pending = [k \in Kinds |-> Nothing]
  /\ pr_open = TRUE
  /\ active = Nothing
  /\ pc = [c \in Callers |-> "idle"]
  /\ held = [s \in Starters |-> Nothing]
  /\ saw_open = [s \in Starters |-> FALSE]
  /\ news = [c \in Callers |-> {}]
  /\ newest = [k \in Kinds |-> Nothing]
  /\ followed = {}
  /\ served = [f \in Feedbacks |-> 0]
  /\ faults = 0

-----------------------------------------------------------------------------
(* Helpers *)

Fault(kind) ==
  /\ kind \in Faults
  /\ faults < MaxFaults
  /\ faults' = faults + 1

Goto(c, step) == pc' = [pc EXCEPT ![c] = step]

\* What a caller of enqueue_run wants a run for (Asks want a run of the task itself).
Cause(c) == IF c \in Starters THEN held[c] ELSE c

\* The call is over: the handler answers 200, the starter's task returns.
Return(c) ==
  /\ Goto(c, "idle")
  /\ held' = [s \in Starters |-> IF s = c THEN Nothing ELSE held[s]]
  /\ saw_open' = [s \in Starters |-> IF s = c THEN FALSE ELSE saw_open[s]]
  /\ news' = [news EXCEPT ![c] = {}]

-----------------------------------------------------------------------------
(* Webhook deliveries *)

RecordTwice(d) == TRUE

\* The delivery's row is not there yet.
record_delivery(d) == d \notin recorded

\* A delivery that asks for a run: its row and the handler's effects are committed
\* together, and the run is still to be queued. (A duplicate, a delivery rolled back before
\* this commit and one that asks for nothing leave this state as it is.) The payload says
\* that the pull request is open; the ticket may know better already.
Deliver(d) ==
  /\ pc[d] = "idle"
  /\ record_delivery(d)
  /\ recorded' = recorded \union {d}
  /\ newest' = [k \in Kinds |-> IF d \in OfKind(k) THEN d ELSE newest[k]]
  /\ Goto(d, "check")
  /\ UNCHANGED <<pending, pr_open, active, held, saw_open, news, followed, served, faults>>

ParkAsReview(d) == pending' = [pending EXCEPT !["review"] = IF d \in Feedbacks THEN d ELSE @]

\* The newest review and the newest comment wait, whatever waited before.
_park_feedback(d) ==
  IF d \in Feedbacks THEN pending' = [pending EXCEPT ![Kind(d)] = d]
                     ELSE UNCHANGED pending

\* ActiveRunExists, or any other exception after a rollback: keep the feedback for later.
Park(d) ==
  /\ d \in Handlers
  /\ pc[d] \in REFUSED
  /\ _park_feedback(d)
  /\ Return(d)
  /\ UNCHANGED <<recorded, pr_open, active, newest, followed, served, faults>>

-----------------------------------------------------------------------------
(* enqueue_run, called by handlers and starters *)

\* active_run finds one, and ActiveRunExists is raised, or it finds none.
CheckActive(c) ==
  /\ pc[c] = "check"
  /\ Goto(c, IF active # Nothing THEN "busy" ELSE "insert")
  /\ UNCHANGED <<ticket, held, saw_open, history, faults>>

\* The insert and its commit pass the partial unique index ...
Insert(c) ==
  /\ pc[c] = "insert"
  /\ active = Nothing
  /\ active' = c
  /\ news' = [news EXCEPT ![c] = IF c \in Asks THEN {}
                                 ELSE recorded \intersect OfKind(Kind(Cause(c)))]
  /\ Goto(c, "hand")
  /\ UNCHANGED <<recorded, pending, pr_open, held, saw_open, newest, followed, served,
                 faults>>

\* ... or they do not, because a rival was faster, and the rival is looked for.
InsertConflicts(c) ==
  /\ pc[c] = "insert"
  /\ active # Nothing
  /\ Goto(c, "reread")
  /\ UNCHANGED <<ticket, held, saw_open, history, faults>>

\* ActiveRunExists, or the IntegrityError itself when the rival has ended meanwhile.
RereadActive(c) ==
  /\ pc[c] = "reread"
  /\ Goto(c, IF active # Nothing THEN "busy" ELSE "failed")
  /\ UNCHANGED <<ticket, held, saw_open, history, faults>>

\* The broker has the run; enqueue_run returns it and so does its caller.
HandOver(c) ==
  /\ pc[c] = "hand"
  /\ followed' = followed \union news[c]
  /\ served' = [f \in Feedbacks |-> IF f = Cause(c) /\ served[f] < 2 THEN served[f] + 1
                                                                  ELSE served[f]]
  /\ Return(c)
  /\ UNCHANGED <<ticket, newest, faults>>

\* The broker cannot be reached: the run is cancelled (enqueue_failed), unless somebody
\* has ended it already, and the exception goes on to the caller.
EnqueueFails(c) ==
  /\ pc[c] = "hand"
  /\ Fault("broker")
  /\ active' = IF active = c THEN Nothing ELSE active
  /\ news' = [news EXCEPT ![c] = {}]
  /\ Goto(c, "failed")
  /\ UNCHANGED <<recorded, pending, pr_open, held, saw_open, newest, followed, served>>

-----------------------------------------------------------------------------
(* start_pending_review *)

SelectComments == pending["comment"] # Nothing

\* The WHERE clause of start_pending_reviews: something waits on the ticket.
SelectWaiting == \E k \in Kinds : pending[k] # Nothing

\* start_pending_reviews, on the reaper's beat.
Beat(s) ==
  /\ s \in Reapers
  /\ pc[s] = "idle"
  /\ SelectWaiting
  /\ Goto(s, "read")
  /\ UNCHANGED <<ticket, held, saw_open, history, faults>>

\* The ticket is read afresh: its review if one waits, else its comment, else there is
\* nothing to start.
ReadTicket(s) ==
  /\ pc[s] = "read"
  /\ \/ /\ \E k \in Kinds : pending[k] # Nothing
        /\ held' = [held EXCEPT ![s] = IF pending["review"] # Nothing
                                       THEN pending["review"] ELSE pending["comment"]]
        /\ saw_open' = [saw_open EXCEPT ![s] = pr_open]
        /\ Goto(s, "look")
        /\ UNCHANGED news
     \/ /\ \A k \in Kinds : pending[k] = Nothing
        /\ Return(s)
  /\ UNCHANGED <<ticket, newest, followed, served, faults>>

\* active_run: still busy, and it starts when that run ends ...
StillBusy(s) ==
  /\ pc[s] = "look"
  /\ active # Nothing
  /\ Return(s)
  /\ UNCHANGED <<ticket, newest, followed, served, faults>>

\* ... or nothing runs: with the pull request closed there is nothing left to address, a
\* review is read from GitHub, and a comment is already there.
NotBusy(s) ==
  /\ pc[s] = "look"
  /\ active = Nothing
  /\ Goto(s, IF ~saw_open[s] THEN "drop"
             ELSE IF held[s] \in Reviews THEN "fetch" ELSE "clear")
  /\ UNCHANGED <<ticket, held, saw_open, history, faults>>

Drop(s) ==
  /\ pc[s] = "drop"
  /\ pending' = [pending EXCEPT ![Kind(held[s])] = Nothing]
  /\ Return(s)
  /\ UNCHANGED <<recorded, pr_open, active, newest, followed, served, faults>>

GetReview(s) ==
  /\ pc[s] = "fetch"
  /\ Goto(s, "clear")
  /\ UNCHANGED <<ticket, held, saw_open, history, faults>>

\* GitHub refuses: the review is kept pending, and the next beat tries again.
GetReviewFails(s) ==
  /\ pc[s] = "fetch"
  /\ Fault("github")
  /\ Return(s)
  /\ UNCHANGED <<ticket, newest, followed, served>>

\* The column is cleared and committed, whatever it holds by now, before enqueue_run.
Clear(s) ==
  /\ pc[s] = "clear"
  /\ pending' = [pending EXCEPT ![Kind(held[s])] = Nothing]
  /\ Goto(s, "check")
  /\ UNCHANGED <<recorded, pr_open, active, held, saw_open, history, faults>>

\* ActiveRunExists: the column is set back, whatever it holds by now.
PutBack(s) ==
  /\ s \in Starters
  /\ pc[s] = "busy"
  /\ pending' = [pending EXCEPT ![Kind(held[s])] = held[s]]
  /\ Return(s)
  /\ UNCHANGED <<recorded, pr_open, active, newest, followed, served, faults>>

_restore_nothing(s) ==
  /\ s \in Starters
  /\ pc[s] = "failed"
  /\ UNCHANGED pending
  /\ Return(s)
  /\ UNCHANGED <<recorded, pr_open, active, newest, followed, served, faults>>

\* After any other exception, the feedback is set back only if nothing waits in its place.
_restore_pending(s) ==
  /\ s \in Starters
  /\ pc[s] = "failed"
  /\ pending' = [pending EXCEPT ![Kind(held[s])] = IF @ = Nothing THEN held[s] ELSE @]
  /\ Return(s)
  /\ UNCHANGED <<recorded, pr_open, active, newest, followed, served, faults>>

-----------------------------------------------------------------------------
(* The rest of the world *)

\* The active run ends. When it was handed over and a worker saw it to its end, that
\* worker calls start_pending_review next; a run that is cancelled or reaped, or whose
\* worker died, ends with nobody to do so.
RunEnds ==
  /\ active # Nothing
  /\ active' = Nothing
  /\ \/ UNCHANGED pc
     \/ /\ pc[active] # "hand"
        /\ \E w \in Workers : pc[w] = "idle" /\ Goto(w, "read")
  /\ UNCHANGED <<recorded, pending, pr_open, held, saw_open, history, faults>>

\* The pull request is merged or closed, or its issue is.
PullRequestCloses ==
  /\ pr_open
  /\ pr_open' = FALSE
  /\ UNCHANGED <<recorded, pending, active, pc, held, saw_open, history, faults>>

\* The process of a handler or a starter dies.
Crash(c) ==
  /\ pc[c] # "idle"
  /\ Fault("crash")
  /\ Return(c)
  /\ UNCHANGED <<ticket, newest, followed, served>>

-----------------------------------------------------------------------------
(* Specification *)

Enqueue(c) ==
  \/ CheckActive(c) \/ Insert(c) \/ InsertConflicts(c) \/ RereadActive(c)
  \/ HandOver(c)

Start(s) ==
  \/ ReadTicket(s) \/ StillBusy(s) \/ NotBusy(s) \/ Drop(s) \/ GetReview(s) \/ Clear(s)
  \/ PutBack(s) \/ _restore_pending(s)

Next ==
  \/ \E d \in Handlers : Deliver(d) \/ Park(d)
  \/ \E c \in Callers : Enqueue(c) \/ EnqueueFails(c) \/ Crash(c)
  \/ \E s \in Starters : Beat(s) \/ Start(s) \/ GetReviewFails(s)
  \/ RunEnds
  \/ PullRequestCloses

Spec == Init /\ [][Next]_vars

\* A handler or a starter that is under way goes on; the reaper's beat comes again; the
\* active run ends (RunExecution: WorkingRunsEnd, QueuedRunsAreServed).
Fairness ==
  /\ \A d \in Handlers : WF_vars(Park(d))
  /\ \A c \in Callers : WF_vars(Enqueue(c))
  /\ \A s \in Starters : WF_vars(Start(s)) /\ WF_vars(Beat(s))
  /\ WF_vars(RunEnds)

FairSpec == Spec /\ Fairness

-----------------------------------------------------------------------------
(* Properties *)

\* The caller has feedback f's kind in hand and will either queue a run for it or put
\* feedback back on the ticket; once its run is inserted, that run is for what had arrived.
Carries(c, f) ==
  /\ c \notin Asks
  /\ \/ pc[c] \in (ENQUEUEING \ {"hand"}) \union REFUSED
     \/ pc[c] = "hand" /\ f \in news[c]
  /\ Kind(Cause(c)) = Kind(f)

\* While the pull request is open, every piece of feedback is followed by a run of its
\* kind that was queued after it came, or some feedback of its kind still waits on the
\* ticket or is in a live caller's hands: an outage of the broker or of GitHub, and any
\* interleaving of handlers and starters, always leaves a next run to come. (It may be
\* older feedback that waits: see NewestFeedbackIsKept.) docs/phase5.md, decision 5.
FeedbackIsKept ==
  pr_open =>
    \A f \in recorded \intersect Feedbacks :
      \/ f \in followed
      \/ pending[Kind(f)] # Nothing
      \/ \E c \in Callers : Carries(c, f)

\* However often a delivery is repeated, handlers and starter crash, the broker fails and
\* runs end in between, a review or comment gets at most one run of its own: the row in
\* webhook_deliveries and the clearing of the column before enqueue_run see to it, as long
\* as one starter is at work at a time.
AddressedOnce == \A f \in Feedbacks : served[f] <= 1

\* The newest review and the newest comment are never lost while the pull request is
\* open: each has its run, waits on the ticket or is in a live caller's hands.
NewestFeedbackIsKept ==
  pr_open =>
    \A k \in Kinds : newest[k] # Nothing =>
      \/ served[newest[k]] > 0
      \/ pending[k] = newest[k]
      \/ \E c \in Callers : Cause(c) = newest[k] /\ pc[c] # "idle"

\* Feedback on an open pull request is followed, in time, by a run queued after it came,
\* with the broker or GitHub failing now and then: start_pending_reviews is for feedback
\* parked after the last run's worker has looked.
FeedbackIsServed ==
  \A f \in Feedbacks : f \in recorded ~> (f \in followed \/ ~pr_open)
=============================================================================
