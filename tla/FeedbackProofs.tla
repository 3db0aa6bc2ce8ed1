--------------------------- MODULE FeedbackProofs ---------------------------
(***************************************************************************)
(* What Feedback guarantees for any number of deliveries, workers and      *)
(* reapers, and any bound on the faults: its type invariant, that no       *)
(* feedback is left without a run to come as long as no process dies       *)
(* (FeedbackIsKept), and that with one starter nothing is addressed twice, *)
(* whatever dies (AddressedOnce).                                          *)
(***************************************************************************)
EXTENDS Feedback, TLAPS

USE DEF Callers, Handlers, Starters, Feedbacks

-----------------------------------------------------------------------------
(* Types *)

\* A step of one process changes its own place only, to one of the places there are.
LEMMA ReturnType ==
  ASSUME NEW c \in Callers, TypeOK, Return(c)
  PROVE  /\ pc' \in [Callers -> {"idle"} \union ENQUEUEING \union REFUSED \union STARTING]
         /\ \A d \in Handlers : pc'[d] \notin STARTING
         /\ held' \in [Starters -> Feedbacks \union {Nothing}]
         /\ \A s \in Starters : pc'[s] \notin {"idle", "read"} => held'[s] \in Feedbacks
         /\ saw_open' \in [Starters -> BOOLEAN]
         /\ news' \in [Callers -> SUBSET Feedbacks]
<1> USE DEF TypeOK, Return, Goto
<1>1. pc' \in [Callers -> {"idle"} \union ENQUEUEING \union REFUSED \union STARTING]
  OBVIOUS
<1>2. \A d \in Handlers : pc'[d] \notin STARTING
  BY DEF STARTING
<1>3. held' \in [Starters -> Feedbacks \union {Nothing}]
  OBVIOUS
<1>4. \A s \in Starters : pc'[s] \notin {"idle", "read"} => held'[s] \in Feedbacks
  OBVIOUS
<1>5. saw_open' \in [Starters -> BOOLEAN] /\ news' \in [Callers -> SUBSET Feedbacks]
  OBVIOUS
<1>6. QED
  BY <1>1, <1>2, <1>3, <1>4, <1>5

\* A fault is counted up to the bound.
LEMMA FaultType ==
  ASSUME NEW kind, TypeOK, Fault(kind)
  PROVE  faults' \in 0..MaxFaults
BY FaultAssumption DEF TypeOK, Fault

\* Feedback has the kind of the column it is put into.
LEMMA KindType ==
  ASSUME NEW f \in Feedbacks
  PROVE  Kind(f) \in Kinds /\ f \in OfKind(Kind(f))
BY CallerAssumption DEF Kind, Kinds, OfKind

\* A column holds feedback of its own kind.
LEMMA ColumnType ==
  ASSUME NEW k \in Kinds, NEW f \in OfKind(k)
  PROVE  Kind(f) = k
BY CallerAssumption DEF Kind, Kinds, OfKind

\* The initial state is well typed.
LEMMA InitType == Init => TypeOK
BY CallerAssumption, FaultAssumption DEF Init, TypeOK, Kinds, OfKind, STARTING

\* The webhook handler's steps keep the types.
LEMMA HandlerType ==
  ASSUME TypeOK, NEW d \in Handlers, Deliver(d) \/ Park(d)
  PROVE  TypeOK'
<1>1. CASE Deliver(d)
  <2>1. /\ recorded' \subseteq Handlers
        /\ newest' \in [Kinds -> Feedbacks \union {Nothing}]
    BY <1>1 DEF Deliver, TypeOK, OfKind
  <2>2. /\ pc' \in [Callers -> {"idle"} \union ENQUEUEING \union REFUSED \union STARTING]
        /\ \A e \in Handlers : pc'[e] \notin STARTING
        /\ \A s \in Starters : pc'[s] = pc[s]
    BY <1>1, CallerAssumption DEF Deliver, TypeOK, Goto, ENQUEUEING, STARTING
  <2>3. QED
    BY <1>1, <2>1, <2>2 DEF Deliver, TypeOK
<1>2. CASE Park(d)
  <2>1. /\ pending' \in [Kinds -> Feedbacks \union {Nothing}]
        /\ \A k \in Kinds : pending'[k] \in OfKind(k) \union {Nothing}
    BY <1>2, KindType DEF Park, _park_feedback, TypeOK
  <2>2. QED
    BY <1>2, <2>1, ReturnType DEF Park, TypeOK
<1>3. QED
  BY <1>1, <1>2

\* A step that only moves a caller on, among the places of enqueue_run and its answers.
LEMMA MoveType ==
  ASSUME TypeOK, NEW c \in Callers, pc[c] \in ENQUEUEING \union REFUSED,
         NEW to \in ENQUEUEING \union REFUSED, Goto(c, to)
  PROVE  /\ pc' \in [Callers -> {"idle"} \union ENQUEUEING \union REFUSED \union STARTING]
         /\ \A d \in Handlers : pc'[d] \notin STARTING
         /\ \A s \in Starters : pc'[s] \notin {"idle", "read"} => held[s] \in Feedbacks
BY CallerAssumption DEF TypeOK, Goto, ENQUEUEING, REFUSED, STARTING

\* enqueue_run's steps keep the types.
LEMMA EnqueueType ==
  ASSUME TypeOK, NEW c \in Callers, Enqueue(c) \/ EnqueueFails(c)
  PROVE  TypeOK'
<1>1. CASE CheckActive(c) \/ InsertConflicts(c) \/ RereadActive(c)
  <2>1. PICK to \in ENQUEUEING \union REFUSED : Goto(c, to)
    BY <1>1 DEF CheckActive, InsertConflicts, RereadActive, ENQUEUEING, REFUSED
  <2>2. pc[c] \in ENQUEUEING \union REFUSED
    BY <1>1 DEF CheckActive, InsertConflicts, RereadActive, ENQUEUEING
  <2>3. QED
    BY <1>1, <2>1, <2>2, MoveType
    DEF CheckActive, InsertConflicts, RereadActive, TypeOK, ticket, history
<1>2. CASE Insert(c)
  <2>1. Goto(c, "hand") /\ pc[c] \in ENQUEUEING \union REFUSED
    BY <1>2 DEF Insert, ENQUEUEING
  <2>2. news' \in [Callers -> SUBSET Feedbacks]
    BY <1>2 DEF Insert, TypeOK, OfKind
  <2>3. "hand" \in ENQUEUEING \union REFUSED
    BY DEF ENQUEUEING
  <2>4. QED
    BY <1>2, <2>1, <2>2, <2>3, MoveType DEF Insert, TypeOK
<1>3. CASE HandOver(c)
  <2>1. followed' \subseteq Feedbacks
    BY <1>3 DEF HandOver, TypeOK
  <2>2. served' \in [Feedbacks -> 0..2]
    BY <1>3 DEF HandOver, TypeOK
  <2>3. QED
    BY <1>3, <2>1, <2>2, ReturnType DEF HandOver, TypeOK, ticket
<1>4. CASE EnqueueFails(c)
  <2>1. Goto(c, "failed") /\ pc[c] \in ENQUEUEING \union REFUSED
    BY <1>4 DEF EnqueueFails, ENQUEUEING
  <2>2. "failed" \in ENQUEUEING \union REFUSED
    BY DEF REFUSED
  <2>3. news' \in [Callers -> SUBSET Feedbacks] /\ active' \in Callers \union {Nothing}
    BY <1>4 DEF EnqueueFails, TypeOK
  <2>4. faults' \in 0..MaxFaults
    BY <1>4, FaultType DEF EnqueueFails
  <2>5. QED
    BY <1>4, <2>1, <2>2, <2>3, <2>4, MoveType DEF EnqueueFails, TypeOK
<1>5. QED
  BY <1>1, <1>2, <1>3, <1>4 DEF Enqueue

\* A starter that moves on with what it holds, or has just read it.
LEMMA StarterMoveType ==
  ASSUME TypeOK, NEW s \in Starters,
         NEW to \in {"read", "check"} \union STARTING, Goto(s, to)
  PROVE  /\ pc' \in [Callers -> {"idle"} \union ENQUEUEING \union REFUSED \union STARTING]
         /\ \A d \in Handlers : pc'[d] \notin STARTING
         /\ \A t \in Starters \ {s} : pc'[t] = pc[t]
BY CallerAssumption DEF TypeOK, Goto, ENQUEUEING, STARTING

\* start_pending_review's steps keep the types.
LEMMA StarterType ==
  ASSUME TypeOK, NEW s \in Starters, Beat(s) \/ Start(s) \/ GetReviewFails(s)
  PROVE  TypeOK'
<1>1. CASE Beat(s)
  <2>1. Goto(s, "read") /\ pc'[s] = "read"
    BY <1>1 DEF Beat, Goto, TypeOK
  <2>2. QED
    BY <1>1, <2>1, StarterMoveType DEF Beat, TypeOK, ticket, history
<1>2. CASE ReadTicket(s)
  <2>1. CASE Return(s)
    BY <1>2, <2>1, ReturnType DEF ReadTicket, TypeOK, ticket
  <2>2. CASE ~Return(s)
    <3>1. /\ \E k \in Kinds : pending[k] # Nothing
          /\ held' = [held EXCEPT ![s] = IF pending["review"] # Nothing
                                       THEN pending["review"] ELSE pending["comment"]]
          /\ saw_open' = [saw_open EXCEPT ![s] = pr_open]
          /\ Goto(s, "look")
          /\ UNCHANGED news
      BY <1>2, <2>2 DEF ReadTicket
    <3>2. held' \in [Starters -> Feedbacks \union {Nothing}] /\ held'[s] \in Feedbacks
      BY <3>1 DEF TypeOK, Kinds
    <3>3. saw_open' \in [Starters -> BOOLEAN] /\ "look" \in STARTING
      BY <3>1 DEF TypeOK, STARTING
    <3>4. \A t \in Starters \ {s} : held'[t] = held[t]
      BY <3>1 DEF TypeOK
    <3>5. QED
      BY <1>2, <3>1, <3>2, <3>3, <3>4, StarterMoveType DEF ReadTicket, TypeOK, ticket
  <2>3. QED
    BY <2>1, <2>2
<1>3. CASE StillBusy(s)
  BY <1>3, ReturnType DEF StillBusy, TypeOK, ticket
<1>4. CASE NotBusy(s) \/ GetReview(s)
  <2>1. PICK to \in STARTING : Goto(s, to)
    BY <1>4 DEF NotBusy, GetReview, STARTING
  <2>2. held[s] \in Feedbacks
    BY <1>4 DEF NotBusy, GetReview, TypeOK
  <2>3. QED
    BY <1>4, <2>1, <2>2, StarterMoveType DEF NotBusy, GetReview, TypeOK, ticket, history
<1>5. CASE Drop(s)
  <2>1. /\ pending' \in [Kinds -> Feedbacks \union {Nothing}]
        /\ \A k \in Kinds : pending'[k] \in OfKind(k) \union {Nothing}
    BY <1>5 DEF Drop, TypeOK
  <2>2. QED
    BY <1>5, <2>1, ReturnType DEF Drop, TypeOK
<1>6. CASE Clear(s)
  <2>1. /\ pending' \in [Kinds -> Feedbacks \union {Nothing}]
        /\ \A k \in Kinds : pending'[k] \in OfKind(k) \union {Nothing}
    BY <1>6 DEF Clear, TypeOK
  <2>2. held[s] \in Feedbacks /\ Goto(s, "check")
    BY <1>6 DEF Clear, TypeOK
  <2>3. QED
    BY <1>6, <2>1, <2>2, StarterMoveType DEF Clear, TypeOK, history
<1>7. CASE PutBack(s) \/ _restore_pending(s)
  <2>1. held[s] \in Feedbacks
    BY <1>7 DEF PutBack, _restore_pending, TypeOK
  <2>2. /\ pending' \in [Kinds -> Feedbacks \union {Nothing}]
        /\ \A k \in Kinds : pending'[k] \in OfKind(k) \union {Nothing}
    BY <1>7, <2>1, KindType DEF PutBack, _restore_pending, TypeOK
  <2>3. QED
    BY <1>7, <2>2, ReturnType DEF PutBack, _restore_pending, TypeOK
<1>8. CASE GetReviewFails(s)
  <2>1. faults' \in 0..MaxFaults
    BY <1>8, FaultType DEF GetReviewFails
  <2>2. QED
    BY <1>8, <2>1, ReturnType DEF GetReviewFails, TypeOK, ticket
<1>9. QED
  BY <1>1, <1>2, <1>3, <1>4, <1>5, <1>6, <1>7, <1>8 DEF Start

\* Every step keeps the types.
LEMMA NextType == TypeOK /\ [Next]_vars => TypeOK'
<1> SUFFICES ASSUME TypeOK, [Next]_vars PROVE TypeOK'
  OBVIOUS
<1>1. CASE \E d \in Handlers : Deliver(d) \/ Park(d)
  BY <1>1, HandlerType
<1>2. CASE \E c \in Callers : Enqueue(c) \/ EnqueueFails(c)
  BY <1>2, EnqueueType
<1>3. CASE \E c \in Callers : Crash(c)
  <2>1. PICK c \in Callers : Crash(c)
    BY <1>3
  <2>2. faults' \in 0..MaxFaults
    BY <2>1, FaultType DEF Crash
  <2>3. QED
    BY <2>1, <2>2, ReturnType DEF Crash, TypeOK, ticket
<1>4. CASE \E s \in Starters : Beat(s) \/ Start(s) \/ GetReviewFails(s)
  BY <1>4, StarterType
<1>5. CASE RunEnds
  <2>1. CASE UNCHANGED pc
    BY <1>5, <2>1 DEF RunEnds, TypeOK, history
  <2>2. CASE \E w \in Workers : pc[w] = "idle" /\ Goto(w, "read")
    <3>1. PICK w \in Workers : Goto(w, "read")
      BY <2>2
    <3>2. pc'[w] = "read"
      BY <3>1 DEF Goto, TypeOK
    <3>3. QED
      BY <1>5, <3>1, <3>2, StarterMoveType DEF RunEnds, TypeOK, history
  <2>3. QED
    BY <1>5, <2>1, <2>2 DEF RunEnds
<1>6. CASE PullRequestCloses
  BY <1>6 DEF PullRequestCloses, TypeOK, history
<1>7. CASE UNCHANGED vars
  BY <1>7 DEF vars, ticket, history, TypeOK
<1>8. QED
  BY <1>1, <1>2, <1>3, <1>4, <1>5, <1>6, <1>7 DEF Next

\* Every variable keeps its type in every behaviour.
THEOREM TypeCorrect == Spec => []TypeOK
BY InitType, NextType, PTL DEF Spec

-----------------------------------------------------------------------------
(* Who is disturbed by a step *)

\* What a caller that returns leaves behind: nothing of its own, everything of the others.
LEMMA ReturnFrame ==
  ASSUME TypeOK, NEW c \in Callers, Return(c)
  PROVE  /\ pc'[c] = "idle"
         /\ c \in Starters => held'[c] = Nothing
         /\ \A d \in Callers \ {c} : pc'[d] = pc[d] /\ news'[d] = news[d]
         /\ \A s \in Starters \ {c} : held'[s] = held[s] /\ saw_open'[s] = saw_open[s]
BY DEF TypeOK, Return, Goto

\* What a caller that moves on changes: its own place.
LEMMA GotoFrame ==
  ASSUME TypeOK, NEW c \in Callers, NEW to, Goto(c, to)
  PROVE  /\ pc'[c] = to
         /\ \A d \in Callers \ {c} : pc'[d] = pc[d]
BY DEF TypeOK, Goto

-----------------------------------------------------------------------------
(* No feedback without a run to come *)

\* A starter drops what it read only if the pull request was closed by then; it is never
\* opened again.
ClosedWhenDropped ==
  \A s \in Starters :
    /\ pc[s] = "drop" => ~saw_open[s]
    /\ pc[s] \in {"look", "drop"} /\ ~saw_open[s] => ~pr_open

\* A step that leaves every starter outside "look" and "drop", or where it was, keeps it.
LEMMA DroppedFrame ==
  ASSUME ClosedWhenDropped, NEW c \in Callers,
         pc'[c] \notin {"look", "drop"},
         \A d \in Callers \ {c} : pc'[d] = pc[d],
         \A s \in Starters \ {c} : saw_open'[s] = saw_open[s],
         pr_open' => pr_open
  PROVE  ClosedWhenDropped'
BY DEF ClosedWhenDropped

\* Every step keeps it.
LEMMA DroppedStep == TypeOK /\ ClosedWhenDropped /\ [Next]_vars => ClosedWhenDropped'
<1> SUFFICES ASSUME TypeOK, ClosedWhenDropped, [Next]_vars PROVE ClosedWhenDropped'
  OBVIOUS
<1>1. ASSUME NEW c \in Callers, Return(c), UNCHANGED pr_open PROVE ClosedWhenDropped'
  BY <1>1, ReturnFrame, DroppedFrame
<1>2. ASSUME NEW c \in Callers, NEW to, to \notin {"look", "drop"}, Goto(c, to),
             UNCHANGED <<pr_open, saw_open>>
      PROVE  ClosedWhenDropped'
  BY <1>2, GotoFrame, DroppedFrame
<1>3. CASE \E d \in Handlers : Deliver(d)
  BY <1>3, <1>2 DEF Deliver
<1>4. CASE \E d \in Handlers : Park(d)
  BY <1>4, <1>1 DEF Park
<1>5. CASE \E c \in Callers : CheckActive(c) \/ InsertConflicts(c) \/ RereadActive(c)
  BY <1>5, <1>2 DEF CheckActive, InsertConflicts, RereadActive, ticket
<1>6. CASE \E c \in Callers : Insert(c) \/ EnqueueFails(c)
  BY <1>6, <1>2 DEF Insert, EnqueueFails
<1>7. CASE \E c \in Callers : HandOver(c) \/ Crash(c)
  BY <1>7, <1>1 DEF HandOver, Crash, ticket
<1>8. CASE \E s \in Starters : Beat(s) \/ GetReview(s) \/ Clear(s)
  BY <1>8, <1>2 DEF Beat, GetReview, Clear, ticket
<1>9. CASE \E s \in Starters : ReadTicket(s)
  <2>1. PICK s \in Starters : ReadTicket(s)
    BY <1>9
  <2>2. CASE Return(s)
    BY <2>1, <2>2, <1>1 DEF ReadTicket, ticket
  <2>3. CASE saw_open' = [saw_open EXCEPT ![s] = pr_open] /\ Goto(s, "look")
    <3>1. UNCHANGED pr_open /\ saw_open'[s] = pr_open /\ pc'[s] = "look"
      BY <2>1, <2>3, GotoFrame DEF ReadTicket, ticket, TypeOK
    <3>2. \A t \in Starters \ {s} : pc'[t] = pc[t] /\ saw_open'[t] = saw_open[t]
      BY <2>3, GotoFrame DEF TypeOK
    <3>3. QED
      BY <3>1, <3>2 DEF ClosedWhenDropped
  <2>4. QED
    BY <2>1, <2>2, <2>3 DEF ReadTicket
<1>10. CASE \E s \in Starters : NotBusy(s)
  <2>1. PICK s \in Starters : NotBusy(s)
    BY <1>10
  <2>2. \A t \in Starters \ {s} : pc'[t] = pc[t]
    BY <2>1, GotoFrame DEF NotBusy
  <2>3. /\ UNCHANGED <<pr_open, saw_open>> /\ pc[s] = "look"
        /\ pc'[s] = "drop" => ~saw_open[s]
    BY <2>1, GotoFrame DEF NotBusy, ticket
  <2>4. pc'[s] # "look"
    BY <2>1, GotoFrame DEF NotBusy
  <2>5. QED
    BY <2>2, <2>3, <2>4 DEF ClosedWhenDropped
<1>11. CASE \E s \in Starters : \/ StillBusy(s) \/ Drop(s) \/ PutBack(s)
                                \/ _restore_pending(s) \/ GetReviewFails(s)
  BY <1>11, <1>1 DEF StillBusy, Drop, PutBack, _restore_pending, GetReviewFails, ticket
<1>12. CASE RunEnds
  <2>1. CASE UNCHANGED pc
    BY <1>12, <2>1 DEF RunEnds, ClosedWhenDropped
  <2>2. CASE \E w \in Workers : Goto(w, "read")
    BY <1>12, <2>2, <1>2 DEF RunEnds
  <2>3. QED
    BY <1>12, <2>1, <2>2 DEF RunEnds
<1>13. CASE PullRequestCloses
  BY <1>13 DEF PullRequestCloses, ClosedWhenDropped
<1>14. CASE UNCHANGED vars
  BY <1>14 DEF vars, ticket, ClosedWhenDropped
<1>15. QED
  BY <1>3, <1>4, <1>5, <1>6, <1>7, <1>8, <1>9, <1>10, <1>11, <1>12, <1>13, <1>14
  DEF Next, Enqueue, Start

\* One piece of feedback, as FeedbackIsKept has it.
Kept(f) ==
  \/ f \in followed
  \/ pending[Kind(f)] # Nothing
  \/ \E c \in Callers : Carries(c, f)

\* A step of caller c keeps f if the column does not empty, or c carries f on, and what c
\* carried is followed, put on the ticket or carried on.
LEMMA KeptFrame ==
  ASSUME NEW c \in Callers, NEW f \in Feedbacks, Kept(f),
         \A d \in Callers \ {c} : pc'[d] = pc[d] /\ news'[d] = news[d],
         \A s \in Starters \ {c} : held'[s] = held[s],
         followed \subseteq followed',
         pending[Kind(f)] # Nothing => pending'[Kind(f)] # Nothing \/ Carries(c, f)',
         Carries(c, f) => f \in followed' \/ pending'[Kind(f)] # Nothing \/ Carries(c, f)'
  PROVE  Kept(f)'
<1>1. \A d \in Callers \ {c} : Carries(d, f) => Carries(d, f)'
  BY DEF Carries, Cause
<1>2. QED
  BY <1>1 DEF Kept

\* A step of enqueue_run hands its feedback on: to the caller's next place or to the run.
LEMMA KeptByEnqueue ==
  ASSUME TypeOK, NEW c \in Callers, Enqueue(c) \/ EnqueueFails(c),
         NEW f \in recorded \intersect Feedbacks, Kept(f)
  PROVE  Kept(f)'
<1> USE DEF TypeOK
<1>1. CASE CheckActive(c) \/ InsertConflicts(c) \/ RereadActive(c)
  <2>1. PICK to \in (ENQUEUEING \ {"hand"}) \union REFUSED : Goto(c, to)
    BY <1>1 DEF CheckActive, InsertConflicts, RereadActive, ENQUEUEING, REFUSED
  <2>2. UNCHANGED <<held, news, followed, pending>>
    BY <1>1 DEF CheckActive, InsertConflicts, RereadActive, ticket, history
  <2>3. Carries(c, f) => Carries(c, f)'
    BY <2>1, <2>2, GotoFrame DEF Carries, Cause
  <2>4. QED
    BY <2>1, <2>2, <2>3, GotoFrame, KeptFrame
<1>2. CASE Insert(c)
  <2>1. UNCHANGED <<held, followed, pending>> /\ Goto(c, "hand")
    BY <1>2 DEF Insert
  <2>2. Carries(c, f) => Carries(c, f)'
    <3>1. SUFFICES ASSUME Carries(c, f) PROVE Carries(c, f)'
      OBVIOUS
    <3>2. c \notin Asks /\ Kind(Cause(c)) = Kind(f)
      BY <3>1 DEF Carries
    <3>3. news'[c] = recorded \intersect OfKind(Kind(f))
      BY <1>2, <3>2 DEF Insert
    <3>4. f \in news'[c]
      BY <3>3, KindType
    <3>5. QED
      BY <2>1, <3>2, <3>4, GotoFrame DEF Carries, Cause
  <2>3. \A d \in Callers \ {c} : news'[d] = news[d]
    BY <1>2 DEF Insert
  <2>4. QED
    BY <2>1, <2>2, <2>3, GotoFrame, KeptFrame
<1>3. CASE HandOver(c)
  <2>1. Return(c) /\ UNCHANGED pending /\ followed' = followed \union news[c]
    BY <1>3 DEF HandOver, ticket
  <2>2. Carries(c, f) => f \in followed'
    BY <1>3, <2>1 DEF HandOver, Carries, ENQUEUEING, REFUSED
  <2>3. QED
    BY <2>1, <2>2, ReturnFrame, KeptFrame
<1>4. CASE EnqueueFails(c)
  <2>1. UNCHANGED <<held, followed, pending>> /\ Goto(c, "failed")
    BY <1>4 DEF EnqueueFails
  <2>2. Carries(c, f) => Carries(c, f)'
    BY <2>1, GotoFrame DEF Carries, Cause, REFUSED
  <2>3. \A d \in Callers \ {c} : news'[d] = news[d]
    BY <1>4 DEF EnqueueFails
  <2>4. QED
    BY <2>1, <2>2, <2>3, GotoFrame, KeptFrame
<1>5. QED
  BY <1>1, <1>2, <1>3, <1>4 DEF Enqueue

\* A starter returns before it has cleared the column, or carries what it took off it, or
\* puts feedback back on it.
LEMMA KeptByStarter ==
  ASSUME TypeOK, ClosedWhenDropped, pr_open, NEW s \in Starters,
         Beat(s) \/ Start(s) \/ GetReviewFails(s),
         NEW f \in recorded \intersect Feedbacks, Kept(f)
  PROVE  Kept(f)'
<1> USE DEF TypeOK
<1>1. ASSUME Return(s), UNCHANGED <<followed, pending>>, ~Carries(s, f)
      PROVE  Kept(f)'
  BY <1>1, ReturnFrame, KeptFrame
<1>2. ASSUME NEW to, Goto(s, to), UNCHANGED <<news, followed, pending>>, ~Carries(s, f),
             \A t \in Starters \ {s} : held'[t] = held[t]
      PROVE  Kept(f)'
  BY <1>2, GotoFrame, KeptFrame
<1>3. pc[s] \in {"idle"} \union STARTING => ~Carries(s, f)
  BY DEF Carries, ENQUEUEING, REFUSED, STARTING
<1>4. CASE Beat(s) \/ NotBusy(s) \/ GetReview(s)
  <2>1. pc[s] \in {"idle"} \union STARTING
    BY <1>4 DEF Beat, NotBusy, GetReview, STARTING
  <2>2. UNCHANGED <<news, followed, pending, held>> /\ \E to : Goto(s, to)
    BY <1>4 DEF Beat, NotBusy, GetReview, ticket, history
  <2>3. QED
    BY <2>1, <2>2, <1>2, <1>3
<1>5. CASE ReadTicket(s)
  <2>1. pc[s] \in STARTING /\ UNCHANGED <<followed, pending>>
    BY <1>5 DEF ReadTicket, STARTING, ticket
  <2>2. CASE Return(s)
    BY <2>1, <2>2, <1>1, <1>3
  <2>3. CASE ~Return(s)
    <3>1. Goto(s, "look") /\ UNCHANGED news /\ \A t \in Starters \ {s} : held'[t] = held[t]
      BY <1>5, <2>3 DEF ReadTicket
    <3>2. QED
      BY <2>1, <3>1, <1>2, <1>3
  <2>4. QED
    BY <2>2, <2>3
<1>6. CASE StillBusy(s) \/ GetReviewFails(s)
  <2>1. pc[s] \in STARTING /\ UNCHANGED <<followed, pending>> /\ Return(s)
    BY <1>6 DEF StillBusy, GetReviewFails, STARTING, ticket
  <2>2. QED
    BY <2>1, <1>1, <1>3
<1>7. CASE Drop(s)
  BY <1>7 DEF Drop, ClosedWhenDropped
<1>8. CASE Clear(s)
  <2>1. UNCHANGED <<news, followed, held>> /\ Goto(s, "check") /\ pc[s] \in STARTING
    BY <1>8 DEF Clear, history, STARTING
  <2>2. pending' = [pending EXCEPT ![Kind(held[s])] = Nothing]
    BY <1>8 DEF Clear
  <2>3. s \notin Asks
    BY CallerAssumption
  <2>4. CASE Kind(held[s]) = Kind(f)
    <3>1. Carries(s, f)'
      BY <2>1, <2>3, <2>4, GotoFrame DEF Carries, Cause, ENQUEUEING
    <3>2. QED
      BY <2>1, <3>1, GotoFrame, KeptFrame
  <2>5. CASE Kind(held[s]) # Kind(f)
    <3>1. pending'[Kind(f)] = pending[Kind(f)]
      BY <2>2, <2>5, KindType
    <3>2. QED
      BY <2>1, <3>1, <1>3, GotoFrame, KeptFrame
  <2>6. QED
    BY <2>4, <2>5
<1>9. CASE PutBack(s) \/ _restore_pending(s)
  <2>1. UNCHANGED followed /\ Return(s) /\ held[s] \in Feedbacks /\ pc[s] \in REFUSED
    BY <1>9 DEF PutBack, _restore_pending, REFUSED
  <2>2. /\ pending'[Kind(held[s])] # Nothing
        /\ \A k \in Kinds : pending[k] # Nothing => pending'[k] # Nothing
    BY <1>9, <2>1, KindType, CallerAssumption DEF PutBack, _restore_pending
  <2>3. Carries(s, f) => Kind(held[s]) = Kind(f)
    BY DEF Carries, Cause
  <2>4. QED
    BY <2>1, <2>2, <2>3, KindType, ReturnFrame, KeptFrame
<1>10. QED
  BY <1>4, <1>5, <1>6, <1>7, <1>8, <1>9 DEF Start

\* A handler has what it recorded in hand, and parks it before it returns.
LEMMA KeptByHandler ==
  ASSUME TypeOK, FeedbackIsKept, pr_open, NEW d \in Handlers, Deliver(d) \/ Park(d),
         NEW f \in recorded' \intersect Feedbacks
  PROVE  Kept(f)'
<1> USE DEF TypeOK
<1>1. f \in recorded => Kept(f)
  BY DEF FeedbackIsKept, Kept
<1>2. CASE Deliver(d)
  <2>1. UNCHANGED <<news, followed, pending, held>> /\ Goto(d, "check") /\ pc[d] = "idle"
    BY <1>2 DEF Deliver
  <2>2. CASE f \in recorded
    <3>1. ~Carries(d, f)
      BY <2>1 DEF Carries, ENQUEUEING, REFUSED
    <3>2. QED
      BY <2>1, <2>2, <3>1, <1>1, GotoFrame, KeptFrame
  <2>3. CASE f \notin recorded
    <3>1. f = d
      BY <1>2, <2>3 DEF Deliver
    <3>2. Carries(d, f)'
      BY <2>1, <3>1, GotoFrame, CallerAssumption DEF Carries, Cause, ENQUEUEING
    <3>3. QED
      BY <3>2 DEF Kept
  <2>4. QED
    BY <2>2, <2>3
<1>3. CASE Park(d)
  <2>1. Return(d) /\ UNCHANGED <<recorded, followed>>
    BY <1>3 DEF Park
  <2>2. Carries(d, f) => pending'[Kind(f)] # Nothing
    BY <1>3, KindType, CallerAssumption DEF Park, _park_feedback, Carries, Cause
  <2>3. pending[Kind(f)] # Nothing => pending'[Kind(f)] # Nothing
    BY <1>3, KindType, CallerAssumption DEF Park, _park_feedback
  <2>4. QED
    BY <2>1, <2>2, <2>3, <1>1, ReturnFrame, KeptFrame
<1>4. QED
  BY <1>2, <1>3

\* FeedbackIsKept, and what its induction needs.
KeptInv == TypeOK /\ ClosedWhenDropped /\ FeedbackIsKept

\* Every step of a system whose processes do not die keeps it.
LEMMA KeptStep ==
  ASSUME "crash" \notin Faults, KeptInv, [Next]_vars
  PROVE  KeptInv'
<1>1. TypeOK' /\ ClosedWhenDropped'
  BY NextType, DroppedStep DEF KeptInv
<1>2. SUFFICES ASSUME pr_open', NEW f \in recorded' \intersect Feedbacks PROVE Kept(f)'
  BY <1>1 DEF KeptInv, FeedbackIsKept, Kept
<1> USE DEF KeptInv
<1>3. CASE \E d \in Handlers : Deliver(d) \/ Park(d)
  BY <1>2, <1>3, KeptByHandler DEF Deliver, Park
<1>4. CASE \E c \in Callers : Enqueue(c) \/ EnqueueFails(c)
  <2>1. UNCHANGED <<recorded, pr_open>>
    BY <1>4 DEF Enqueue, CheckActive, Insert, InsertConflicts, RereadActive, HandOver,
                EnqueueFails, ticket
  <2>2. f \in recorded /\ Kept(f)
    BY <1>2, <2>1 DEF FeedbackIsKept, Kept
  <2>3. QED
    BY <1>4, <2>2, KeptByEnqueue
<1>5. CASE \E c \in Callers : Crash(c)
  BY <1>5 DEF Crash, Fault
<1>6. CASE \E s \in Starters : Beat(s) \/ Start(s) \/ GetReviewFails(s)
  <2>1. UNCHANGED <<recorded, pr_open>>
    BY <1>6 DEF Start, Beat, ReadTicket, StillBusy, NotBusy, Drop, GetReview, Clear, PutBack,
                _restore_pending, GetReviewFails, ticket
  <2>2. pr_open /\ f \in recorded /\ Kept(f)
    BY <1>2, <2>1 DEF FeedbackIsKept, Kept
  <2>3. QED
    BY <1>6, <2>2, KeptByStarter
<1>7. CASE RunEnds
  <2>1. /\ UNCHANGED <<recorded, pending, pr_open, held, news, followed>>
        /\ Kept(f)
    BY <1>2, <1>7 DEF RunEnds, history, FeedbackIsKept, Kept
  <2>2. CASE UNCHANGED pc
    BY <2>1, <2>2 DEF Kept, Carries, Cause
  <2>3. CASE \E w \in Workers : pc[w] = "idle" /\ Goto(w, "read")
    <3>1. PICK w \in Workers : pc[w] = "idle" /\ Goto(w, "read")
      BY <2>3
    <3>2. ~Carries(w, f)
      BY <3>1 DEF Carries, ENQUEUEING, REFUSED
    <3>3. QED
      BY <2>1, <3>1, <3>2, GotoFrame, KeptFrame
  <2>4. QED
    BY <1>7, <2>2, <2>3 DEF RunEnds
<1>8. CASE PullRequestCloses
  BY <1>2, <1>8 DEF PullRequestCloses
<1>9. CASE UNCHANGED vars
  BY <1>2, <1>9 DEF vars, ticket, history, FeedbackIsKept, Kept, Carries, Cause
<1>10. QED
  BY <1>3, <1>4, <1>5, <1>6, <1>7, <1>8, <1>9 DEF Next

\* However many reviews, comments, workers and reapers there are, and however often the
\* broker and GitHub fail: if no process dies between two commits, feedback on an open pull
\* request is followed by a run of its kind, or one is still to come.
THEOREM FeedbackStaysKept ==
  ASSUME "crash" \notin Faults
  PROVE  Spec => []FeedbackIsKept
<1>1. Init => KeptInv
  BY InitType DEF KeptInv, Init, ClosedWhenDropped, FeedbackIsKept
<1>2. KeptInv /\ [Next]_vars => KeptInv'
  BY KeptStep
<1>3. KeptInv => FeedbackIsKept
  BY DEF KeptInv
<1>4. QED
  BY <1>1, <1>2, <1>3, PTL DEF Spec

-----------------------------------------------------------------------------
(* Nothing is addressed twice *)

\* Neither waiting on the ticket nor read by a starter.
Away(f) == pending[Kind(f)] # f /\ \A s \in Starters : held[s] # f

\* A piece of feedback is in one place at a time: not delivered yet, in its handler's
\* hands, waiting on the ticket, with the starter that took it off, or addressed.
OncePer(f) ==
  /\ f \notin recorded => pc[f] = "idle"
  /\ f \notin recorded \/ pc[f] # "idle" => served[f] = 0
  /\ f \notin recorded \/ pc[f] # "idle" \/ served[f] > 0 => Away(f)
  /\ \A s \in Starters :
       held[s] = f /\ pc[s] \in ENQUEUEING \union REFUSED => pending[Kind(f)] # f
  /\ served[f] <= 1

OnceInv == TypeOK /\ \A f \in Feedbacks : OncePer(f)

\* A step after which everything of f is as before, except that starters may have let go
\* of it and a handler may have returned.
LEMMA OnceFrame ==
  ASSUME NEW f \in Feedbacks, OncePer(f),
         f \notin recorded' => f \notin recorded,
         pc'[f] # "idle" => pc[f] # "idle",
         pending'[Kind(f)] = f => pending[Kind(f)] = f,
         \A s \in Starters :
           held'[s] = f => /\ held[s] = f
                           /\ pc'[s] \in ENQUEUEING \union REFUSED =>
                                \/ pc[s] \in ENQUEUEING \union REFUSED
                                \/ pending'[Kind(f)] # f,
         served'[f] = served[f]
  PROVE  OncePer(f)'
BY DEF OncePer, Away

\* A step of a caller that returns and puts nothing on the ticket.
LEMMA OnceReturn ==
  ASSUME TypeOK, NEW c \in Callers, Return(c), UNCHANGED recorded,
         NEW f \in Feedbacks, OncePer(f), served'[f] = served[f],
         pending'[Kind(f)] = f => pending[Kind(f)] = f
  PROVE  OncePer(f)'
<1>1. pc'[f] # "idle" => pc[f] # "idle"
  BY ReturnFrame
<1>2. \A s \in Starters : held'[s] = f => held[s] = f /\ pc'[s] = pc[s]
  BY ReturnFrame, CallerAssumption
<1>3. QED
  BY <1>1, <1>2, OnceFrame

\* A step of a caller that moves on, though not into enqueue_run.
LEMMA OnceMove ==
  ASSUME TypeOK, NEW c \in Callers, NEW to, Goto(c, to),
         c \in Handlers => pc[c] # "idle",
         c \in Starters => \/ pc[c] \in ENQUEUEING \union REFUSED
                           \/ to \notin ENQUEUEING \union REFUSED,
         UNCHANGED <<recorded, pending, held, served>>,
         NEW f \in Feedbacks, OncePer(f)
  PROVE  OncePer(f)'
<1>1. pc'[f] # "idle" => pc[f] # "idle"
  BY GotoFrame, CallerAssumption
<1>2. \A s \in Starters : pc'[s] \in ENQUEUEING \union REFUSED =>
                            pc[s] \in ENQUEUEING \union REFUSED
  BY GotoFrame
<1>3. QED
  BY <1>1, <1>2, OnceFrame

\* Every step of a system with one starter at most keeps OnceInv.
LEMMA OnceStep ==
  ASSUME \A s, t \in Starters : s = t, OnceInv, [Next]_vars
  PROVE  OnceInv'
<1>1. TypeOK'
  BY NextType DEF OnceInv
<1>2. SUFFICES ASSUME NEW f \in Feedbacks PROVE OncePer(f)'
  BY <1>1 DEF OnceInv
<1>3. TypeOK /\ OncePer(f)
  BY DEF OnceInv
<1>4. CASE \E d \in Handlers : Deliver(d)
  <2>1. PICK d \in Handlers : Deliver(d)
    BY <1>4
  <2>2. UNCHANGED <<pending, held, served>> /\ d \notin recorded
    BY <2>1 DEF Deliver, record_delivery
  <2>3. recorded' = recorded \union {d} /\ Goto(d, "check")
    BY <2>1 DEF Deliver
  <2>4. \A s \in Starters : pc'[s] = pc[s]
    BY <1>3, <2>3, GotoFrame, CallerAssumption
  <2>5. CASE f = d
    BY <1>3, <2>2, <2>3, <2>4, <2>5 DEF OncePer, Away
  <2>6. CASE f # d
    <3>1. pc'[f] = pc[f] /\ (f \notin recorded' => f \notin recorded)
      BY <1>3, <2>3, <2>6, GotoFrame
    <3>2. QED
      BY <1>3, <2>2, <2>4, <3>1, OnceFrame
  <2>7. QED
    BY <2>5, <2>6
<1>5. CASE \E d \in Handlers : Park(d)
  <2>1. PICK d \in Handlers : Park(d)
    BY <1>5
  <2>2. Return(d) /\ UNCHANGED <<recorded, served>> /\ pc[d] # "idle"
    BY <2>1 DEF Park, REFUSED
  <2>3. CASE f = d
    <3>1. f \in recorded /\ served[f] = 0 /\ Away(f)
      BY <1>3, <2>2, <2>3 DEF OncePer
    <3>2. pc'[f] = "idle" /\ \A s \in Starters : held'[s] = held[s]
      BY <1>3, <2>2, <2>3, ReturnFrame, CallerAssumption
    <3>3. QED
      BY <2>2, <3>1, <3>2 DEF OncePer, Away
  <2>4. CASE f # d
    <3>1. pending'[Kind(f)] = f => pending[Kind(f)] = f
      BY <1>3, <2>1, <2>4, KindType DEF Park, _park_feedback, TypeOK
    <3>2. QED
      BY <1>3, <2>2, <3>1, OnceReturn
  <2>5. QED
    BY <2>3, <2>4
<1>6. CASE \E c \in Callers : \/ CheckActive(c) \/ Insert(c) \/ InsertConflicts(c)
                              \/ RereadActive(c) \/ EnqueueFails(c)
  <2>1. PICK c \in Callers : \/ CheckActive(c) \/ Insert(c) \/ InsertConflicts(c)
                             \/ RereadActive(c) \/ EnqueueFails(c)
    BY <1>6
  <2>2. UNCHANGED <<recorded, pending, held, served>> /\ \E to : Goto(c, to)
    BY <2>1 DEF CheckActive, Insert, InsertConflicts, RereadActive, EnqueueFails, ticket,
                history
  <2>3. pc[c] # "idle" /\ pc[c] \in ENQUEUEING
    BY <2>1 DEF CheckActive, Insert, InsertConflicts, RereadActive, EnqueueFails, ENQUEUEING
  <2>4. QED
    BY <1>3, <2>2, <2>3, OnceMove
<1>7. CASE \E c \in Callers : HandOver(c)
  <2>1. PICK c \in Callers : HandOver(c)
    BY <1>7
  <2>2. Return(c) /\ UNCHANGED <<recorded, pending>> /\ pc[c] = "hand"
    BY <2>1 DEF HandOver, ticket
  <2>3. CASE f # Cause(c)
    <3>1. served'[f] = served[f]
      BY <2>1, <2>3 DEF HandOver
    <3>2. QED
      BY <1>3, <2>2, <3>1, OnceReturn
  <2>4. CASE f = Cause(c)
    <3>1. /\ served[f] = 0 /\ pending[Kind(f)] # f /\ f \in recorded
          /\ c \in Handlers => \A s \in Starters : held[s] # f
      <4>1. CASE c \in Starters
        BY <1>3, <2>2, <2>4, <4>1, CallerAssumption
        DEF Cause, OncePer, Away, TypeOK, ENQUEUEING
      <4>2. CASE c \in Handlers
        BY <1>3, <2>2, <2>4, <4>2, CallerAssumption DEF Cause, OncePer, Away
      <4>3. QED
        BY <4>1, <4>2
    <3>2. \A s \in Starters : held'[s] # f
      BY <1>3, <2>2, <3>1, ReturnFrame, CallerAssumption
    <3>3. pc'[f] = "idle"
      <4>1. CASE c \in Starters
        BY <1>3, <2>2, <2>4, <4>1, ReturnFrame, CallerAssumption
        DEF Cause, OncePer, Away, TypeOK
      <4>2. CASE c \in Handlers
        BY <1>3, <2>2, <2>4, <4>2, ReturnFrame, CallerAssumption DEF Cause
      <4>3. QED
        BY <4>1, <4>2
    <3>4. served'[f] = 1
      BY <2>1, <2>4, <3>1 DEF HandOver
    <3>5. QED
      BY <2>2, <3>1, <3>2, <3>3, <3>4 DEF OncePer, Away
  <2>5. QED
    BY <2>3, <2>4
<1>8. CASE \E c \in Callers : Crash(c)
  BY <1>3, <1>8, OnceReturn DEF Crash, ticket
<1>9. CASE \E s \in Starters : Beat(s) \/ NotBusy(s) \/ GetReview(s)
  <2>1. PICK s \in Starters : Beat(s) \/ NotBusy(s) \/ GetReview(s)
    BY <1>9
  <2>2. UNCHANGED <<recorded, pending, held, served>>
    BY <2>1 DEF Beat, NotBusy, GetReview, ticket, history
  <2>3. PICK to : Goto(s, to) /\ to \notin ENQUEUEING \union REFUSED
    BY <2>1 DEF Beat, NotBusy, GetReview, ENQUEUEING, REFUSED
  <2>4. QED
    BY <1>3, <2>2, <2>3, OnceMove, CallerAssumption
<1>10. CASE \E s \in Starters : ReadTicket(s)
  <2>1. PICK s \in Starters : ReadTicket(s)
    BY <1>10
  <2>2. UNCHANGED <<recorded, pending, served>>
    BY <2>1 DEF ReadTicket, ticket
  <2>3. CASE Return(s)
    BY <1>3, <2>2, <2>3, OnceReturn
  <2>4. CASE ~Return(s)
    <3>1. /\ held' = [held EXCEPT ![s] = IF pending["review"] # Nothing
                                       THEN pending["review"] ELSE pending["comment"]]
          /\ \E k \in Kinds : pending[k] # Nothing
          /\ Goto(s, "look")
      BY <2>1, <2>4 DEF ReadTicket
    <3>2. PICK k \in Kinds : pending[k] # Nothing /\ held'[s] = pending[k]
      BY <1>3, <3>1 DEF TypeOK, Kinds
    <3>3. held'[s] = f => pending[Kind(f)] = f
      BY <1>3, <3>2, ColumnType, CallerAssumption DEF TypeOK
    <3>4. \A t \in Starters : t = s
      OBVIOUS
    <3>5. pc'[s] \notin ENQUEUEING \union REFUSED /\ pc'[f] = pc[f]
      BY <1>3, <3>1, GotoFrame, CallerAssumption DEF ENQUEUEING, REFUSED
    <3>6. QED
      BY <1>3, <2>2, <3>3, <3>4, <3>5 DEF OncePer, Away
  <2>5. QED
    BY <2>3, <2>4
<1>11. CASE \E s \in Starters : StillBusy(s) \/ Drop(s) \/ GetReviewFails(s)
  <2>1. PICK s \in Starters : StillBusy(s) \/ Drop(s) \/ GetReviewFails(s)
    BY <1>11
  <2>2. Return(s) /\ UNCHANGED <<recorded, served>>
    BY <2>1 DEF StillBusy, Drop, GetReviewFails, ticket
  <2>3. pending'[Kind(f)] = f => pending[Kind(f)] = f
    BY <1>3, <2>1, KindType, CallerAssumption
    DEF StillBusy, Drop, GetReviewFails, ticket, TypeOK
  <2>4. QED
    BY <1>3, <2>2, <2>3, OnceReturn
<1>12. CASE \E s \in Starters : Clear(s)
  <2>1. PICK s \in Starters : Clear(s)
    BY <1>12
  <2>2. UNCHANGED <<recorded, held, served>> /\ Goto(s, "check")
    BY <2>1 DEF Clear, history
  <2>3. pending' = [pending EXCEPT ![Kind(held[s])] = Nothing]
    BY <2>1 DEF Clear
  <2>4. pending'[Kind(f)] = f => pending[Kind(f)] = f /\ held[s] # f
    BY <1>3, <2>3, KindType, CallerAssumption DEF TypeOK
  <2>5. pc'[f] = pc[f] /\ \A t \in Starters : t = s
    BY <1>3, <2>2, GotoFrame, CallerAssumption
  <2>6. QED
    BY <1>3, <2>2, <2>4, <2>5, OnceFrame
<1>13. CASE \E s \in Starters : PutBack(s) \/ _restore_pending(s)
  <2>1. PICK s \in Starters : PutBack(s) \/ _restore_pending(s)
    BY <1>13
  <2>2. Return(s) /\ UNCHANGED <<recorded, served>> /\ held[s] \in Feedbacks
    BY <1>3, <2>1 DEF PutBack, _restore_pending, TypeOK
  <2>3. CASE f = held[s]
    <3>1. f \in recorded /\ pc[f] = "idle" /\ served[f] = 0
      BY <1>3, <2>3 DEF OncePer, Away, TypeOK
    <3>2. held'[s] = Nothing /\ pc'[f] = "idle" /\ \A t \in Starters : t = s
      BY <1>3, <2>2, <3>1, ReturnFrame
    <3>3. QED
      BY <2>2, <3>1, <3>2, CallerAssumption DEF OncePer, Away
  <2>4. CASE f # held[s]
    <3>1. pending'[Kind(f)] = f => pending[Kind(f)] = f
      BY <1>3, <2>1, <2>2, <2>4, KindType DEF PutBack, _restore_pending, TypeOK
    <3>2. QED
      BY <1>3, <2>2, <3>1, OnceReturn
  <2>5. QED
    BY <2>3, <2>4
<1>14. CASE RunEnds
  <2>1. UNCHANGED <<recorded, pending, held, served>>
    BY <1>14 DEF RunEnds, history
  <2>2. CASE UNCHANGED pc
    BY <1>3, <2>1, <2>2, OnceFrame
  <2>3. CASE \E w \in Workers : Goto(w, "read")
    BY <1>3, <2>1, <2>3, OnceMove, CallerAssumption DEF ENQUEUEING, REFUSED
  <2>4. QED
    BY <1>14, <2>2, <2>3 DEF RunEnds
<1>15. CASE PullRequestCloses \/ UNCHANGED vars
  BY <1>3, <1>15, OnceFrame DEF PullRequestCloses, vars, ticket, history
<1>16. QED
  BY <1>4, <1>5, <1>6, <1>7, <1>8, <1>9, <1>10, <1>11, <1>12, <1>13, <1>14, <1>15
  DEF Next, Enqueue, Start

\* However many reviews and comments there are, however often each is delivered, and
\* whatever fails or dies: with one starter at work, none gets two runs of its own.
THEOREM NothingIsAddressedTwice ==
  ASSUME \A s, t \in Starters : s = t
  PROVE  Spec => []AddressedOnce
<1>1. Init => OnceInv
  BY InitType, KindType, CallerAssumption DEF OnceInv, Init, OncePer, Away
<1>2. OnceInv /\ [Next]_vars => OnceInv'
  BY OnceStep
<1>3. OnceInv => AddressedOnce
  BY DEF OnceInv, OncePer, AddressedOnce
<1>4. QED
  BY <1>1, <1>2, <1>3, PTL DEF Spec
=============================================================================
