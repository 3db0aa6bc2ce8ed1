--------------------------- MODULE TicketCreation ---------------------------
(***************************************************************************)
(* POST /api/tickets (api/tickets.py, tickets/creation.py): idempotency    *)
(* keys, triage, the GitHub issue, its comment and the ticket, in the API  *)
(* process that all requests share, and the pruning of keys.  A request    *)
(* creates at most one issue, which goes by the request's name.  The first *)
(* run of a ticket is queued by enqueue_run, RunExecution's subject.       *)
(***************************************************************************)
EXTENDS GitHubClient, FiniteSets

CONSTANTS
  Keys,        \* Idempotency-Keys
  NoKey,
  Bodies,      \* request bodies, up to their hash
  Triaged,     \* those that ask for triage
  Keyless,     \* those that are also sent without a key
  MaxFaults,   \* how many things go wrong at most
  FaultKinds   \* of "github", "token", "crash", "triage", "comment"

Requests == Callers

\* Whoever is nobody sends nothing, no key is the absence of one, and requests are countable.
ASSUME CreationAssumption ==
  /\ NoOne \notin Requests /\ NoKey \notin Keys
  /\ IsFiniteSet(Requests) /\ MaxFaults \in Nat

VARIABLES
  sent,        \* each request's key and body
  pc,          \* the step its handler is at
  keys,        \* ticket_creations: by whom a key is reserved or answered
  issues,      \* on GitHub
  tickets,     \* the issues that have a ticket
  answer,
  filed,       \* history: the issues made under each key since it was pruned
  faults

vars == <<client, sent, pc, keys, issues, tickets, answer, filed, faults>>

Answer(code, i) == [code |-> code, issue |-> i]
NoAnswer == Answer(0, NoOne)

Free == [status |-> "free", body |-> NoKey, by |-> NoOne]
Row(q, status) == [status |-> status, body |-> sent[q].body, by |-> q]

Init ==
  /\ ClientInit
  /\ sent = [q \in Requests |-> [key |-> NoKey, body |-> NoKey]]
  /\ pc = [q \in Requests |-> "unsent"]
  /\ answer = [q \in Requests |-> NoAnswer]
  /\ keys = [k \in Keys |-> Free]
  /\ issues = {} /\ filed = [k \in Keys |-> {}] /\ tickets = {} /\ faults = 0

Fault(kind) == kind \in FaultKinds /\ faults < MaxFaults /\ faults' = faults + 1

Goto(q, step) == pc' = [pc EXCEPT ![q] = step]
Reply(q, code, i) == Goto(q, "done") /\ answer' = [answer EXCEPT ![q] = Answer(code, i)]
EndCall(q) == Update(q, NoCall) /\ UNCHANGED <<cached, aged, lock, minted, revoked>>
InProgress(q) == pc[q] \notin {"unsent", "done"}

-----------------------------------------------------------------------------
(* The idempotency key. *)

\* A client sends a request; it may be a retry of one it no longer waits for.
Send(q) ==
  /\ pc[q] = "unsent"
  /\ \E k \in Keys \union {NoKey}, b \in Bodies :
       /\ k = NoKey => b \in Keyless
       /\ sent' = [sent EXCEPT ![q] = [key |-> k, body |-> b]]
  /\ Goto(q, IF sent'[q].key = NoKey THEN "check" ELSE "reserve")
  /\ UNCHANGED <<client, answer, keys, issues, filed, tickets, faults>>

\* Wrong: a key that is reserved is taken over.
TakesOver(row) == row.status # "answered"

MayReserve(row) == row.status = "free"

\* _reserve_key: the key is inserted in a transaction of its own, ...
Reserve(q) ==
  /\ pc[q] = "reserve"
  /\ \/ /\ MayReserve(keys[sent[q].key])
        /\ keys' = [keys EXCEPT ![sent[q].key] = Row(q, "reserved")]
        /\ Goto(q, "check")
     \/ /\ ~MayReserve(keys[sent[q].key])
        /\ Goto(q, "earlier") /\ UNCHANGED keys
  /\ UNCHANGED <<client, sent, answer, issues, filed, tickets, faults>>

\* Wrong: any earlier attempt answers.
AnyBody(q, row) == FALSE

OtherBody(q, row) == row.body # sent[q].body

\* ... or the earlier attempt is looked up in the next; `assert earlier is not None' fails when
\* it has freed the key in between.
LookUp(q) ==
  /\ pc[q] = "earlier"
  /\ LET row == keys[sent[q].key]
     IN  \/ row.status = "free" /\ Reply(q, 500, NoOne)
         \/ row.status # "free" /\ OtherBody(q, row) /\ Reply(q, 422, NoOne)
         \/ row.status = "reserved" /\ ~OtherBody(q, row) /\ Reply(q, 409, NoOne)
         \/ row.status = "answered" /\ ~OtherBody(q, row) /\ Reply(q, 201, row.by)
  /\ UNCHANGED <<client, sent, keys, issues, filed, tickets, faults>>

\* Wrong: a failed attempt keeps its key.
KeepsKey(q) == UNCHANGED keys

FreesKey(q) == keys' = [k \in Keys |-> IF k = sent[q].key THEN Free ELSE keys[k]]

\* A TicketCreationError, a TriageError or an HTTPStatusError.
Refuse(q, code) ==
  /\ FreesKey(q)
  /\ Reply(q, code, NoOne)
  /\ UNCHANGED <<sent, issues, filed, tickets>>

\* Any other exception: a 500, and the key stays.
Break(q) ==
  /\ Reply(q, 500, NoOne)
  /\ UNCHANGED <<sent, keys, issues, filed, tickets>>

-----------------------------------------------------------------------------
(* create_ticket. *)

\* The next call to GitHub.
CallNext(q, step) ==
  /\ Goto(q, step) /\ Begin(q)
  /\ UNCHANGED <<sent, answer, keys, issues, filed, tickets, faults>>

\* The repository is not connected, or there are no credentials for triage.
Check(q) ==
  /\ pc[q] = "check"
  /\ \/ /\ Fault("triage")
        /\ Refuse(q, 404) \/ (sent[q].body \in Triaged /\ Refuse(q, 503))
        /\ UNCHANGED client
     \/ CallNext(q, "labels")

CALLS == {"labels", "label", "issue", "comment"}

\* GitHub has the issue.
CreateIssue(q) ==
  /\ issues' = issues \union {q}
  /\ filed' = [k \in Keys |-> IF k = sent[q].key THEN filed[k] \union {q} ELSE filed[k]]

\* A call that fails may have been carried out all the same.
Calling(q) ==
  /\ pc[q] \in CALLS
  /\ \/ LockAndLook(q) /\ UNCHANGED <<issues, filed, faults>>
     \/ Minted(q) /\ UNCHANGED <<issues, filed, faults>>
     \/ MintFails(q) /\ Fault("github") /\ UNCHANGED <<issues, filed>>
     \/ Unauthorized(q) /\ UNCHANGED <<issues, filed, faults>>
     \/ RateLimited(q) /\ Fault("github") /\ UNCHANGED <<issues, filed>>
     \/ WaitEnds(q) /\ UNCHANGED <<issues, filed, faults>>
     \/ /\ Answers(q) /\ UNCHANGED faults
        /\ IF pc[q] = "issue" THEN CreateIssue(q) ELSE UNCHANGED <<issues, filed>>
     \/ /\ Fails(q) /\ Fault(IF pc[q] = "comment" THEN "comment" ELSE "github")
        /\ \/ UNCHANGED <<issues, filed>>
           \/ pc[q] = "issue" /\ CreateIssue(q)
  /\ UNCHANGED <<sent, pc, answer, keys, tickets>>

\* What follows an answer: missing labels are created, triage may have a question to ask.
Proceed(q) ==
  /\ pc[q] \in CALLS /\ call[q].outcome = "ok"
  /\ LET question == pc[q] = "issue" /\ sent[q].body \in Triaged
     IN  \/ /\ pc[q] = "labels" /\ sent[q].body \in Triaged
            /\ Goto(q, "triage") /\ EndCall(q)
            /\ UNCHANGED <<sent, answer, keys, issues, filed, tickets, faults>>
         \/ /\ pc[q] = "labels" /\ sent[q].body \notin Triaged
            /\ CallNext(q, "label") \/ CallNext(q, "issue")
         \/ pc[q] = "label" /\ CallNext(q, "issue")
         \/ question /\ CallNext(q, "comment")
         \/ /\ pc[q] \in {"issue", "comment"}
            /\ Goto(q, "store") /\ EndCall(q)
            /\ UNCHANGED <<sent, answer, keys, issues, filed, tickets, faults>>

CallFailed(q) ==
  /\ pc[q] \in CALLS
  /\ \/ call[q].outcome \in {"status", "unauthorized"} /\ Refuse(q, 502)
     \/ call[q].outcome = "error" /\ Break(q)
  /\ EndCall(q) /\ UNCHANGED faults

\* The model's answer is an issue.
Validated(q) == CallNext(q, "label") \/ CallNext(q, "issue")

\* No result, invalid JSON or fields out of range: it is asked once more.
Malformed(q) ==
  /\ Fault("triage")
  /\ IF pc[q] = "triage"
       THEN /\ Goto(q, "triage again")
            /\ UNCHANGED <<client, sent, answer, keys, issues, filed, tickets>>
       ELSE Refuse(q, 502) /\ UNCHANGED client

\* A refusal, a limit, a rejected credential or a timeout is final.
TriageFails(q) == Fault("triage") /\ Refuse(q, 502) /\ UNCHANGED client

Triage(q) ==
  /\ pc[q] \in {"triage", "triage again"}
  /\ Validated(q) \/ Malformed(q) \/ TriageFails(q)

\* The ticket is committed.
Store(q) ==
  /\ pc[q] = "store"
  /\ tickets' = tickets \union {q}
  /\ Goto(q, "respond")
  /\ UNCHANGED <<client, sent, answer, keys, issues, filed, faults>>

\* The first run was queued or not; the key answers from now on.
Respond(q) ==
  /\ pc[q] = "respond"
  /\ keys' = [k \in Keys |-> IF k = sent[q].key /\ keys[k].status # "free"
                               THEN [keys[k] EXCEPT !.status = "answered", !.by = q]
                               ELSE keys[k]]
  /\ Reply(q, 201, q)
  /\ UNCHANGED <<client, sent, issues, filed, tickets, faults>>

-----------------------------------------------------------------------------
(* Around the requests. *)

\* The API's process ends: its requests are never answered, its token cache is empty.
Crash ==
  /\ Fault("crash")
  /\ \E q \in Requests : InProgress(q)
  /\ pc' = [q \in Requests |-> IF InProgress(q) THEN "done" ELSE pc[q]]
  /\ call' = [q \in Callers |-> NoCall]
  /\ cached' = 0 /\ aged' = FALSE /\ lock' = NoOne
  /\ UNCHANGED <<minted, revoked, sent, answer, keys, issues, filed, tickets>>

TokenTrouble ==
  /\ Fault("token")
  /\ Revoke \/ TokenAges
  /\ UNCHANGED <<sent, pc, answer, keys, issues, filed, tickets>>

\* GitHub's issues.opened: the webhook may be first to make the ticket.
WebhookOpened ==
  /\ \E i \in issues \ tickets : tickets' = tickets \union {i}
  /\ UNCHANGED <<client, sent, pc, answer, keys, issues, filed, faults>>

\* Wrong: only keys that answer are pruned.
PrunesAnswers(row) == row.status = "answered"

Prunable(row) == row.status # "free"

\* A day later, when the requests that use the key are long over.
prune_ticket_creations(k) ==
  /\ Prunable(keys[k])
  /\ \A q \in Requests : sent[q].key = k => ~InProgress(q)
  /\ keys' = [keys EXCEPT ![k] = Free] /\ filed' = [filed EXCEPT ![k] = {}]
  /\ UNCHANGED <<client, sent, pc, answer, issues, tickets, faults>>

Handle(q) ==
  \/ Reserve(q) \/ LookUp(q) \/ Check(q) \/ Calling(q) \/ Proceed(q) \/ CallFailed(q)
  \/ Triage(q) \/ Store(q) \/ Respond(q)

Next ==
  \/ \E q \in Requests : Send(q) \/ Handle(q)
  \/ \E k \in Keys : prune_ticket_creations(k)
  \/ Crash \/ TokenTrouble \/ WebhookOpened

Spec == Init /\ [][Next]_vars

FairSpec ==
  /\ Spec
  /\ \A q \in Requests : WF_vars(Handle(q))
  /\ \A k \in Keys : WF_vars(prune_ticket_creations(k))

-----------------------------------------------------------------------------
(* Properties. *)

Steps == {"unsent", "reserve", "earlier", "check", "triage", "triage again", "store", "respond",
          "done"} \union CALLS
Rows == [status: {"free", "reserved", "answered"}, body: Bodies \union {NoKey},
         by: Requests \union {NoOne}]

\* Every variable stays in its range, and a caller holds the lock exactly while it mints.
TypeOK ==
  /\ ClientTypeOK
  /\ sent \in [Requests -> [key: Keys \union {NoKey}, body: Bodies \union {NoKey}]]
  /\ pc \in [Requests -> Steps]
  /\ keys \in [Keys -> Rows]
  /\ issues \subseteq Requests /\ tickets \subseteq issues
  /\ filed \in [Keys -> SUBSET issues]
  /\ answer \in [Requests -> [code: {0, 201, 404, 409, 422, 500, 502, 503},
                              issue: Requests \union {NoOne}]]
  /\ faults \in 0..MaxFaults

Under(k) == {q \in Requests : sent[q].key = k}

\* The attempts that were refused, and so freed their key, although GitHub has their issue.
Freed == {q \in issues : answer[q].code \in {404, 502, 503}}

\* Resending a key files no second issue, however the attempts overlap, unless an attempt freed
\* it after GitHub had made its issue (post_ticket, _reserve_key).
SecondIssueNeedsAFreedKey ==
  \A k \in Keys : Cardinality(filed[k]) <= 1 + Cardinality(Freed \intersect Under(k))

\* "The API returns the first attempt's response instead of filing a second issue" (README.md).
OneIssuePerKey == \A k \in Keys : Cardinality(filed[k]) <= 1

\* A key is "in progress" only while its request is, or after one that broke off.  A key that
\* answers names an issue that was made under it and has its ticket, the only one unless an
\* attempt was freed: what is replayed is what the first attempt did.
KeysTellTheTruth ==
  \A k \in Keys :
    /\ keys[k].status = "reserved" => InProgress(keys[k].by) \/ answer[keys[k].by].code \in {0, 500}
    /\ keys[k].status = "answered" =>
         /\ keys[k].by \in filed[k] \intersect tickets
         /\ Freed \intersect Under(k) = {} => filed[k] = {keys[k].by}

\* Everyone who was told of a ticket was told of one that exists, of an issue made for the same
\* body and under the same key.
AnswersAreTrue ==
  \A q \in Requests : answer[q].code = 201 =>
    answer[q].issue \in tickets /\ sent[answer[q].issue] = sent[q]

\* Every request is answered or its process ends: no call waits for ever for a token.
EveryRequestEnds == \A q \in Requests : InProgress(q) ~> pc[q] = "done"

\* A key whose attempt broke off is usable again in the end.
NoKeyIsStuckForEver == \A k \in Keys : keys[k].status = "reserved" ~> keys[k].status # "reserved"
=============================================================================
