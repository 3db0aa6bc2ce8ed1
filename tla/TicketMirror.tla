---------------------------- MODULE TicketMirror ----------------------------
(***************************************************************************)
(* One ticket, the mirror of one GitHub issue and of the pull requests of  *)
(* its branch (tickets/service.py): the webhook handlers (webhooks.py) and *)
(* the sync command (sync.py), which exclude each other by the lock that   *)
(* upsert_repo takes on the repository's row, and the writers that do not  *)
(* take it: ticket creation, the removal of needs-input when a run is      *)
(* queued, and the worker's needs-input label and pull request.            *)
(***************************************************************************)
EXTENDS Integers, Sequences

CONSTANTS
  MaxPulls,     \* pull requests of the branch
  MaxChanges,   \* what people and the writers do on GitHub
  MaxDeliveries,\* on their way when one of them begins
  MaxFaults,
  FaultKinds,   \* of "lost", "overtaken", "redelivered", "suspended"
  Writers       \* of "create", "clear", "ask", "conclude"

ASSUME MirrorAssumption ==
  MaxPulls \in Nat /\ MaxChanges \in Nat /\ MaxDeliveries \in Nat /\ MaxFaults \in Nat

VARIABLES
  issue,        \* on GitHub
  pulls,        \* on GitHub, oldest first
  suspended,    \* the installation, on GitHub
  deliveries,   \* webhooks on their way, in order
  row,          \* tickets: the committed row
  enabled,      \* repos.enabled
  writer,       \* a writer at work
  sync,         \* the sync command
  disturbed,    \* history: what may keep the mirror from GitHub's state
  changes, faults

vars == <<issue, pulls, suspended, deliveries, row, enabled, writer, sync, disturbed, changes, faults>>

NEXTIX == "nextix"
NEEDS == "needs-input"
Labels == {NEXTIX, NEEDS}

Missing == [state |-> "none", labels |-> {}]
NoRow == [state |-> "none", labels |-> {}, pr |-> 0, pr_state |-> "none"]
NoWriter == [kind |-> "none", at |-> "idle", row |-> NoRow, pr |-> 0]
NoSync == [at |-> "idle", row |-> NoRow, clean |-> FALSE, calm |-> FALSE]

\* No issue yet, or one that is mirrored.
Init ==
  /\ \/ issue = Missing /\ row = NoRow
     \/ /\ issue = [state |-> "open", labels |-> {NEXTIX}]
        /\ row = [NoRow EXCEPT !.state = "open", !.labels = {NEXTIX}]
  /\ pulls = <<>> /\ suspended = FALSE /\ deliveries = <<>> /\ enabled = TRUE
  /\ writer = NoWriter /\ sync = NoSync /\ disturbed = FALSE /\ changes = 0 /\ faults = 0

-----------------------------------------------------------------------------
(* GitHub. *)

OpenPulls == {n \in DOMAIN pulls : pulls[n] = "open"}

\* record_delivery: a delivery that is seen was processed before.
Delivery(kind, i, n, state) == [kind |-> kind, issue |-> i, pr |-> n, pr_state |-> state, seen |-> FALSE]
AboutIssue(i) == Delivery("issue", i, 0, "none")
AboutPull(n, state) == Delivery("pull", Missing, n, state)
AboutInstallation(kind) == Delivery(kind, Missing, 0, "none")

\* A suspended installation gets no events.
Emit(d) == deliveries' = IF suspended THEN deliveries ELSE Append(deliveries, d)

SetIssue(i) == issue' = i /\ Emit(AboutIssue(i)) /\ UNCHANGED pulls
SetPull(n, state) ==
  /\ pulls' = IF n \in DOMAIN pulls THEN [pulls EXCEPT ![n] = state] ELSE Append(pulls, state)
  /\ Emit(AboutPull(n, state)) /\ UNCHANGED issue

\* What the mirror misses while it gets no events.
Unseen == disturbed' = (disturbed \/ suspended)
Calm == sync' = [sync EXCEPT !.calm = FALSE, !.clean = @ /\ ~suspended]

\* People open and label the issue, close, reopen or delete it.
ChangeIssue ==
  /\ \/ /\ issue = Missing /\ \E ls \in SUBSET Labels : SetIssue([state |-> "open", labels |-> ls])
     \/ /\ issue.state \in {"open", "closed"}
        /\ \/ SetIssue([issue EXCEPT !.state = IF @ = "open" THEN "closed" ELSE "open"])
           \/ \E l \in Labels :
                SetIssue([issue EXCEPT !.labels = IF l \in @ THEN @ \ {l} ELSE @ \union {l}])
           \/ SetIssue([issue EXCEPT !.state = "gone", !.labels = {}])

\* People close, merge, reopen or touch a pull request, or open the next; one is open at a time.
ChangePull ==
  \/ \E n \in OpenPulls, state \in {"closed", "merged"} : SetPull(n, state)
  \/ \E n \in DOMAIN pulls :
       /\ pulls[n] = "closed" /\ OpenPulls = {} /\ SetPull(n, "open")
  \/ \E n \in DOMAIN pulls : SetPull(n, pulls[n])
  \/ /\ pulls # <<>> /\ Len(pulls) < MaxPulls /\ OpenPulls = {}
     /\ SetPull(Len(pulls) + 1, "open")

MayChange ==
  /\ changes < MaxChanges /\ changes' = changes + 1
  /\ Len(deliveries) < MaxDeliveries

People ==
  /\ MayChange
  /\ ChangeIssue \/ ChangePull
  /\ Unseen /\ Calm
  /\ UNCHANGED <<suspended, row, enabled, writer, faults>>

Fault(kind) == kind \in FaultKinds /\ faults < MaxFaults /\ faults' = faults + 1

Disturb == disturbed' = TRUE /\ sync' = [sync EXCEPT !.clean = FALSE]

\* The API was down, or the handler failed: GitHub does not try again by itself.
Lose ==
  /\ Fault("lost") /\ deliveries # <<>>
  /\ deliveries' = Tail(deliveries)
  /\ Disturb
  /\ UNCHANGED <<issue, pulls, suspended, row, enabled, writer, changes>>

\* A delivery overtakes the one before.
Overtake ==
  /\ Fault("overtaken")
  /\ \E n \in 1..Len(deliveries) - 1 :
       deliveries' = [deliveries EXCEPT ![n] = deliveries[n + 1], ![n + 1] = deliveries[n]]
  /\ Disturb
  /\ UNCHANGED <<issue, pulls, suspended, row, enabled, writer, changes>>

\* The installation is suspended, or the app is uninstalled ("deleted").
Suspend ==
  /\ Fault("suspended") /\ ~suspended
  /\ suspended' = TRUE
  /\ \E kind \in {"suspend", "deleted"} : deliveries' = Append(deliveries, AboutInstallation(kind))
  /\ UNCHANGED <<issue, pulls, row, enabled, writer, sync, disturbed, changes>>

\* It is unsuspended, or installed again.
Unsuspend ==
  /\ suspended
  /\ suspended' = FALSE /\ deliveries' = Append(deliveries, AboutInstallation("unsuspend"))
  /\ UNCHANGED <<issue, pulls, row, enabled, writer, sync, disturbed, changes, faults>>

-----------------------------------------------------------------------------
(* tickets/service.py *)

upsert_ticket_from_issue(r, i) == [r EXCEPT !.state = i.state, !.labels = i.labels]

mark_issue_gone(r) == IF r = NoRow THEN r ELSE [r EXCEPT !.state = "gone"]

\* Of the one repository of the installation, with all it may reach or only some.
set_repos_enabled(to) == enabled' = to

\* A repository with a ticket is disabled.  One without is deleted: its next event inserts it,
\* enabled.  (A ticket that is being created has had its webhook before.)
retire_repos == enabled' = (row = NoRow)

\* The repository is on GitHub's list again: enabled, and not retired.
reconcile_installation_repos == set_repos_enabled(TRUE)

\* Wrong: any update of any pull request is mirrored.
LinkAny(r, n, state) == IF r = NoRow THEN r ELSE [r EXCEPT !.pr = n, !.pr_state = state]

\* Wrong: a pull request that is closed is unlinked, and its state is kept.
LinkWhileOpen(r, n, state) ==
  IF r = NoRow THEN r
  ELSE [r EXCEPT !.pr = IF state = "open" THEN n ELSE 0, !.pr_state = state]

\* An older pull request that is not open leaves another that is open alone.
link_pull_request(r, n, state) ==
  IF r = NoRow \/ (r.pr \notin {0, n} /\ r.pr_state = "open" /\ state # "open")
    THEN r
    ELSE [r EXCEPT !.pr = n, !.pr_state = state]

\* handle_issues
MirrorIssue(r, i) ==
  IF i.state = "gone" THEN mark_issue_gone(r)
  ELSE IF r = NoRow /\ NEXTIX \notin i.labels THEN r
  ELSE upsert_ticket_from_issue(r, i)

-----------------------------------------------------------------------------
(* Webhooks. *)

record_delivery(d) == ~d.seen

\* upsert_repo writes the repository's row, which locks it: a handler waits while a sync, which
\* wrote it first, is open.
upsert_repo == sync.at = "idle"

\* An event of a disabled repository is dropped.
handle_repo_event(r) == row' = (IF enabled THEN r ELSE row) /\ UNCHANGED enabled

\* When an installation has lost its access again its repositories cannot be listed: the handler
\* fails and is rolled back.
Listed(d) == d.kind = "unsuspend" => ~suspended

\* An installation that has its access back has its repositories back; their tickets are not
\* read again.
handle_installation(kind) ==
  /\ \/ kind = "suspend" /\ set_repos_enabled(FALSE)
     \/ kind = "deleted" /\ retire_repos
     \/ kind = "unsuspend" /\ reconcile_installation_repos
  /\ UNCHANGED row

Dispatch(d) ==
  \/ d.kind = "issue" /\ handle_repo_event(MirrorIssue(row, d.issue))
  \/ d.kind = "pull" /\ handle_repo_event(link_pull_request(row, d.pr, d.pr_state))
  \/ handle_installation(d.kind)

\* github_webhook: one transaction.  It may be redelivered later; what it changes was changed
\* after the events of a disabled repository were dropped.
HandleDelivery ==
  /\ deliveries # <<>> /\ upsert_repo
  /\ LET d == Head(deliveries)
     IN  /\ IF record_delivery(d) /\ Listed(d) THEN Dispatch(d) ELSE UNCHANGED <<row, enabled>>
         /\ disturbed' = (disturbed \/ (~enabled /\ d.kind \in {"issue", "pull"} /\ ~d.seen))
         /\ \/ deliveries' = Tail(deliveries) /\ UNCHANGED faults
            \/ /\ Fault("redelivered")
               /\ deliveries' = Append(Tail(deliveries), [d EXCEPT !.seen = @ \/ Listed(d)])
  /\ UNCHANGED <<issue, pulls, suspended, writer, sync, changes>>

-----------------------------------------------------------------------------
(* sync_repo: one transaction, from the first read of GitHub to the commit. *)

\* Wrong: the newest pull request first.
NewestFirst(ps) == [n \in DOMAIN ps |-> Len(ps) + 1 - n]

OldestFirst(ps) == [n \in DOMAIN ps |-> n]

\* The row when pull requests have been linked one after the other.
LinkPulls(r, ps) ==
  LET linked[n \in 0..Len(ps)] ==
        IF n = 0 THEN r
        ELSE link_pull_request(linked[n - 1], OldestFirst(ps)[n], ps[OldestFirst(ps)[n]])
  IN  linked[Len(ps)]

SyncStart ==
  /\ upsert_repo /\ ~suspended
  /\ sync' = [NoSync EXCEPT !.at = "issues", !.clean = (deliveries = <<>> /\ enabled)]
  /\ UNCHANGED <<issue, pulls, suspended, deliveries, row, enabled, writer, disturbed, changes, faults>>

\* The issues with the label.
list_issues == {i \in {issue} : NEXTIX \in i.labels}

\* A tracked ticket that was not among them is read by its number.
Recheck(r) ==
  IF r = NoRow THEN r
  ELSE IF issue.state = "gone" THEN mark_issue_gone(r)
  ELSE upsert_ticket_from_issue(r, issue)

\* The issue is read; its ticket is locked from here on.
SyncIssues ==
  /\ sync.at = "issues" /\ ~suspended
  /\ sync' = [sync EXCEPT !.at = "pulls", !.calm = TRUE,
                          !.row = IF list_issues = {} THEN Recheck(row)
                                  ELSE upsert_ticket_from_issue(row, issue)]
  /\ UNCHANGED <<issue, pulls, suspended, deliveries, row, enabled, writer, disturbed, changes, faults>>

SyncPulls ==
  /\ sync.at = "pulls" /\ ~suspended
  /\ row' = LinkPulls(sync.row, pulls)
  /\ disturbed' = (disturbed /\ ~sync.clean)
  /\ sync' = NoSync
  /\ UNCHANGED <<issue, pulls, suspended, deliveries, enabled, writer, changes, faults>>

SyncFails ==
  /\ sync.at # "idle" /\ suspended
  /\ sync' = NoSync
  /\ UNCHANGED <<issue, pulls, suspended, deliveries, row, enabled, writer, disturbed, changes, faults>>

-----------------------------------------------------------------------------
(* The writers outside the repository's lock. *)

Begin(kind, r, n) == writer' = [kind |-> kind, at |-> "called", row |-> r, pr |-> n]

\* create_ticket: the issue is created, its answer is mirrored.
CreateIssue ==
  /\ issue = Missing
  /\ SetIssue([state |-> "open", labels |-> {NEXTIX}])
  /\ Begin("create", NoRow, 0)

\* enqueue_run: the ticket is loaded, ...
LoadTicket ==
  /\ NEEDS \in row.labels
  /\ writer' = [kind |-> "clear", at |-> "loaded", row |-> row, pr |-> 0]
  /\ UNCHANGED <<issue, pulls, deliveries>>

\* _clear_needs_input: ... then the label is removed; a 404 is as good.
RemoveLabel ==
  /\ writer.at = "loaded"
  /\ IF suspended THEN writer' = NoWriter ELSE Begin("clear", writer.row, 0)
  /\ IF NEEDS \in issue.labels /\ ~suspended
       THEN SetIssue([issue EXCEPT !.labels = @ \ {NEEDS}])
       ELSE UNCHANGED <<issue, pulls, deliveries>>
  /\ Calm
  /\ UNCHANGED <<suspended, row, enabled, disturbed, changes, faults>>

\* _needs_input adds the label first.
AddLabel ==
  /\ row # NoRow /\ issue.state \in {"open", "closed"}
  /\ IF NEEDS \in issue.labels THEN UNCHANGED <<issue, pulls, deliveries>>
                               ELSE SetIssue([issue EXCEPT !.labels = @ \union {NEEDS}])
  /\ Begin("ask", NoRow, 0)

\* _open_or_update_pr: the open pull request of the branch, or a new one.
OpenOrUpdate ==
  /\ row # NoRow /\ issue.state \in {"open", "closed"}
  /\ \/ \E n \in OpenPulls : SetPull(n, "open") /\ Begin("conclude", NoRow, n)
     \/ /\ OpenPulls = {} /\ Len(pulls) < MaxPulls
        /\ SetPull(Len(pulls) + 1, "open") /\ Begin("conclude", NoRow, Len(pulls) + 1)

WriterCalls ==
  /\ writer = NoWriter /\ ~suspended
  /\ \/ "create" \in Writers /\ CreateIssue
     \/ "clear" \in Writers /\ LoadTicket
     \/ "ask" \in Writers /\ AddLabel
     \/ "conclude" \in Writers /\ OpenOrUpdate
  /\ MayChange
  /\ Calm
  /\ UNCHANGED <<suspended, row, enabled, disturbed, faults>>

\* The worker reads the ticket again after its call.
WriterReads ==
  /\ writer.at = "called" /\ writer.kind \in {"ask", "conclude"}
  /\ writer' = [writer EXCEPT !.at = "read", !.row = row]
  /\ UNCHANGED <<issue, pulls, suspended, deliveries, row, enabled, sync, disturbed, changes, faults>>

\* A writer changes the columns that differ from what it read.
Changed(new, old, now) == IF new = old THEN now ELSE new

Written ==
  CASE writer.kind = "create" -> upsert_ticket_from_issue(row, [state |-> "open", labels |-> {NEXTIX}])
    [] writer.kind = "clear" -> [row EXCEPT !.labels = writer.row.labels \ {NEEDS}]
    [] writer.kind = "ask" ->
         [row EXCEPT !.labels = Changed(writer.row.labels \union {NEEDS}, writer.row.labels, @)]
    [] writer.kind = "conclude" ->
         [row EXCEPT !.pr = Changed(writer.pr, writer.row.pr, @),
                     !.pr_state = Changed("open", writer.row.pr_state, @)]

-----------------------------------------------------------------------------
(* What the mirror should show. *)

MirrorsIssue(r) ==
  IF r = NoRow THEN NEXTIX \notin issue.labels
               ELSE r.state = issue.state /\ (r.state = "gone" \/ r.labels = issue.labels)

\* The open pull request; when there is none, the state of one of them.
MirrorsPull(r) ==
  \/ r = NoRow
  \/ r.pr = 0 /\ pulls = <<>>
  \/ r.pr \in DOMAIN pulls /\ pulls[r.pr] = r.pr_state /\ (r.pr_state = "open" \/ OpenPulls = {})

Mirrors(r) == MirrorsIssue(r) /\ MirrorsPull(r)

\* What a delivery makes of a row, and what some do, one after the other.
MirrorOne(r, d) ==
  IF d.seen THEN r
  ELSE IF d.kind = "issue" THEN MirrorIssue(r, d.issue)
  ELSE IF d.kind = "pull" THEN link_pull_request(r, d.pr, d.pr_state)
  ELSE r

MirrorAll(r, ds) ==
  LET mirrored[n \in 0..Len(ds)] == IF n = 0 THEN r ELSE MirrorOne(mirrored[n - 1], ds[n])
  IN  mirrored[Len(ds)]

\* The row when the deliveries on their way have arrived.
Settled(r) == MirrorAll(r, deliveries)

WriterWrites ==
  /\ \/ writer.at = "called" /\ writer.kind \in {"create", "clear"}
     \/ writer.at = "read"
  /\ sync.at # "pulls"
  /\ row' = Written
  /\ writer' = NoWriter
  \* History: what it wrote is out of date, and the deliveries on their way do not correct it.
  /\ IF ~Mirrors(Settled(row'))
       THEN Disturb
       ELSE UNCHANGED <<disturbed, sync>>
  /\ UNCHANGED <<issue, pulls, suspended, deliveries, enabled, changes, faults>>

-----------------------------------------------------------------------------

Next ==
  \/ People \/ Lose \/ Overtake \/ Suspend \/ Unsuspend
  \/ HandleDelivery
  \/ SyncStart \/ SyncIssues \/ SyncPulls \/ SyncFails
  \/ WriterCalls \/ RemoveLabel \/ WriterReads \/ WriterWrites

Spec == Init /\ [][Next]_vars

-----------------------------------------------------------------------------
(* Properties. *)

IssueStates == {"none", "open", "closed", "gone"}
PullStates == {"none", "open", "closed", "merged"}
Rows == [state: IssueStates, labels: SUBSET Labels, pr: 0..MaxPulls, pr_state: PullStates]

\* Every variable stays in its range, and a ticket without a pull request has no state of one.
TypeOK ==
  /\ issue \in [state: IssueStates, labels: SUBSET Labels]
  /\ pulls \in Seq({"open", "closed", "merged"}) /\ Len(pulls) <= MaxPulls
  /\ suspended \in BOOLEAN /\ enabled \in BOOLEAN
  /\ \A n \in DOMAIN deliveries : deliveries[n].kind \in {"issue", "pull", "suspend", "deleted", "unsuspend"}
  /\ row \in Rows /\ (row.pr = 0 <=> row.pr_state = "none")
  /\ writer.at \in {"idle", "loaded", "called", "read"} /\ writer.row \in Rows /\ writer.pr \in 0..MaxPulls
  /\ sync.at \in {"idle", "issues", "pulls"} /\ sync.row \in Rows
  /\ disturbed \in BOOLEAN /\ changes \in 0..MaxChanges /\ faults \in 0..MaxFaults

Quiet == deliveries = <<>> /\ writer = NoWriter /\ sync.at = "idle" /\ enabled

\* Once the deliveries are handled the ticket shows the issue and its pull request as they are on
\* GitHub, unless a delivery was lost or overtaken, the app was suspended, or a writer was
\* overtaken by GitHub: then a sync that met no delivery on its way has repaired it.
QuietMirrorIsTrue == Quiet /\ ~disturbed => Mirrors(row)

Newest(r) == r = NoRow \/ OpenPulls # {} \/ r.pr = Len(pulls)

\* Whatever the ticket was, a sync leaves it as GitHub has it, with the newest pull request when
\* none is open, if nothing changes on GitHub meanwhile (sync_repo).
SyncRepairs ==
  [][sync.at = "pulls" /\ sync'.at = "idle" /\ sync.calm /\ ~suspended
       => Mirrors(row') /\ Newest(row')]_vars
=============================================================================
