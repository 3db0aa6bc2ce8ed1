---------------------------- MODULE RunExecution ----------------------------
(***************************************************************************)
(* How a run is really executed: the rows of `runs`, the Celery queue, the *)
(* runner's worker processes with their database locks, the sandbox        *)
(* containers, the API handlers (enqueue, cancel, callback), the reaper    *)
(* and GitHub, each taking its own steps.                                  *)
(*                                                                         *)
(* A transaction that locks the row it reads (SELECT ... FOR UPDATE) and   *)
(* commits without calling anything outside the database is one action;    *)
(* wherever the code commits, awaits another system or reads without a     *)
(* lock, a new action starts and the others may come in between.           *)
(*                                                                         *)
(* Bounds: MaxFaults (how many faults of the kinds in Faults happen) and   *)
(* MaxCopies (how many copies of one queue message may wait at once).      *)
(***************************************************************************)
EXTENDS RunStates, Naturals, FiniteSets, Sequences

CONSTANTS
  Runs, Tickets, Repos,
  TicketOf, RepoOf,     \* a run's ticket, a ticket's repository
  Workers,              \* the runner's worker processes (RUNNER_CONCURRENCY)
  NoRun, NoWorker,      \* null values
  MaxRunsPerRepo,       \* NEXTIX_MAX_RUNS_PER_REPO
  ReaperHasSocket,      \* whether the reaper's process can reach Docker
  LostReplies,          \* whether the broker may take a message and still raise
  Faults, MaxFaults, MaxCopies

FaultKinds == {"crash", "recreate", "sweep", "api", "abandon", "limit"}

\* Every run has a ticket and every ticket a repository.
ASSUME TopologyAssumption ==
  /\ TicketOf \in [Runs -> Tickets]
  /\ RepoOf \in [Tickets -> Repos]

\* The null values are not actors.
ASSUME NullAssumption == NoRun \notin Runs /\ NoWorker \notin Workers

\* config.py: NEXTIX_MAX_RUNS_PER_REPO is at least 1; runs and workers are finitely many.
ASSUME LimitAssumption ==
  /\ MaxRunsPerRepo \in Nat \ {0}
  /\ IsFiniteSet(Runs) /\ IsFiniteSet(Workers)
  /\ MaxFaults \in Nat /\ MaxCopies \in Nat
  /\ Faults \subseteq FaultKinds
  /\ ReaperHasSocket \in BOOLEAN /\ LostReplies \in BOOLEAN

VARIABLES
  \* the runs table
  status,
  callback_secret,      \* TRUE while the row holds one
  heard,                \* claimed or running, last_heartbeat within HEARTBEAT_TIMEOUT
  queued_at,            \* while queued: the place in the order of arrival
  recent,               \* queued, for at most 10 minutes
  \* tickets and GitHub
  labelled,             \* the ticket carries nextix:needs-input
  branch,               \* the runs whose work is on nextix/issue-<n>, oldest first
  pull,                 \* an open pull request exists for the branch
  pr_number,            \* the ticket is linked to it
  \* the queue, and the enqueue_run calls that still have to put a run on it
  messages, handing,
  \* worker processes
  pc, job, todo, found, bundle, target, repo_lock,
  \* sandbox containers
  box, owner, foreign, base, result, reported,
  \* the reaper's list, and the faults spent so far
  candidates, faults

table   == <<status, callback_secret, heard, queued_at, recent>>
github  == <<labelled, branch, pull, pr_number>>
queue   == <<messages, handing>>
workers == <<pc, job, todo, found, bundle, target, repo_lock>>
docker  == <<box, owner, foreign, base, result, reported>>
vars    == <<table, github, queue, workers, docker, candidates, faults>>

-----------------------------------------------------------------------------
(* Types *)

\* What result.json can say once read. "failed" stands for every result that ends in
\* `failed` (agent_error, no_changes, bundle_too_large ...).
Results == {"succeeded", "needs_input", "timed_out", "failed"}

\* Before the worker has read it: "unread", or "late" once the deadline made it stop waiting.
Found == Results \union {"unread", "late"}

\* The steps of _conclude and _needs_input, through which _keep_alive heartbeats.
PUBLISHING == {"conclude", "check", "push", "recheck", "pr", "link", "ask", "label",
               "finish"}

\* Where a worker is inside execute_run, its run being claimed.
EXECUTING == {"prepare", "wait", "collect", "time_out"} \union PUBLISHING

\* Where a worker's transaction holds its run's row (FOR UPDATE).
LOCKING == {"repo_lock", "admit"}

Steps == {"idle", "dead", "boot", "sweep", "claim"} \union LOCKING \union EXECUTING

TableOK ==
  /\ status \in [Runs -> RunStatus \union {Absent}]
  /\ callback_secret \in [Runs -> BOOLEAN]
  /\ heard \in [Runs -> BOOLEAN]
  /\ queued_at \in [Runs -> Nat]
  /\ recent \in [Runs -> BOOLEAN]

GithubOK ==
  /\ labelled \in [Tickets -> BOOLEAN]
  /\ branch \in [Tickets -> Seq(Runs)]
  /\ pull \in [Tickets -> BOOLEAN]
  /\ pr_number \in [Tickets -> BOOLEAN]

QueueOK ==
  /\ messages \in [Runs -> Nat]
  /\ handing \in [Runs -> {"no", "stamped", "committed", "cleared", "refused"}]

\* A worker that is anywhere in its task has a run.
WorkersOK ==
  /\ pc \in [Workers -> Steps]
  /\ job \in [Workers -> Runs \union {NoRun}]
  /\ \A w \in Workers : pc[w] \notin {"idle", "dead", "boot"} => job[w] \in Runs
  /\ todo \in [Workers -> SUBSET Runs]
  /\ found \in [Workers -> Found]
  /\ bundle \in [Workers -> Nat]
  /\ target \in [Workers -> TERMINAL_STATUSES]
  /\ repo_lock \in [Repos -> Workers \union {NoWorker}]

DockerOK ==
  /\ box \in [Runs -> {"none", "booting", "working", "exited"}]
  /\ owner \in [Runs -> Workers \union {NoWorker}]
  /\ foreign \in SUBSET Runs
  /\ base \in [Runs -> Nat]
  /\ result \in [Runs -> Results \union {"nothing"}]
  /\ reported \in SUBSET Runs

TypeOK ==
  /\ TableOK /\ GithubOK /\ QueueOK /\ WorkersOK /\ DockerOK
  /\ candidates \in SUBSET Runs
  /\ faults \in 0..MaxFaults

-----------------------------------------------------------------------------
(* The initial state: nothing has been asked for yet. *)

Init ==
  /\ status = [r \in Runs |-> Absent]
  /\ callback_secret = [r \in Runs |-> FALSE]
  /\ heard = [r \in Runs |-> FALSE]
  /\ queued_at = [r \in Runs |-> 0]
  /\ recent = [r \in Runs |-> FALSE]
  /\ labelled = [t \in Tickets |-> FALSE]
  /\ branch = [t \in Tickets |-> << >>]
  /\ pull = [t \in Tickets |-> FALSE]
  /\ pr_number = [t \in Tickets |-> FALSE]
  /\ messages = [r \in Runs |-> 0]
  /\ handing = [r \in Runs |-> "no"]
  /\ pc = [w \in Workers |-> "idle"]
  /\ job = [w \in Workers |-> NoRun]
  /\ todo = [w \in Workers |-> {}]
  /\ found = [w \in Workers |-> "unread"]
  /\ bundle = [w \in Workers |-> 0]
  /\ target = [w \in Workers |-> "failed"]
  /\ repo_lock = [p \in Repos |-> NoWorker]
  /\ box = [r \in Runs |-> "none"]
  /\ owner = [r \in Runs |-> NoWorker]
  /\ foreign = {}
  /\ base = [r \in Runs |-> 0]
  /\ result = [r \in Runs |-> "nothing"]
  /\ reported = {}
  /\ candidates = {}
  /\ faults = 0

-----------------------------------------------------------------------------
(* Helpers *)

Repo(r) == RepoOf[TicketOf[r]]

Terminal(r) == status[r] \in TERMINAL_STATUSES

\* Some worker's open transaction has locked the row.
RowLocked(r) == \E w \in Workers : job[w] = r /\ pc[w] \in LOCKING

Fault(kind) ==
  /\ kind \in Faults
  /\ faults < MaxFaults
  /\ faults' = faults + 1

record_transitionKeepingSecrets(r, to) ==
  /\ status' = [status EXCEPT ![r] = to]
  /\ callback_secret' = [callback_secret EXCEPT ![r] = to = "claimed" \/ @]
  /\ heard' = [heard EXCEPT ![r] = to \in SILENT /\ (to = "claimed" \/ @)]
  /\ queued_at' = [queued_at EXCEPT ![r] = 0]
  /\ recent' = [recent EXCEPT ![r] = FALSE]

\* apply_transition, with the fields _claim sets beside it. record_transition commits
\* this in one transaction; the comment and the board event that follow change no state.
\* (Heartbeats are only ever read of working rows, and queued_at of queued ones.)
record_transition(r, to) ==
  /\ status' = [status EXCEPT ![r] = to]
  /\ callback_secret' =
       [callback_secret EXCEPT ![r] = IF to \in TERMINAL_STATUSES THEN FALSE
                                      ELSE to = "claimed" \/ @]
  /\ heard' = [heard EXCEPT ![r] = to \in SILENT /\ (to = "claimed" \/ @)]
  /\ queued_at' = [queued_at EXCEPT ![r] = 0]
  /\ recent' = [recent EXCEPT ![r] = FALSE]

Goto(w, step) == pc' = [pc EXCEPT ![w] = step]

\* Containers are killed and removed, with the clone and the result.json inside them.
Remove(gone) ==
  /\ box' = [r \in Runs |-> IF r \in gone THEN "none" ELSE box[r]]
  /\ owner' = [r \in Runs |-> IF r \in gone THEN NoWorker ELSE owner[r]]
  /\ base' = [r \in Runs |-> IF r \in gone THEN 0 ELSE base[r]]
  /\ result' = [r \in Runs |-> IF r \in gone THEN "nothing" ELSE result[r]]
  /\ foreign' = foreign \ gone
  /\ UNCHANGED reported

\* The task returns: its message is acknowledged and its process takes the next one. A
\* sandbox of its own that the `finally` still had to remove is gone.
Leave(w) ==
  /\ Goto(w, "idle")
  /\ job' = [job EXCEPT ![w] = NoRun]
  /\ found' = [found EXCEPT ![w] = "unread"]
  /\ bundle' = [bundle EXCEPT ![w] = 0]
  /\ target' = [target EXCEPT ![w] = "failed"]
  /\ Remove({r \in Runs : owner[r] = w})
  /\ UNCHANGED <<todo, repo_lock>>

\* Hand over to _finish with a terminal status to record.
FinishAs(w, to) ==
  /\ Goto(w, "finish")
  /\ target' = [target EXCEPT ![w] = to]
  /\ UNCHANGED <<job, todo, found, bundle, repo_lock>>

OrphansOfAnyone == {r \in Runs : box[r] # "none" /\ r \notin foreign}

OrphansOfActiveRuns ==
  {r \in Runs : /\ box[r] # "none" /\ owner[r] = NoWorker /\ r \notin foreign
                /\ status[r] \in ACTIVE_STATUSES}

\* What labelled_runs reports of this runner's containers whose process is gone.
Orphans == {r \in Runs : box[r] # "none" /\ owner[r] = NoWorker /\ r \notin foreign}

-----------------------------------------------------------------------------
(* API handlers: enqueue_run, step by step. *)

\* uq_runs_one_active_per_ticket, and active_run without it.
NoActiveRun(t) == \A q \in Runs : TicketOf[q] = t => status[q] \notin ACTIVE_STATUSES

IndexAllowsAnything(r) == TRUE

IndexAllows(r) == NoActiveRun(TicketOf[r])

\* active_run finds no active run of the ticket, and queued_at is now, later than that of
\* any other run. Nothing is locked: another request may be just as far.
Begin(r) ==
  /\ status[r] = Absent
  /\ handing[r] = "no"
  /\ NoActiveRun(TicketOf[r])
  /\ \E now \in {queued_at[q] + 1 : q \in Runs} :
       /\ \A q \in Runs : queued_at[q] < now
       /\ queued_at' = [queued_at EXCEPT ![r] = now]
  /\ handing' = [handing EXCEPT ![r] = "stamped"]
  /\ UNCHANGED <<status, callback_secret, heard, recent, github, messages, workers, docker,
                 candidates, faults>>

\* The insert and the commit after it: uq_runs_one_active_per_ticket finds no rival ...
Insert(r) ==
  /\ handing[r] = "stamped"
  /\ IndexAllows(r)
  /\ status' = [status EXCEPT ![r] = "queued"]
  /\ recent' = [recent EXCEPT ![r] = TRUE]
  /\ handing' = [handing EXCEPT ![r] = "committed"]
  /\ UNCHANGED <<callback_secret, heard, queued_at, github, messages, workers, docker,
                 candidates, faults>>

\* ... or it does, and ActiveRunExists is raised: there is no such run.
InsertRefused(r) ==
  /\ handing[r] = "stamped"
  /\ ~IndexAllows(r)
  /\ queued_at' = [queued_at EXCEPT ![r] = 0]
  /\ handing' = [handing EXCEPT ![r] = "no"]
  /\ UNCHANGED <<status, callback_secret, heard, recent, github, messages, workers, docker,
                 candidates, faults>>

\* _clear_needs_input, if the ticket it holds in memory has the label: taken off GitHub
\* and the mirror, or left when GitHub refuses or the label came after the ticket was read.
ClearNeedsInput(r) ==
  /\ handing[r] = "committed"
  /\ \E taken_off \in BOOLEAN :
       labelled' = [labelled EXCEPT ![TicketOf[r]] = @ /\ ~taken_off]
  /\ handing' = [handing EXCEPT ![r] = "cleared"]
  /\ UNCHANGED <<table, branch, pull, pr_number, messages, workers, docker, candidates,
                 faults>>

\* enqueue(run.id): the broker has the message and the call returns ...
HandOver(r) ==
  /\ handing[r] = "cleared"
  /\ messages' = [messages EXCEPT ![r] = @ + 1]
  /\ handing' = [handing EXCEPT ![r] = "no"]
  /\ UNCHANGED <<table, github, workers, docker, candidates, faults>>

\* ... or the broker has it, but the connection breaks before its reply and the call raises.
HandOverUnanswered(r) ==
  /\ LostReplies
  /\ handing[r] = "cleared"
  /\ messages' = [messages EXCEPT ![r] = @ + 1]
  /\ handing' = [handing EXCEPT ![r] = "refused"]
  /\ UNCHANGED <<table, github, workers, docker, candidates, faults>>

\* The call raised: cancel the run so that it cannot block retries. The status it is
\* checked against is the one this session wrote ("queued"), no lock is taken, and only
\* changed columns are written, which callback_secret (None in memory) is not.
EnqueueFails(r) ==
  /\ handing[r] \in {"cleared", "refused"}
  /\ ~RowLocked(r)
  /\ status' = [status EXCEPT ![r] = "cancelled"]
  /\ queued_at' = [queued_at EXCEPT ![r] = 0]
  /\ recent' = [recent EXCEPT ![r] = FALSE]
  /\ handing' = [handing EXCEPT ![r] = "no"]
  /\ UNCHANGED <<callback_secret, heard, github, messages, workers, docker,
                 candidates, faults>>

\* The API process dies between the insert and the hand-over.
HandlerDies(r) ==
  /\ handing[r] \in {"committed", "cleared", "refused"}
  /\ Fault("api")
  /\ handing' = [handing EXCEPT ![r] = "no"]
  /\ UNCHANGED <<table, github, messages, workers, docker, candidates>>

\* cancel_run, and the first half of rerun_ticket (its second half is an enqueue_run).
Cancel(r) ==
  /\ status[r] \in ACTIVE_STATUSES
  /\ ~RowLocked(r)
  /\ record_transition(r, "cancelled")
  /\ UNCHANGED <<github, queue, workers, docker, candidates, faults>>

-----------------------------------------------------------------------------
(* The worker: from the queue message to the claim. *)

\* Celery delivers the message; execute_run lists the sandboxes nobody supervises.
Deliver(w, r) ==
  /\ pc[w] = "idle"
  /\ messages[r] > 0
  /\ messages' = [messages EXCEPT ![r] = @ - 1]
  /\ job' = [job EXCEPT ![w] = r]
  /\ todo' = [todo EXCEPT ![w] = Orphans]
  /\ Goto(w, "sweep")
  /\ UNCHANGED <<table, github, handing, found, bundle, target, repo_lock, docker,
                 candidates, faults>>

\* One round of sweep_orphans: the sandbox is killed and removed; its run, if claimed or
\* running, fails. A queued or finished run is left as it is.
SweepOne(w, r) ==
  /\ pc[w] \in {"boot", "sweep"}
  /\ r \in todo[w]
  /\ ~RowLocked(r)
  /\ Remove({r})
  /\ todo' = [todo EXCEPT ![w] = @ \ {r}]
  /\ IF status[r] \in SILENT
       THEN record_transition(r, "failed")
       ELSE UNCHANGED table
  /\ UNCHANGED <<github, queue, pc, job, found, bundle, target, repo_lock, candidates,
                 faults>>

\* The sweep is through, or an exception (Docker, the database) ended it early.
SweepDone(w) ==
  /\ pc[w] \in {"boot", "sweep"}
  /\ \/ todo[w] = {} /\ UNCHANGED faults
     \/ todo[w] # {} /\ Fault("sweep")
  /\ Goto(w, IF pc[w] = "boot" THEN "idle" ELSE "claim")
  /\ todo' = [todo EXCEPT ![w] = {}]
  /\ UNCHANGED <<table, github, queue, job, found, bundle, target, repo_lock, docker,
                 candidates>>

ClaimRowOfActiveRun(w) ==
  /\ pc[w] = "claim"
  /\ status[job[w]] \in ACTIVE_STATUSES
  /\ ~RowLocked(job[w])
  /\ Goto(w, "repo_lock")
  /\ UNCHANGED <<table, github, queue, job, todo, found, bundle, target, repo_lock,
                 docker, candidates, faults>>

\* _claim: lock the row, unless another transaction has it (SKIP LOCKED) or it is no
\* longer queued; then the task returns without having done anything.
ClaimRow(w) ==
  /\ pc[w] = "claim"
  /\ status[job[w]] = "queued"
  /\ ~RowLocked(job[w])
  /\ Goto(w, "repo_lock")
  /\ UNCHANGED <<table, github, queue, job, todo, found, bundle, target, repo_lock,
                 docker, candidates, faults>>

NotClaimable(w) ==
  /\ pc[w] = "claim"
  /\ status[job[w]] # "queued" \/ RowLocked(job[w])
  /\ Leave(w)
  /\ UNCHANGED <<table, github, queue, candidates, faults>>

\* The runs that count against the repository's limit, and the queued ones that go first.
ActiveIn(p) == {r \in Runs : Repo(r) = p /\ status[r] \in SILENT}

OlderWaitingForEver(r) ==
  {q \in Runs \ {r} : /\ Repo(q) = Repo(r) /\ status[q] = "queued"
                      /\ queued_at[q] < queued_at[r]}

OlderWaiting(r) ==
  {q \in Runs \ {r} : /\ Repo(q) = Repo(r) /\ status[q] = "queued"
                      /\ queued_at[q] < queued_at[r] /\ recent[q]}

SlotFree(r) ==
  /\ Cardinality(ActiveIn(Repo(r))) < MaxRunsPerRepo
  /\ OlderWaiting(r) = {}

CountRunsUnlocked(w) ==
  /\ pc[w] = "repo_lock"
  /\ SlotFree(job[w])
  /\ repo_lock' = [repo_lock EXCEPT ![Repo(job[w])] = w]
  /\ Goto(w, "admit")
  /\ UNCHANGED <<table, github, queue, job, todo, found, bundle, target, docker,
                 candidates, faults>>

\* pg_advisory_xact_lock and the two counts under it. With a slot free the transaction
\* goes on to claim; otherwise it rolls back and RepoBusy sends the message around again.
CountRuns(w) ==
  LET r == job[w] IN
  /\ pc[w] = "repo_lock"
  /\ repo_lock[Repo(r)] = NoWorker
  /\ SlotFree(r)
  /\ repo_lock' = [repo_lock EXCEPT ![Repo(r)] = w]
  /\ Goto(w, "admit")
  /\ UNCHANGED <<table, github, queue, job, todo, found, bundle, target, docker,
                 candidates, faults>>

RepoBusy(w) ==
  LET r == job[w] IN
  /\ pc[w] = "repo_lock"
  /\ repo_lock[Repo(r)] = NoWorker
  /\ ~SlotFree(r)
  /\ messages' = [messages EXCEPT ![r] = @ + 1]
  /\ Leave(w)
  /\ UNCHANGED <<table, github, handing, candidates, faults>>

\* agent_id, callback_secret, status = claimed; the commit releases both locks.
Admit(w) ==
  /\ pc[w] = "admit"
  /\ record_transition(job[w], "claimed")
  /\ repo_lock' = [repo_lock EXCEPT ![Repo(job[w])] = NoWorker]
  /\ Goto(w, "prepare")
  /\ UNCHANGED <<github, queue, job, todo, found, bundle, target, docker, candidates,
                 faults>>

-----------------------------------------------------------------------------
(* The worker: the sandbox. *)

\* Credentials, base branch, .nextix.yml, tokens or comments are not to be had:
\* no_claude_credentials, empty_repo, bad_config, github_error ...
PrepareFails(w) ==
  /\ pc[w] = "prepare"
  /\ FinishAs(w, "failed")
  /\ UNCHANGED <<table, github, queue, docker, candidates, faults>>

\* ... or they are, and the container is created and started.
StartSandbox(w) ==
  /\ pc[w] = "prepare"
  /\ box' = [box EXCEPT ![job[w]] = "booting"]
  /\ owner' = [owner EXCEPT ![job[w]] = w]
  /\ Goto(w, "wait")
  /\ UNCHANGED <<table, github, queue, job, todo, found, bundle, target, repo_lock,
                 foreign, base, result, reported, candidates, faults>>

\* _wait: the container stopped by itself; or the run is over and the container is killed;
\* or the deadline passed and it is killed.
Wait(w) ==
  LET r == job[w] IN
  /\ pc[w] = "wait"
  /\ \/ /\ box[r] \in {"none", "exited"}
        /\ UNCHANGED <<box, found>>
     \/ /\ box[r] \in {"booting", "working"}
        /\ Terminal(r)
        /\ box' = [box EXCEPT ![r] = "exited"]
        /\ UNCHANGED found
     \/ /\ box[r] \in {"booting", "working"}
        /\ ~Terminal(r)
        /\ found' = [found EXCEPT ![w] = "late"]
        /\ box' = [box EXCEPT ![r] = "exited"]
  /\ Goto(w, "collect")
  /\ UNCHANGED <<table, github, queue, job, todo, bundle, target, repo_lock, owner, foreign,
                 base, result, reported, candidates, faults>>

ResultAsRead(w, r) == result[r]

\* What _conclude takes the outcome to be: without a readable result.json, the run timed
\* out if the deadline ended the wait, and failed otherwise.
Outcome(w, r) ==
  IF result[r] # "nothing" THEN result[r]
  ELSE IF found[w] = "late" THEN "timed_out" ELSE "failed"

\* _keep_alive starts (its first heartbeat only lands on an active run), result.json, the
\* bundle and the artifacts are read, and the `finally` removes the container.
Collect(w) ==
  LET r == job[w] IN
  /\ pc[w] = "collect"
  /\ heard' = [heard EXCEPT ![r] = @ \/ status[r] \in SILENT]
  /\ found' = [found EXCEPT ![w] = Outcome(w, r)]
  /\ bundle' = [bundle EXCEPT ![w] = base[r]]
  /\ Remove({r})
  /\ Goto(w, "conclude")
  /\ UNCHANGED <<status, callback_secret, queued_at, recent, github, queue, job, todo,
                 target, repo_lock, candidates, faults>>

\* An exception while starting, watching or reading the sandbox: sandbox_error. The
\* container is only removed after _finish (see Leave).
SandboxBreaks(w) ==
  /\ pc[w] \in {"prepare", "wait", "collect"}
  /\ FinishAs(w, "failed")
  /\ UNCHANGED <<table, github, queue, docker, candidates, faults>>

-----------------------------------------------------------------------------
(* The worker: _conclude. *)

\* Read without a lock: a run that ended is left alone, otherwise what was found decides.
Conclude(w) ==
  LET r == job[w] IN
  /\ pc[w] = "conclude"
  /\ \/ /\ Terminal(r)
        /\ Leave(w)
     \/ /\ ~Terminal(r)
        /\ UNCHANGED docker
        /\ \/ /\ found[w] \in {"timed_out", "failed"}
              /\ FinishAs(w, found[w])
           \/ /\ found[w] \in {"needs_input", "succeeded"}
              /\ Goto(w, IF found[w] = "needs_input" THEN "ask" ELSE "check")
              /\ UNCHANGED <<job, todo, found, bundle, target, repo_lock>>
  /\ UNCHANGED <<table, github, queue, candidates, faults>>

StillActiveAfterPush(w) ==
  /\ pc[w] \in {"check", "recheck"}
  /\ IF Terminal(job[w]) /\ pc[w] = "recheck"
       THEN Leave(w)
       ELSE /\ Goto(w, IF pc[w] = "check" THEN "push" ELSE "pr")
            /\ UNCHANGED <<job, todo, found, bundle, target, repo_lock, docker>>
  /\ UNCHANGED <<table, github, queue, candidates, faults>>

\* _still_active, before the push ("check") and after it ("recheck"): the row is read
\* under a lock, but the lock is released before the step that follows.
StillActive(w) ==
  /\ pc[w] \in {"check", "recheck"}
  /\ IF Terminal(job[w])
       THEN Leave(w)
       ELSE /\ Goto(w, IF pc[w] = "check" THEN "push" ELSE "pr")
            /\ UNCHANGED <<job, todo, found, bundle, target, repo_lock, docker>>
  /\ UNCHANGED <<table, github, queue, candidates, faults>>

PushForced(w) ==
  LET r == job[w]  t == TicketOf[r] IN
  /\ pc[w] = "push"
  /\ branch' = [branch EXCEPT ![t] = Append(SubSeq(@, 1, bundle[w]), r)]
  /\ Goto(w, "recheck")
  /\ UNCHANGED <<job, todo, found, bundle, target, repo_lock>>
  /\ UNCHANGED <<table, labelled, pull, pr_number, queue, docker, candidates, faults>>

\* git push without force: the remote branch must still be what the sandbox cloned.
Push(w) ==
  LET r == job[w]  t == TicketOf[r] IN
  /\ pc[w] = "push"
  /\ Len(branch[t]) = bundle[w]
  /\ branch' = [branch EXCEPT ![t] = Append(@, r)]
  /\ \/ /\ Goto(w, "recheck")
        /\ UNCHANGED <<job, todo, found, bundle, target, repo_lock>>
     \/ FinishAs(w, "failed") \* pushed, but git could not tell: push_failed
  /\ UNCHANGED <<table, labelled, pull, pr_number, queue, docker, candidates, faults>>

\* github_error, secret_in_changes, or push_failed with nothing pushed; a branch that
\* moved on since the clone is always refused.
PushFails(w) ==
  /\ pc[w] = "push"
  /\ FinishAs(w, "failed")
  /\ UNCHANGED <<table, github, queue, docker, candidates, faults>>

OpenPullIgnoringErrors(w) ==
  /\ pc[w] = "pr"
  /\ \E opened \in BOOLEAN : pull' = [pull EXCEPT ![TicketOf[job[w]]] = @ \/ opened]
  /\ Goto(w, "link")
  /\ UNCHANGED <<job, todo, found, bundle, target, repo_lock>>
  /\ UNCHANGED <<table, labelled, branch, pr_number, queue, docker, candidates, faults>>

\* _open_or_update_pr; GitHub may do it and still answer with an error (pr_failed).
OpenPull(w) ==
  /\ pc[w] = "pr"
  /\ \/ /\ pull' = [pull EXCEPT ![TicketOf[job[w]]] = TRUE]
        /\ \/ /\ Goto(w, "link")
              /\ UNCHANGED <<job, todo, found, bundle, target, repo_lock>>
           \/ FinishAs(w, "failed")
     \/ UNCHANGED pull /\ FinishAs(w, "failed")
  /\ UNCHANGED <<table, labelled, branch, pr_number, queue, docker, candidates, faults>>

\* The ticket takes the pull request's number, "open", and its head.
LinkPull(w) ==
  /\ pc[w] = "link"
  /\ pr_number' = [pr_number EXCEPT ![TicketOf[job[w]]] = TRUE]
  /\ FinishAs(w, "succeeded")
  /\ UNCHANGED <<table, labelled, branch, pull, queue, docker, candidates, faults>>

\* _needs_input up to its first commit: the locked check, then run.question.
Ask(w) ==
  /\ pc[w] = "ask"
  /\ IF Terminal(job[w])
       THEN Leave(w)
       ELSE /\ Goto(w, "label")
            /\ UNCHANGED <<job, todo, found, bundle, target, repo_lock, docker>>
  /\ UNCHANGED <<table, github, queue, candidates, faults>>

\* nextix:needs-input goes on the issue and the mirror, unless GitHub refuses.
AddLabel(w) ==
  /\ pc[w] = "label"
  /\ \E put_on \in BOOLEAN :
       labelled' = [labelled EXCEPT ![TicketOf[job[w]]] = @ \/ put_on]
  /\ FinishAs(w, "needs_input")
  /\ UNCHANGED <<table, branch, pull, pr_number, queue, docker, candidates, faults>>

\* An exception anywhere in _conclude (a database error, a bug): _fail_publish.
PublishBreaks(w) ==
  /\ pc[w] \in PUBLISHING
  /\ found[w] \in Results
  /\ FinishAs(w, "failed")
  /\ UNCHANGED <<table, github, queue, docker, candidates, faults>>

\* _fail_publish fails too; the task returns and leaves the run to the reaper.
PublishAbandoned(w) ==
  /\ pc[w] \in PUBLISHING
  /\ Fault("abandon")
  /\ Leave(w)
  /\ UNCHANGED <<table, github, queue, candidates>>

\* _finish. Each round locks the row and reads it again: over already, nothing to do; a
\* claimed run that did not fail passes through running first, which gives up the lock;
\* otherwise the terminal status is recorded.
Finish(w) ==
  LET r == job[w] IN
  /\ pc[w] = "finish"
  /\ \/ /\ Terminal(r)
        /\ Leave(w)
        /\ UNCHANGED table
     \/ /\ status[r] = "claimed" /\ target[w] # "failed"
        /\ record_transition(r, "running")
        /\ UNCHANGED <<workers, docker>>
     \/ /\ ~Terminal(r)
        /\ status[r] = "claimed" => target[w] = "failed"
        /\ record_transition(r, target[w])
        /\ Leave(w)
  /\ UNCHANGED <<github, queue, candidates, faults>>

\* Celery's soft time limit, wherever the run is: keep_alive stops, then time_out_run
\* kills and removes the sandbox ...
SoftTimeLimit(w) ==
  /\ pc[w] \in EXECUTING \ {"time_out"}
  /\ Fault("limit")
  /\ Goto(w, "time_out")
  /\ found' = [found EXCEPT ![w] = "unread"]
  /\ bundle' = [bundle EXCEPT ![w] = 0]
  /\ Remove({job[w]})
  /\ UNCHANGED <<table, github, queue, job, todo, target, repo_lock, candidates>>

\* ... and looks, without a lock, whether there is a run to time out.
TimeOut(w) ==
  /\ pc[w] = "time_out"
  /\ IF status[job[w]] \in SILENT
       THEN FinishAs(w, "timed_out") /\ UNCHANGED docker
       ELSE Leave(w)
  /\ UNCHANGED <<table, github, queue, candidates, faults>>

-----------------------------------------------------------------------------
(* Worker processes come and go. *)

AcknowledgedEarly(dying, r) == 0

\* The messages of r that dying processes had taken and not acknowledged (acks_late).
Unacknowledged(dying, r) == Cardinality({w \in dying : job[w] = r})

\* What a set of dying processes leaves: open transactions roll back, unacknowledged
\* messages return to the queue, their containers run on with nobody behind the label.
Die(dying) ==
  /\ pc' = [w \in Workers |-> IF w \in dying THEN "dead" ELSE pc[w]]
  /\ job' = [w \in Workers |-> IF w \in dying THEN NoRun ELSE job[w]]
  /\ todo' = [w \in Workers |-> IF w \in dying THEN {} ELSE todo[w]]
  /\ found' = [w \in Workers |-> IF w \in dying THEN "unread" ELSE found[w]]
  /\ bundle' = [w \in Workers |-> IF w \in dying THEN 0 ELSE bundle[w]]
  /\ target' = [w \in Workers |-> IF w \in dying THEN "failed" ELSE target[w]]
  /\ repo_lock' = [p \in Repos |-> IF repo_lock[p] \in dying THEN NoWorker
                                   ELSE repo_lock[p]]
  /\ messages' = [r \in Runs |-> messages[r] + Unacknowledged(dying, r)]
  /\ owner' = [r \in Runs |-> IF owner[r] \in dying THEN NoWorker ELSE owner[r]]
  /\ UNCHANGED <<table, github, handing, box, base, result, reported, candidates>>

Crash(w) ==
  /\ pc[w] # "dead"
  /\ Fault("crash")
  /\ Die({w})
  /\ UNCHANGED foreign

\* The runner container is recreated: every process dies and the new host name makes the
\* containers of the old one another runner's business (owner_is_mine).
Recreate ==
  /\ Fault("recreate")
  /\ Die(Workers)
  /\ foreign' = {r \in Runs : box[r] # "none"}

\* The main process starts again and sweeps first (worker_ready), or only a pool process
\* was replaced and goes straight to the queue.
Restart(w) ==
  /\ pc[w] = "dead"
  /\ \/ Goto(w, "boot") /\ todo' = [todo EXCEPT ![w] = Orphans]
     \/ Goto(w, "idle") /\ UNCHANGED todo
  /\ UNCHANGED <<table, github, queue, job, found, bundle, target, repo_lock, docker,
                 candidates, faults>>

\* The broker's visibility timeout (one hour) is shorter than the longest run: the
\* message of a run in progress is delivered again.
Redeliver(w) ==
  /\ pc[w] \in EXECUTING
  /\ messages[job[w]] < MaxCopies
  /\ messages' = [messages EXCEPT ![job[w]] = @ + 1]
  /\ UNCHANGED <<table, github, handing, workers, docker, candidates, faults>>

-----------------------------------------------------------------------------
(* The sandbox: agent-image/runner.py, and its callbacks into run_events. *)

\* _set_up_repo: the existing branch, if there is one, is what the agent builds on.
Clone(r) ==
  /\ box[r] = "booting"
  /\ box' = [box EXCEPT ![r] = "working"]
  /\ base' = [base EXCEPT ![r] = Len(branch[TicketOf[r]])]
  /\ UNCHANGED <<table, github, queue, workers, owner, foreign, result, reported,
                 candidates, faults>>

\* A batch of events arrives at the API, as run_events' first transaction. A finished run
\* answers 410, which stops the runner; a signature that fits the row's secret proves the
\* sandbox alive, and a batch with the `running` state on a claimed run goes on to a
\* second transaction. (401 drops the batch; so does a lost request.)
Callback(r) ==
  /\ box[r] \in {"booting", "working"}
  /\ \/ /\ Terminal(r)
        /\ box' = [box EXCEPT ![r] = "exited"]
        /\ UNCHANGED <<heard, reported>>
     \/ /\ ~Terminal(r) /\ callback_secret[r]
        /\ heard' = [heard EXCEPT ![r] = TRUE]
        /\ \/ UNCHANGED reported
           \/ /\ box[r] = "working" /\ status[r] = "claimed"
              /\ reported' = reported \union {r}
        /\ UNCHANGED box
  /\ UNCHANGED <<status, callback_secret, queued_at, recent, github, queue,
                 workers, owner, foreign, base, result, candidates, faults>>

StartRunningUnchecked(r) ==
  /\ r \in reported
  /\ reported' = reported \ {r}
  /\ record_transition(r, "running")
  /\ UNCHANGED <<github, queue, workers, box, owner, foreign, base, result, candidates,
                 faults>>

\* run_events' second transaction: the row is locked and read again, since the first
\* commit released it.
StartRunning(r) ==
  /\ r \in reported
  /\ reported' = reported \ {r}
  /\ IF status[r] = "claimed" THEN record_transition(r, "running") ELSE UNCHANGED table
  /\ UNCHANGED <<github, queue, workers, box, owner, foreign, base, result, candidates,
                 faults>>

\* The runner saves result.json and exits; a result with work needs a clone.
RunnerExits(r) ==
  /\ \/ box[r] = "working" /\ \E what \in Results : result' = [result EXCEPT ![r] = what]
     \/ box[r] = "booting" /\ result' = [result EXCEPT ![r] = "failed"]
  /\ box' = [box EXCEPT ![r] = "exited"]
  /\ UNCHANGED <<table, github, queue, workers, owner, foreign, base, reported, candidates,
                 faults>>

\* The container is killed from outside, or dies before the result is written.
SandboxDies(r) ==
  /\ box[r] \in {"booting", "working"}
  /\ box' = [box EXCEPT ![r] = "exited"]
  /\ UNCHANGED <<table, github, queue, workers, owner, foreign, base, result, reported,
                 candidates, faults>>

-----------------------------------------------------------------------------
(* Time and the reaper. *)

\* A live worker heartbeats on the sandbox's behalf (every 20 s, well inside the timeout).
KeptAlive(r) ==
  \E w \in Workers : job[w] = r /\ pc[w] \in PUBLISHING /\ found[w] \in Results

\* HEARTBEAT_TIMEOUT passes without a heartbeat: nobody sends one, or they get lost.
GoSilent(r) ==
  /\ heard[r]
  /\ status[r] \in SILENT
  /\ ~KeptAlive(r)
  /\ heard' = [heard EXCEPT ![r] = FALSE]
  /\ UNCHANGED <<status, callback_secret, queued_at, recent, github, queue,
                 workers, docker, candidates, faults>>

\* Ten minutes pass in the queue.
GrowOld(r) ==
  /\ recent[r]
  /\ status[r] = "queued"
  /\ recent' = [recent EXCEPT ![r] = FALSE]
  /\ UNCHANGED <<status, callback_secret, heard, queued_at, github, queue,
                 workers, docker, candidates, faults>>

ReaperScansRunning ==
  /\ candidates = {}
  /\ candidates' = {r \in Runs : status[r] = "running" /\ ~heard[r]}
  /\ candidates' # {}
  /\ UNCHANGED <<table, github, queue, workers, docker, faults>>

\* reap: the scan, without locks ...
ReaperScans ==
  /\ candidates = {}
  /\ candidates' = {r \in Runs : status[r] \in SILENT /\ ~heard[r]}
  /\ candidates' # {}
  /\ UNCHANGED <<table, github, queue, workers, docker, faults>>

ReapUnchecked(r) ==
  /\ r \in candidates
  /\ candidates' = candidates \ {r}
  /\ IF status[r] \in SILENT THEN record_transition(r, "failed") ELSE UNCHANGED table
  /\ UNCHANGED <<github, queue, workers, docker, faults>>

\* ... then each candidate is looked at again under its row lock, and failed if it is
\* still silent. Its container is killed where the reaper can reach Docker.
Reap(r) ==
  /\ r \in candidates
  /\ candidates' = candidates \ {r}
  /\ IF status[r] \in SILENT /\ ~heard[r]
       THEN /\ record_transition(r, "failed")
            /\ IF ReaperHasSocket
                 THEN Remove({r})
                 ELSE UNCHANGED docker
       ELSE UNCHANGED <<table, docker>>
  /\ UNCHANGED <<github, queue, workers, faults>>

-----------------------------------------------------------------------------
(* The specification. *)

Api(r) ==
  \/ Begin(r) \/ Insert(r) \/ InsertRefused(r) \/ ClearNeedsInput(r)
  \/ HandOver(r) \/ HandOverUnanswered(r)
  \/ EnqueueFails(r) \/ HandlerDies(r) \/ Cancel(r)

\* A worker's own progress through execute_run, exceptions included.
Work(w) ==
  \/ \E r \in Runs : SweepOne(w, r)
  \/ SweepDone(w) \/ ClaimRow(w) \/ NotClaimable(w) \/ CountRuns(w) \/ RepoBusy(w)
  \/ Admit(w) \/ PrepareFails(w) \/ StartSandbox(w) \/ Wait(w)
  \/ Collect(w) \/ SandboxBreaks(w) \/ Conclude(w) \/ StillActive(w) \/ Push(w)
  \/ PushFails(w) \/ OpenPull(w) \/ LinkPull(w) \/ Ask(w) \/ AddLabel(w) \/ Finish(w)
  \/ TimeOut(w) \/ Restart(w)

Trouble(w) ==
  \/ PublishBreaks(w) \/ PublishAbandoned(w) \/ SoftTimeLimit(w) \/ Crash(w)
  \/ Redeliver(w)

Sandbox(r) ==
  Clone(r) \/ Callback(r) \/ StartRunning(r) \/ RunnerExits(r) \/ SandboxDies(r)

Time(r) == GoSilent(r) \/ GrowOld(r)

Next ==
  \/ \E r \in Runs : Api(r) \/ Sandbox(r) \/ Time(r) \/ Reap(r)
  \/ \E w \in Workers : Work(w) \/ Trouble(w) \/ \E r \in Runs : Deliver(w, r)
  \/ ReaperScans
  \/ Recreate

Spec == Init /\ [][Next]_vars

(* Fairness. A worker process that lives keeps executing (WF), waiting transactions get  *)
(* Postgres's first-come locks (SF), Celery hands out every waiting message (SF), the    *)
(* runner stops at its own deadline (WF), beat runs the reaper (WF) and time passes: a   *)
(* run nobody heartbeats for goes silent, a queued run grows old. API calls, cancels,    *)
(* callbacks and faults are never promised.                                              *)
Fairness ==
  /\ \A w \in Workers : WF_vars(Work(w))
  /\ \A w \in Workers : SF_vars(CountRuns(w) \/ RepoBusy(w))
  /\ \A r \in Runs :
       /\ WF_vars(ClearNeedsInput(r)) /\ WF_vars(HandOver(r))
       /\ SF_vars(\E w \in Workers : Deliver(w, r))
       /\ WF_vars(RunnerExits(r) \/ SandboxDies(r))
       /\ WF_vars(GoSilent(r) /\ box[r] \notin {"booting", "working"})
       /\ WF_vars(GrowOld(r))
       /\ WF_vars(Reap(r))
  /\ WF_vars(ReaperScans)

FairSpec == Spec /\ Fairness

-----------------------------------------------------------------------------
(* Invariants. *)

\* A ticket never has two active runs: enqueue_run's check and the partial unique index.
OneActiveRunPerTicket ==
  \A r, q \in Runs :
    r # q /\ TicketOf[r] = TicketOf[q]
      => ~(status[r] \in ACTIVE_STATUSES /\ status[q] \in ACTIVE_STATUSES)

\* However many workers claim at once, a repository never has more claimed and running
\* runs than NEXTIX_MAX_RUNS_PER_REPO (docs/phase6.md, decision 2; _claim).
RunsPerRepoAreCapped ==
  \A p \in Repos : Cardinality(ActiveIn(p)) <= MaxRunsPerRepo

\* A run holds a callback secret exactly while it is claimed or running: every callback
\* of a live sandbox can be verified, and none of a finished one (docs/phase3.md, 7).
SecretExactlyWhileWorking ==
  \A r \in Runs : callback_secret[r] <=> status[r] \in SILENT

\* Delivered twice, redelivered after an hour, requeued by a crash: a run is still never
\* executed by two worker processes (_claim, acks_late).
OneSupervisorPerRun ==
  \A v, w \in Workers :
    v # w /\ pc[v] \in EXECUTING /\ pc[w] \in EXECUTING => job[v] # job[w]

\* A queued run that its API handler did not drop is still on its way: a message waits, a
\* worker holds it, or enqueue has yet to be called. No crash, RepoBusy round or skipped
\* lock loses it (celery_app.py: "returns its run to the queue instead of losing it").
NoQueuedRunIsForgotten ==
  \A r \in Runs :
    status[r] = "queued" =>
      messages[r] > 0 \/ handing[r] # "no" \/ \E w \in Workers : job[w] = r

\* A run only counts as succeeded once its commits are on the branch, the pull request is
\* open, and the ticket is linked to it: the card really can be In Review.
SucceededRunsArePublished ==
  \A r \in Runs :
    status[r] = "succeeded" =>
      LET t == TicketOf[r] IN
      /\ \E i \in 1..Len(branch[t]) : branch[t][i] = r
      /\ pull[t] /\ pr_number[t]

-----------------------------------------------------------------------------
(* Action properties. *)

Lifecycle == INSTANCE RunLifecycle

\* Every status change any process makes is one the state machine allows, so in
\* particular a finished run stays finished as it finished.
LifecycleSpec == Lifecycle!Spec

\* The branch only grows: whoever pushes, what an earlier run pushed stays (push.py:
\* "Never forced"), even when a rerun overtakes the worker of the run it cancelled.
NoCommitIsLost ==
  [][\A t \in Tickets :
       /\ Len(branch[t]) <= Len(branch'[t])
       /\ SubSeq(branch'[t], 1, Len(branch[t])) = branch[t]]_branch

Pushed(r) == \E i \in 1..Len(branch[TicketOf[r]]) : branch[TicketOf[r]][i] = r

\* An ended run whose worker is not past its last check will never be published.
Unpublishable(r) ==
  /\ Terminal(r)
  /\ ~Pushed(r)
  /\ \A w \in Workers : job[w] = r => pc[w] # "push"

\* Once a run was cancelled, reaped or timed out before its worker's check, nothing of it
\* reaches GitHub, no matter what its sandbox still delivers (_still_active).
EndedRunsStayUnpublished ==
  [][\A r \in Runs : Unpublishable(r) => Unpublishable(r)']_vars

\* The reaper never fails a run whose worker is publishing it: the sandbox is gone and
\* silent, but _keep_alive speaks for it, and a stale scan is checked again.
PublishingRunsAreNotReaped ==
  [][\A r \in Runs :
       r \in candidates \ candidates' /\ status'[r] # status[r] => ~KeptAlive(r)]_vars

\* A sweep never fails a run that a live process is still executing, whichever sibling or
\* restarted worker sweeps (docs/phase6.md, decision 3).
SweepSparesTheSupervised ==
  [][\A r \in Runs :
       /\ \E w \in Workers : r \in todo[w] \ todo'[w]
       /\ status'[r] # status[r]
       => ~\E w \in Workers : job[w] = r /\ pc[w] \in EXECUTING]_vars

-----------------------------------------------------------------------------
(* Liveness, under FairSpec. *)

\* A claimed or running run ends, whatever dies: worker, sandbox, or the publishing code.
WorkingRunsEnd == \A r \in Runs : status[r] \in SILENT ~> Terminal(r)

\* The sandbox of a finished run is removed in the end (docs/e2e.md:80), although only the
\* runner can reach Docker: by its worker, or by a sweep of whoever comes after it.
FinishedSandboxesAreRemoved ==
  \A r \in Runs : Terminal(r) /\ box[r] # "none" ~> box[r] = "none"

\* A queued run with a message is eventually claimed or cancelled: neither RepoBusy rounds
\* nor older runs hold it up for ever, not even one whose API handler died before it could
\* enqueue it and which therefore stays queued (_claim's ten-minute window).
QueuedRunsAreServed ==
  \A r \in Runs : status[r] = "queued" /\ messages[r] > 0 ~> status[r] # "queued"
=============================================================================
