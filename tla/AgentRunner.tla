---------------------------- MODULE AgentRunner ----------------------------
(***************************************************************************)
(* The runner inside the sandbox (agent-image/runner.py): from the clone   *)
(* to result.json, with its time budget, the processes the repository's    *)
(* own code leaves behind, a stop by the API and failing steps.  What it   *)
(* reports on the way is EventSink's subject.  The clock ticks every six   *)
(* seconds; a step with a time limit takes no time or all it may take.     *)
(***************************************************************************)
EXTENDS Integers

CONSTANTS
  Timeouts,     \* NEXTIX_TIMEOUT_MIN, in ticks
  CloneTimes,   \* how long the clone may take: git has no time limit
  GitTime,      \* how long a step on the clone takes
  MaxSetup,     \* the longest list of setup commands
  Edits         \* the sets of paths that the agent may change

ASSUME ClockAssumption ==
  Timeouts \subseteq Nat /\ CloneTimes \subseteq Nat /\ GitTime \in Nat /\ MaxSetup \in Nat

VARIABLES
  project,      \* the repo's setup (a number of commands), test and app; the timeout
  pc,           \* the step the runner is at
  clock,
  cloned,       \* history: when the clone was there
  command,      \* the next setup command
  deadline,     \* of the setup after the agent
  setup_ok,     \* _setup_ok
  snapshot,     \* _setup_snapshot: the paths setup changed, with their fingerprints
  gave_up,      \* history: git failed to tell what setup changed, or to leave it out
  worktree,     \* for each path, who changed it last
  question,     \* the agent left .nextix/needs-input.md
  leaky,        \* the agent's changes hold one of this run's credentials
  committed,    \* the changes in the runner's own commit
  branch,       \* the changes the branch in the clone adds to its base
  checked,      \* history: the last branch that was searched for secrets
  head_sha,     \* _head_sha, as the changes that commit adds
  bundle,       \* the bundle in the output directory
  digest,       \* _bundle_digest: the bundle as it was written
  leftover,     \* a process of an earlier step is still running
  missed,       \* history: a sweep has left a process running
  stop,         \* request_stop was called
  result,       \* the RunResult so far
  saved         \* result.json

\* Steps, by the variables they leave alone.
timing == <<clock, cloned, deadline>>
setting == <<command, setup_ok, snapshot, gave_up>>
changes == <<worktree, question, leaky, committed, branch>>
shipping == <<checked, head_sha, bundle, digest>>
others == <<leftover, missed>>
vars == <<project, pc, timing, setting, changes, shipping, others, stop, result, saved>>

-----------------------------------------------------------------------------
(* Constants of the module, in ticks of six seconds. *)

MIN_STEP == 1         \* MIN_STEP_S
COMMAND_CAP == 100    \* COMMAND_CAP_S
RESERVE_MAX == 100    \* POST_AGENT_RESERVE_MAX_S
KILL_GRACE == 1       \* KILL_GRACE_S: a command may overrun by that
APP_OVERRUN == 5      \* the last probe of both hosts, and the app's own kill grace
STOP_GRACE == 3       \* stop_grace_s
WORKER_GRACE == 20    \* the worker kills the container two minutes after the timeout

Least(a, b) == IF a < b THEN a ELSE b
Latest(a, b) == IF a < b THEN b ELSE a

Projects == [setup: 0..MaxSetup, test: BOOLEAN, app: BOOLEAN, timeout: Timeouts]

has_post_agent_steps(p) == p.test \/ p.app

\* A wrong budget: setup may use the agent's whole window.
PrepWithoutShare(p) ==
  LET reserve == IF has_post_agent_steps(p)
                   THEN Least(RESERVE_MAX, (p.timeout * 3) \div 10) ELSE 0
      window == p.timeout - reserve
  IN  [before |-> (window * 6) \div 10, setup |-> window, agent |-> window, run |-> p.timeout]

plan_budget(p) ==
  LET reserve == IF has_post_agent_steps(p)
                   THEN Least(RESERVE_MAX, (p.timeout * 3) \div 10) ELSE 0
      window == p.timeout - reserve
      prep == window \div 2
  IN  [before |-> (prep * 6) \div 10, setup |-> prep, agent |-> window, run |-> p.timeout]

budget == plan_budget(project)
Left(due) == due - clock
NoTime(due) == Left(due) < MIN_STEP

-----------------------------------------------------------------------------
(* The clone, as far as it matters what is committed. *)

Files == {"source", "lockfile", "generated", "workflow"}
DIRS == {"generated"}            \* directories only setup creates
CI_CONFIG_PATHS == {"workflow"}
Authors == {"setup", "agent", "stray"}
Changes == Files \X Authors
Bundles == [by: {"nobody", "runner", "others"}, of: SUBSET Changes]
NoBundle == [by |-> "nobody", of |-> {}]
Meddled == [by |-> "others", of |-> {}]

Changed == {c \in Changes : worktree[c[1]] = c[2]}

\* Wrong: a directory counts as touched when the agent put something in it.
UntouchedFiles == {f \in Files : \E a \in Authors : <<f, a>> \in snapshot /\ worktree[f] = a}

\* Paths as setup left them; a directory is its own fingerprint whatever is in it.
Untouched == {f \in Files : \E a \in Authors :
                /\ <<f, a>> \in snapshot
                /\ f \in DIRS \/ worktree[f] = a}

\* redactor.has_secret(outgoing_changes(...))
HasSecret(work) == leaky /\ \E f \in Files : <<f, "agent">> \in work

-----------------------------------------------------------------------------

Statuses == {"none", "succeeded", "needs_input", "failed", "timed_out"}
Outcome(status, commits) == [status |-> status, commits |-> commits]
Results == [status: Statuses, commits: {0, 1}]
NoResult == Outcome("none", 0)
Failed == Outcome("failed", 0)
Succeeded(commits) == Outcome("succeeded", commits)

Init ==
  /\ project \in Projects
  /\ pc = "clone" /\ clock = 0 /\ cloned = 0 /\ deadline = 0
  /\ command = 1 /\ setup_ok = TRUE /\ snapshot = {} /\ gave_up = FALSE
  /\ worktree = [f \in Files |-> "head"]
  /\ question = FALSE /\ leaky = FALSE /\ committed = {} /\ branch = {}
  /\ checked = {} /\ head_sha = {} /\ bundle = NoBundle /\ digest = NoBundle
  /\ leftover = FALSE /\ missed = FALSE
  /\ stop = FALSE /\ result = NoResult /\ saved = NoResult

At(step) == pc = step /\ ~stop
Goto(step) == pc' = step /\ UNCHANGED result
Return(outcome) == pc' = "returned" /\ result' = outcome

Elapse(time) == clock' = clock + time /\ UNCHANGED <<cloned, deadline>>

\* A step's processes are gone with its process group, but for those that left it.
MayLeaveOne == leftover' \in {leftover, TRUE}

\* One pass over /proc; a process that forks meanwhile may get away.
Sweep == /\ leftover' \in {leftover, FALSE}
         /\ missed' = (missed \/ leftover')

Clone ==
  /\ At("clone")
  /\ \E t \in CloneTimes : clock' = clock + t /\ cloned' = clock + t
  /\ \/ Goto(IF project.app THEN "before" ELSE "setup")
     \/ Return(Failed)
  /\ UNCHANGED <<project, deadline, setting, changes, shipping, others, stop, saved>>

-----------------------------------------------------------------------------
(* Setup, in any of its three places: "setup_before", "setup", "setup_rerun". *)

\* Wrong: the commands are counted from zero.
CountedFromZero(step, ok, next) ==
  /\ command' = 0 /\ setup_ok' = (IF step = "setup" THEN ok ELSE setup_ok)
  /\ Goto(next)

\* The commands are over: all done, one failed, or no time for the next.
SetupIsOver(step, ok, next) ==
  /\ command' = 1 /\ setup_ok' = (IF step = "setup" THEN ok ELSE setup_ok)
  /\ Goto(next)

SetupWrites(step) ==
  IF step # "setup" THEN UNCHANGED worktree
  ELSE worktree' = [f \in Files |-> IF f \in {"lockfile", "generated"} THEN "setup" ELSE worktree[f]]

\* Wrong: a command gets its own limit, not what is left.
CappedOnly(due, ending) ==
  LET limit == COMMAND_CAP + KILL_GRACE
  IN  IF ending = "timed_out" THEN clock' = clock + limit ELSE clock' \in {clock, clock + limit}

\* ProcessShell.run: it ends well, fails, or is stopped at its limit.
Command(due, ending) ==
  LET limit == Least(COMMAND_CAP, Left(due)) + KILL_GRACE
  IN  IF ending = "timed_out" THEN clock' = clock + limit ELSE clock' \in {clock, clock + limit}

RunSetup(step, due, next) ==
  /\ At(step)
  /\ \/ /\ command > project.setup \/ NoTime(due)
        /\ SetupIsOver(step, command > project.setup, next)
        /\ UNCHANGED <<clock, worktree, leftover>>
     \/ /\ command <= project.setup /\ ~NoTime(due)
        /\ \E ending \in {"ok", "failed", "timed_out"} :
             /\ Command(due, ending)
             /\ IF ending = "ok"
                  THEN command' = command + 1 /\ UNCHANGED <<setup_ok, pc, result>>
                  ELSE SetupIsOver(step, FALSE, next)
        /\ SetupWrites(step)
        /\ MayLeaveOne
  /\ UNCHANGED <<project, cloned, deadline, snapshot, gave_up, question, leaky, committed,
                 branch, shipping, missed, stop, saved>>

-----------------------------------------------------------------------------
(* Screenshots: the app is started, waited for, captured and stopped. *)

App(due) ==
  \/ UNCHANGED clock     \* no time, the port is taken, it does not start or is quick
  \/ ~NoTime(due) /\ clock' = clock + Left(due) + APP_OVERRUN

Screenshots(step, due, next) ==
  /\ At(step)
  /\ App(due) /\ UNCHANGED <<cloned, deadline>>
  /\ MayLeaveOne /\ UNCHANGED missed
  /\ Goto(next)
  /\ UNCHANGED <<project, setting, changes, shipping, stop, saved>>

\* _capture_before: a worktree of the base, set up and captured, then removed.
CheckOutBase ==
  /\ At("before")
  /\ Elapse(GitTime)
  /\ \/ Goto("setup_before")
     \/ Goto("setup")       \* could not check out the base
  /\ UNCHANGED <<project, setting, changes, shipping, others, stop, saved>>

RemoveBase ==
  /\ At("remove_base")
  /\ Elapse(GitTime)
  /\ Sweep
  /\ Goto("setup")
  /\ UNCHANGED <<project, setting, changes, shipping, stop, saved>>

-----------------------------------------------------------------------------
(* The agent. *)

\* What setup did is recorded before the agent starts.
SnapshotChanges ==
  /\ At("snapshot")
  /\ \/ snapshot' = (IF project.setup > 0 THEN Changed ELSE {}) /\ UNCHANGED gave_up
     \/ gave_up' = TRUE /\ project.setup > 0 /\ UNCHANGED snapshot
  /\ Goto("agent")
  /\ UNCHANGED <<project, timing, command, setup_ok, changes, shipping, others, stop, saved>>

\* What the agent did to the clone: it changed paths, and may have committed everything.
AgentWorks ==
  \E touched \in Edits, commits_itself \in BOOLEAN :
    LET after == [f \in Files |-> IF f \in touched THEN "agent" ELSE worktree[f]]
    IN  /\ leaky' \in {FALSE, touched # {}}
        /\ IF commits_itself
             THEN /\ branch' = branch \union {c \in Changes : after[c[1]] = c[2]}
                  /\ worktree' = [f \in Files |-> "head"]
             ELSE worktree' = after /\ UNCHANGED branch

\* A usage limit, a billing problem, a rejected credential or an error: the run fails.
classify_failure == Failed

\* A clean end succeeds; the turn or cost limit is a failure too.
classify_result == {Succeeded(0), classify_failure}

RunAgent ==
  /\ At("agent")
  /\ LET remaining == Latest(0, Left(budget.agent))
     IN  \/ /\ clock' = clock + remaining + STOP_GRACE
            /\ result' = Outcome("timed_out", 0)
         \/ /\ remaining > 0
            /\ clock' \in {clock, clock + remaining}
            /\ result' \in classify_result
  /\ AgentWorks /\ question' \in BOOLEAN
  /\ MayLeaveOne /\ UNCHANGED missed
  /\ pc' = "after_agent"
  /\ UNCHANGED <<project, cloned, deadline, setting, committed, shipping, stop, saved>>

AfterAgent ==
  /\ At("after_agent")
  /\ Sweep
  /\ CASE result.status # "succeeded" -> Return(result)
       [] result.status = "succeeded" /\ question -> Return(Outcome("needs_input", 0))
       [] OTHER -> Goto("stage")
  /\ UNCHANGED <<project, timing, setting, changes, shipping, stop, saved>>

-----------------------------------------------------------------------------
(* _commit: stage, leave out, commit; search for secrets; bundle. *)

\* `git add -A', and CI configuration taken out again.
stage_changes == {c \in Changed : c[1] \notin CI_CONFIG_PATHS}

commit_staged(staged) == committed' = staged /\ branch' = branch \union staged

count_commits(b) == IF b = {} THEN 0 ELSE 1

Commit ==
  /\ At("stage")
  /\ Elapse(GitTime)
  /\ \E left_out \in {Untouched, {}} :
       /\ gave_up' = (gave_up \/ left_out # Untouched)
       /\ commit_staged({c \in stage_changes : c[1] \notin left_out})
  /\ IF count_commits(branch') = 0 THEN Return(Succeeded(0)) ELSE Goto("check")
  /\ UNCHANGED <<project, command, setup_ok, snapshot, worktree, question, leaky, shipping,
                 others, stop, saved>>

SecretInChanges ==
  /\ At("check")
  /\ checked' = branch
  /\ IF HasSecret(branch) THEN Return(Failed) ELSE Goto("bundle")
  /\ UNCHANGED <<project, timing, setting, changes, head_sha, bundle, digest, others, stop, saved>>

WriteBundle ==
  /\ At("bundle")
  /\ head_sha' = branch
  /\ bundle' = [by |-> "runner", of |-> branch] /\ digest' = bundle'
  /\ IF has_post_agent_steps(project)
       THEN Goto("check_changes") ELSE Return(Succeeded(1))
  /\ UNCHANGED <<project, timing, setting, changes, checked, others, stop, saved>>

-----------------------------------------------------------------------------
(* Setup again, the tests, the after screenshots. *)

Tests == IF project.test THEN "tests" ELSE "app_after"

CheckChanges ==
  /\ At("check_changes")
  /\ \E changed \in {\E a \in Authors : <<"lockfile", a>> \in branch, FALSE} :
       IF project.setup > 0 /\ (changed \/ ~setup_ok)
         THEN /\ deadline' = clock + (Left(budget.run) * 6) \div 10
              /\ Goto("setup_rerun")
         ELSE UNCHANGED deadline /\ Goto(Tests)
  /\ UNCHANGED <<project, clock, cloned, setting, changes, shipping, others, stop, saved>>

RunTests ==
  /\ At("tests")
  /\ \/ NoTime(budget.run) /\ UNCHANGED <<clock, leftover>>
     \/ /\ ~NoTime(budget.run)
        /\ \E ending \in {"ok", "failed", "timed_out"} : Command(budget.run, ending)
        /\ MayLeaveOne
  /\ Goto(IF project.app THEN "app_after" ELSE "keep")
  /\ UNCHANGED <<project, cloned, deadline, setting, changes, shipping, missed, stop, saved>>

\* Wrong: the bundle in the output directory is not looked at again.
KeepWhateverIsThere ==
  /\ At("keep")
  /\ Sweep
  /\ Return(Succeeded(1))
  /\ UNCHANGED <<project, timing, setting, changes, shipping, stop, saved>>

KeepBundle ==
  /\ At("keep")
  /\ Sweep
  /\ IF bundle = digest THEN Return(Succeeded(1)) ELSE Goto("rebundle")
  /\ UNCHANGED <<project, timing, setting, changes, shipping, stop, saved>>

\* The branch is put back to the commit that was checked, checked again and bundled.
BundleAgain ==
  /\ At("rebundle")
  /\ Elapse(GitTime)
  /\ branch' = head_sha /\ checked' = head_sha
  /\ IF HasSecret(head_sha)
       THEN Return(Failed) /\ UNCHANGED <<bundle, digest>>
       ELSE /\ bundle' = [by |-> "runner", of |-> head_sha] /\ digest' = bundle'
            /\ Return(Succeeded(1))
  /\ UNCHANGED <<project, setting, worktree, question, leaky, committed, head_sha, others,
                 stop, saved>>

-----------------------------------------------------------------------------
(* Whatever goes wrong, and the end. *)

RUNS_REPO_CODE == {"setup_before", "app_before", "setup", "agent", "setup_rerun", "tests",
                   "app_after"}

\* A process writes to the output directory, or commits to the branch.
Meddle ==
  /\ leftover \/ pc \in RUNS_REPO_CODE
  /\ \/ bundle' = Meddled /\ UNCHANGED branch
     \/ branch' = branch \union {<<"source", "stray">>} /\ UNCHANGED bundle
  /\ UNCHANGED <<project, pc, timing, setting, worktree, question, leaky, committed, checked,
                 head_sha, digest, others, stop, result, saved>>

\* A step cut short while it wrote the bundle leaves a part of it.
HalfWritten == bundle' \in {bundle} \union (IF pc \in {"bundle", "rebundle"} THEN {Meddled} ELSE {})

\* git, the SDK or the file system raise: run() catches it.
Breaks ==
  /\ pc \in {"agent", "stage", "check", "bundle", "keep", "rebundle"} /\ ~stop
  /\ Return(Failed)
  /\ HalfWritten
  /\ UNCHANGED <<project, timing, setting, changes, checked, head_sha, digest, others, stop, saved>>

\* The API answers 410.
RequestStop ==
  /\ ~stop /\ pc # "exited"
  /\ stop' = TRUE
  /\ UNCHANGED <<project, pc, timing, setting, changes, shipping, others, result, saved>>

\* Wrong: a stop is not noticed while the agent works.
StoppedBetweenSteps ==
  /\ stop /\ pc \notin {"agent", "returned", "exited"}
  /\ Elapse(STOP_GRACE)
  /\ Return(Failed)
  /\ UNCHANGED <<project, setting, changes, shipping, others, stop, saved>>

\* _until_stopped: what is under way is cancelled, unless its result is there already.
Stopped ==
  /\ stop /\ pc \notin {"returned", "exited"}
  /\ Elapse(STOP_GRACE)
  /\ Return(Failed)
  /\ HalfWritten
  /\ leftover' \in {leftover, leftover \/ pc \in RUNS_REPO_CODE}
  /\ UNCHANGED <<project, setting, changes, checked, head_sha, digest, missed, stop, saved>>

\* Wrong: a bundle written before a failure stays.
SaveOnly ==
  /\ pc = "returned"
  /\ saved' \in {result, saved}
  /\ pc' = "exited"
  /\ UNCHANGED <<project, timing, setting, changes, shipping, others, stop, result>>

\* Without commits there is no bundle; the two writes share one handler for OSError.
Save ==
  /\ pc = "returned"
  /\ \/ bundle' = (IF result.commits = 0 THEN NoBundle ELSE bundle) /\ saved' = result
     \/ UNCHANGED <<bundle, saved>>
  /\ pc' = "exited"
  /\ UNCHANGED <<project, timing, setting, changes, checked, head_sha, digest, others, stop, result>>

Step ==
  \/ Clone \/ CheckOutBase \/ RemoveBase
  \/ RunSetup("setup_before", budget.before, "app_before")
  \/ Screenshots("app_before", budget.before, "remove_base")
  \/ RunSetup("setup", budget.setup, "snapshot")
  \/ SnapshotChanges \/ RunAgent \/ AfterAgent
  \/ Commit \/ SecretInChanges \/ WriteBundle \/ CheckChanges
  \/ RunSetup("setup_rerun", deadline, Tests)
  \/ RunTests
  \/ Screenshots("app_after", budget.run, "keep")
  \/ KeepBundle \/ BundleAgain
  \/ Breaks \/ Stopped \/ Save

Next == Step \/ RequestStop \/ Meddle

Spec == Init /\ [][Next]_vars

\* The runner's process goes on: every step has a time limit or is git's.
FairSpec == Spec /\ WF_vars(Step)

-----------------------------------------------------------------------------
(* Properties. *)

\* Every variable stays in its range.
TypeOK ==
  /\ project \in Projects
  /\ clock \in Nat /\ cloned \in Nat /\ deadline \in Int
  /\ command \in 1..(MaxSetup + 1) /\ setup_ok \in BOOLEAN /\ snapshot \subseteq Changes /\ gave_up \in BOOLEAN
  /\ worktree \in [Files -> Authors \union {"head"}]
  /\ question \in BOOLEAN /\ leaky \in BOOLEAN
  /\ committed \subseteq Changes /\ branch \subseteq Changes
  /\ checked \subseteq Changes /\ head_sha \subseteq Changes
  /\ bundle \in Bundles /\ digest \in Bundles
  /\ leftover \in BOOLEAN /\ missed \in BOOLEAN /\ stop \in BOOLEAN
  /\ result \in Results /\ saved \in Results

Ended == pc = "exited"

\* A bundle that result.json offers to the worker is the one the runner wrote, of the very
\* changes it searched for secrets last, whatever the tests, the app or what they left running
\* did to the file and the branch meanwhile (_keep_bundle), unless a sweep missed a process.
ShippedWasChecked ==
  Ended /\ saved.commits > 0 /\ ~missed =>
    bundle = [by |-> "runner", of |-> checked] /\ ~HasSecret(checked)

\* Without commits in result.json the runner leaves no bundle behind: it removed what a cancelled
\* or failed attempt had written, and only processes nobody swept can put one there again.
OnlySuccessLeavesABundle ==
  Ended /\ saved.status # "none" /\ saved.commits = 0 =>
    bundle = NoBundle \/ leftover

\* While the runner stages, commits, searches and bundles, none of the repository's code is
\* running: neither the agent's processes, nor setup's, nor those of the before screenshots.
NothingRunsWhileCommitting ==
  pc \in {"stage", "check", "bundle", "rebundle"} => ~leftover \/ missed

\* The runner's commit holds every path the agent changed, except CI configuration and directories
\* setup made, and none that only setup changed, unless git failed to tell (unstage_untouched).
OnlyTheAgentsWorkIsCommitted ==
  pc \in {"check", "bundle"} =>
    /\ {<<f, "agent">> : f \in {f \in Files \ (CI_CONFIG_PATHS \union DIRS) : worktree[f] = "agent"}}
         \subseteq committed
    /\ \A f \in Files :
         /\ <<f, "setup">> \in committed => gave_up
         /\ f \in DIRS /\ <<f, "setup">> \in snapshot /\ <<f, "agent">> \in committed => gave_up
         /\ <<f, "agent">> \in committed => f \notin CI_CONFIG_PATHS

\* "The agent always keeps at least half" of its window, however long the before screenshots and
\* setup take: the overruns of stopped commands do not add up. The clone is not part of that
\* promise; a slow one uses up the shares of the steps before the agent and then the agent's.
AgentKeepsHalf ==
  pc = "agent" /\ cloned + GitTime <= budget.before =>
    2 * (clock - KILL_GRACE) <= budget.agent

\* The runner has its result before the worker kills the container, two minutes after the
\* timeout, also when every step takes all the time it may; only the clone can prevent it.
ResultIsInTime ==
  pc \in {"returned", "exited"} /\ ~stop => clock <= Latest(project.timeout, cloned) + WORKER_GRACE

\* run() ends, whatever fails, hangs or is stopped.
RunnerExits == <>(pc = "exited")
=============================================================================
