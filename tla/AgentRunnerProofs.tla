------------------------- MODULE AgentRunnerProofs -------------------------
(***************************************************************************)
(* What AgentRunner guarantees for any timeouts, any duration of the clone *)
(* and of git's steps, any number of setup commands and any edits of the   *)
(* agent: types, that nothing runs while the runner commits, and that the  *)
(* bundle it offers is the one it searched for secrets.                    *)
(***************************************************************************)
EXTENDS AgentRunner, TLAPS

-----------------------------------------------------------------------------
(* Types *)

\* The deadlines are whole numbers.
LEMMA BudgetType ==
  ASSUME TypeOK
  PROVE  budget.before \in Int /\ budget.setup \in Int /\ budget.agent \in Int /\ budget.run \in Int
<1>1. project.timeout \in Nat /\ project.test \in BOOLEAN /\ project.app \in BOOLEAN
  BY ClockAssumption DEF TypeOK, Projects
<1>2. QED
  BY <1>1 DEF budget, plan_budget, has_post_agent_steps, Least, RESERVE_MAX

\* A setup command or the tests end at a later time.
LEMMA CommandType ==
  ASSUME TypeOK, NEW due \in Int, ~NoTime(due), NEW ending, Command(due, ending)
  PROVE  clock' \in Nat
BY DEF TypeOK, Command, NoTime, Left, Least, MIN_STEP, COMMAND_CAP, KILL_GRACE

\* After a sweep something is left running or not, and so after any step of the repo's code.
LEMMA SweepType ==
  ASSUME TypeOK, Sweep
  PROVE  leftover' \in BOOLEAN /\ missed' \in BOOLEAN
<1>1. leftover' \in BOOLEAN
  BY Zenon DEF Sweep, TypeOK
<1>2. missed' \in BOOLEAN
  BY Zenon DEF Sweep
<1>3. QED
  BY <1>1, <1>2

\* Every step keeps the ranges of the changes, the bundle and the results.
LEMMA LeavesType ==
  ASSUME TypeOK, MayLeaveOne
  PROVE  leftover' \in BOOLEAN
BY Zenon DEF MayLeaveOne, TypeOK

\* What the runner may return is a result, and what is found in the output directory a bundle.
LEMMA ValueTypes ==
  /\ NoResult \in Results /\ Failed \in Results /\ Succeeded(0) \in Results
  /\ Succeeded(1) \in Results /\ Outcome("timed_out", 0) \in Results
  /\ Outcome("needs_input", 0) \in Results
  /\ NoBundle \in Bundles /\ Meddled \in Bundles
  /\ \A w \in SUBSET Changes : [by |-> "runner", of |-> w] \in Bundles
BY DEF NoResult, Failed, Succeeded, Outcome, Results, Statuses, NoBundle, Meddled, Bundles

\* The initial state is well typed.
LEMMA InitType == Init => TypeOK
<1> SUFFICES ASSUME Init PROVE TypeOK
  OBVIOUS
<1>1. command \in 1..(MaxSetup + 1)
  BY ClockAssumption DEF Init
<1>2. worktree \in [Files -> Authors \union {"head"}]
  BY DEF Init
<1>3. /\ setup_ok \in BOOLEAN /\ gave_up \in BOOLEAN /\ question \in BOOLEAN /\ leaky \in BOOLEAN
      /\ leftover \in BOOLEAN /\ missed \in BOOLEAN /\ stop \in BOOLEAN
  BY Zenon DEF Init
<1>4. clock \in Nat /\ cloned \in Nat /\ deadline \in Int
  BY DEF Init
<1>5. /\ bundle \in Bundles /\ digest \in Bundles /\ result \in Results /\ saved \in Results
      /\ project \in Projects
  BY ValueTypes, Zenon DEF Init
<1>6. /\ snapshot \subseteq Changes /\ committed \subseteq Changes /\ branch \subseteq Changes
      /\ checked \subseteq Changes /\ head_sha \subseteq Changes
  BY DEF Init
<1>7. QED
  BY <1>1, <1>2, <1>3, <1>4, <1>5, <1>6, Zenon DEF TypeOK

\* Each place where setup runs keeps the types.
LEMMA SetupType ==
  ASSUME TypeOK, NEW step, NEW due \in Int, NEW next, RunSetup(step, due, next)
  PROVE  TypeOK'
<1>1. worktree' \in [Files -> Authors \union {"head"}]
  BY DEF RunSetup, SetupWrites, TypeOK, Authors
<1>2. command' \in 1..(MaxSetup + 1)
  <2>1. project.setup \in 0..MaxSetup /\ MaxSetup \in Nat /\ command \in 1..(MaxSetup + 1)
    BY ClockAssumption DEF TypeOK, Projects
  <2>2. \/ command' = 1 \/ command' = command
        \/ command' = command + 1 /\ command <= project.setup
    BY Zenon DEF RunSetup, SetupIsOver
  <2>3. QED
    BY <2>1, <2>2
<1>3. setup_ok' \in BOOLEAN
  <2>1. CASE \E ok \in BOOLEAN : SetupIsOver(step, ok, next)
    BY <2>1, Zenon DEF SetupIsOver, TypeOK
  <2>2. CASE setup_ok' = setup_ok
    BY <2>2, Zenon DEF TypeOK
  <2>3. (command > project.setup) \in BOOLEAN
    OBVIOUS
  <2>4. QED
    BY <2>1, <2>2, <2>3, Zenon DEF RunSetup
<1>4. clock' \in Nat
  BY CommandType DEF RunSetup, TypeOK
<1>5. result' \in Results
  BY DEF RunSetup, SetupIsOver, Goto, TypeOK
<1>6. leftover' \in BOOLEAN
  BY LeavesType, Zenon DEF RunSetup, TypeOK
<1>7. QED
  BY <1>1, <1>2, <1>3, <1>4, <1>5, <1>6
  DEF RunSetup, TypeOK, shipping, Changes, Bundles

\* The screenshots keep the types.
LEMMA ScreenshotsType ==
  ASSUME TypeOK, NEW step, NEW due \in Int, NEW next, Screenshots(step, due, next)
  PROVE  TypeOK'
<1>1. clock' \in Nat
  BY DEF Screenshots, App, NoTime, Left, MIN_STEP, APP_OVERRUN, TypeOK
<1>2. QED
  BY <1>1, LeavesType DEF Screenshots, Goto, TypeOK, setting, changes, shipping

\* The agent keeps the types.
LEMMA AgentType ==
  ASSUME TypeOK, RunAgent
  PROVE  TypeOK'
<1>1. worktree' \in [Files -> Authors \union {"head"}] /\ leaky' \in BOOLEAN
  BY DEF RunAgent, AgentWorks, TypeOK, Authors
<1>2. branch' \subseteq Changes
  BY DEF RunAgent, AgentWorks, TypeOK
<1>3. clock' \in Nat
  BY BudgetType DEF RunAgent, Latest, Left, STOP_GRACE, TypeOK
<1>4. result' \in Results
  BY ValueTypes DEF RunAgent, classify_result, classify_failure
<1>5. QED
  BY <1>1, <1>2, <1>3, <1>4, LeavesType DEF RunAgent, TypeOK, setting, shipping

\* Every other step of the runner keeps the types.
LEMMA StepType ==
  ASSUME TypeOK, Step
  PROVE  TypeOK'
<1> USE ValueTypes DEF TypeOK, Goto, Return, timing, setting, changes, shipping, others
<1>1. CASE Clone
  BY <1>1, ClockAssumption DEF Clone
<1>2. CASE CheckOutBase
  BY <1>2, ClockAssumption DEF CheckOutBase, Elapse
<1>3. CASE RemoveBase
  BY <1>3, ClockAssumption, SweepType DEF RemoveBase, Elapse
<1>4. CASE SnapshotChanges
  <2>1. snapshot' \subseteq Changes
    BY <1>4 DEF SnapshotChanges, Changed
  <2>2. gave_up' \in BOOLEAN
    BY <1>4, Zenon DEF SnapshotChanges
  <2>3. QED
    BY <1>4, <2>1, <2>2 DEF SnapshotChanges
<1>5. CASE AfterAgent
  BY <1>5, SweepType DEF AfterAgent
<1>6. CASE Commit
  <2>1. committed' \subseteq Changes /\ branch' \subseteq Changes
    BY <1>6 DEF Commit, commit_staged, stage_changes, count_commits, Changed
  <2>2. QED
    BY <1>6, <2>1, ClockAssumption DEF Commit, commit_staged, stage_changes, count_commits, Elapse
<1>7. CASE SecretInChanges
  BY <1>7 DEF SecretInChanges
<1>8. CASE WriteBundle
  BY <1>8 DEF WriteBundle
<1>9. CASE CheckChanges
  BY <1>9, BudgetType DEF CheckChanges, Left
<1>10. CASE RunTests
  BY <1>10, CommandType, BudgetType, LeavesType DEF RunTests
<1>11. CASE KeepBundle
  BY <1>11, SweepType DEF KeepBundle
<1>12. CASE BundleAgain
  BY <1>12, ClockAssumption DEF BundleAgain, Elapse
<1>13. CASE Breaks
  BY <1>13 DEF Breaks, HalfWritten
<1>14. CASE Stopped
  <2>1. leftover' \in BOOLEAN
    BY <1>14, Zenon DEF Stopped
  <2>2. QED
    BY <1>14, <2>1 DEF Stopped, HalfWritten, Elapse, STOP_GRACE
<1>15. CASE Save
  BY <1>15 DEF Save
<1>16. QED
  BY <1>1, <1>2, <1>3, <1>4, <1>5, <1>6, <1>7, <1>8, <1>9, <1>10, <1>11, <1>12, <1>13, <1>14,
     <1>15, SetupType, ScreenshotsType, AgentType, BudgetType
  DEF Step

\* Types are kept by every step.
LEMMA NextType == TypeOK /\ [Next]_vars => TypeOK'
<1> SUFFICES ASSUME TypeOK, [Next]_vars PROVE TypeOK'
  OBVIOUS
<1>1. CASE Step
  BY <1>1, StepType
<1>2. CASE RequestStop
  BY <1>2 DEF RequestStop, TypeOK, timing, setting, changes, shipping, others
<1>3. CASE Meddle
  BY <1>3, ValueTypes DEF Meddle, TypeOK, timing, setting, others, Changes, Files, Authors
<1>4. CASE UNCHANGED vars
  BY <1>4 DEF vars, TypeOK, timing, setting, changes, shipping, others
<1>5. QED
  BY <1>1, <1>2, <1>3, <1>4 DEF Next

\* The runner's variables stay in their ranges, in particular the clock never runs backwards past
\* zero and setup never runs a command it does not have.
THEOREM TypeCorrect == Spec => []TypeOK
<1>1. Init => TypeOK
  BY InitType
<1>2. TypeOK /\ [Next]_vars => TypeOK'
  BY NextType
<1>3. QED
  BY <1>1, <1>2, PTL DEF Spec

-----------------------------------------------------------------------------
(* The bundle *)

\* Between AfterAgent's sweep and the bundle nothing may run, and after the bundle is written ...
COMMITTING == {"stage", "check", "bundle", "rebundle"}
BUNDLED == {"check_changes", "setup_rerun", "tests", "app_after", "keep", "rebundle"}

\* ... what the runner has in memory is what it searched. A result with commits is only there
\* when the bundle is that one too and no process is left that could change it.
Shipping ==
  /\ pc \in COMMITTING => ~leftover \/ missed
  /\ pc = "bundle" /\ ~missed => checked = branch /\ ~HasSecret(checked)
  /\ pc \in BUNDLED /\ ~missed =>
       head_sha = checked /\ digest = [by |-> "runner", of |-> checked] /\ ~HasSecret(checked)
  /\ result.commits > 0 => pc \in {"returned", "exited"}
  /\ pc = "returned" /\ result.commits > 0 /\ ~missed =>
       bundle = [by |-> "runner", of |-> checked] /\ ~HasSecret(checked) /\ ~leftover
  /\ pc # "exited" => saved = NoResult
  /\ pc = "exited" /\ saved.commits > 0 /\ ~missed =>
       bundle = [by |-> "runner", of |-> checked] /\ ~HasSecret(checked) /\ ~leftover
  /\ pc = "exited" /\ saved.status # "none" /\ saved.commits = 0 => bundle = NoBundle \/ leftover

\* The values that results may have.
LEMMA ResultValues ==
  /\ Failed.commits = 0 /\ NoResult.commits = 0 /\ NoResult.status = "none"
  /\ Succeeded(0).commits = 0 /\ Succeeded(1).commits = 1
  /\ Outcome("timed_out", 0).commits = 0 /\ Outcome("needs_input", 0).commits = 0
BY DEF Failed, NoResult, Succeeded, Outcome

\* A result has commits or none.
LEMMA CommitsType ==
  ASSUME TypeOK
  PROVE  result.commits \in {0, 1} /\ saved.commits \in {0, 1}
BY DEF TypeOK, Results

\* Work before anything is bundled, or with the bundle finished.
LEMMA WorkShips ==
  ASSUME TypeOK, Shipping, result'.commits = 0, UNCHANGED saved, missed => missed',
         pc' \notin COMMITTING \union {"returned", "exited"},
         \/ pc \notin COMMITTING \union BUNDLED \union {"returned", "exited"} /\ pc' \notin BUNDLED
         \/ /\ pc \in BUNDLED \ {"rebundle"} /\ pc' \in BUNDLED \ {"rebundle"}
            /\ UNCHANGED <<checked, head_sha, digest, leaky>>
  PROVE  Shipping'
<1>1. pc \in BUNDLED \ {"rebundle"} /\ leaky' = leaky /\ checked' = checked
        => HasSecret(checked)' = HasSecret(checked)
  BY DEF HasSecret
<1>2. QED
  BY <1>1, ResultValues, SMT DEF Shipping, COMMITTING, BUNDLED

\* A run that returns without commits ships nothing.
LEMMA EmptyHandedShips ==
  ASSUME TypeOK, Shipping, pc # "exited", pc' = "returned", result'.commits = 0, UNCHANGED saved
  PROVE  Shipping'
BY SMT DEF Shipping, COMMITTING, BUNDLED

\* Before the run returns, its result has no commits.
LEMMA NoCommitsYet ==
  ASSUME TypeOK, Shipping, pc \notin {"returned", "exited"}
  PROVE  result.commits = 0
BY CommitsType DEF Shipping

\* The steps before the agent's work is staged, and those after the bundle.
LEMMA WorkingStepsShip ==
  ASSUME TypeOK, Shipping,
         \/ Clone \/ CheckOutBase \/ RemoveBase \/ SnapshotChanges \/ RunAgent
         \/ CheckChanges \/ RunTests
         \/ RunSetup("setup_before", budget.before, "app_before")
         \/ RunSetup("setup", budget.setup, "snapshot")
         \/ RunSetup("setup_rerun", deadline, Tests)
         \/ Screenshots("app_before", budget.before, "remove_base")
         \/ Screenshots("app_after", budget.run, "keep")
  PROVE  Shipping'
<1> USE DEF COMMITTING, BUNDLED
<1>1. CASE Clone
  <2>1. CASE pc' = "returned"
    BY <1>1, <2>1, EmptyHandedShips, ResultValues DEF Clone, At, Goto, Return
  <2>2. CASE pc' # "returned"
    BY <1>1, <2>2, WorkShips, NoCommitsYet DEF Clone, At, Goto, Return, others
  <2>3. QED
    BY <2>1, <2>2
<1>2. CASE CheckOutBase
  BY <1>2, WorkShips, NoCommitsYet DEF CheckOutBase, At, Goto, others
<1>3. CASE RemoveBase
  BY <1>3, WorkShips, NoCommitsYet DEF RemoveBase, At, Goto, Sweep
<1>4. CASE SnapshotChanges
  BY <1>4, WorkShips, NoCommitsYet DEF SnapshotChanges, At, Goto, others
<1>5. CASE RunAgent
  BY <1>5, WorkShips, ResultValues DEF RunAgent, At, classify_result, classify_failure
<1>6. CASE CheckChanges
  BY <1>6, WorkShips, NoCommitsYet DEF CheckChanges, At, Goto, Tests, others, shipping, changes
<1>7. CASE RunTests
  BY <1>7, WorkShips, NoCommitsYet DEF RunTests, At, Goto, shipping, changes
<1>8. CASE RunSetup("setup_before", budget.before, "app_before")
  BY <1>8, WorkShips, NoCommitsYet DEF RunSetup, SetupIsOver, At, Goto
<1>9. CASE RunSetup("setup", budget.setup, "snapshot")
  BY <1>9, WorkShips, NoCommitsYet DEF RunSetup, SetupIsOver, At, Goto
<1>10. CASE RunSetup("setup_rerun", deadline, Tests)
  BY <1>10, WorkShips, NoCommitsYet DEF RunSetup, SetupIsOver, At, Goto, Tests, shipping
<1>11. CASE Screenshots("app_before", budget.before, "remove_base")
  BY <1>11, WorkShips, NoCommitsYet DEF Screenshots, At, Goto
<1>12. CASE Screenshots("app_after", budget.run, "keep")
  BY <1>12, WorkShips, NoCommitsYet DEF Screenshots, At, Goto, shipping, changes
<1>13. QED
  BY <1>1, <1>2, <1>3, <1>4, <1>5, <1>6, <1>7, <1>8, <1>9, <1>10, <1>11, <1>12

\* Committing: from the sweep after the agent to the bundle.
LEMMA CommittingShips ==
  ASSUME TypeOK, Shipping, AfterAgent \/ Commit \/ SecretInChanges \/ WriteBundle
  PROVE  Shipping'
<1> USE DEF COMMITTING, BUNDLED, At, Goto, Return
<1>1. CASE AfterAgent
  <2>1. CASE pc' = "returned"
    <3>1. result'.commits = 0
      BY <1>1, <2>1, ResultValues, NoCommitsYet, Zenon DEF AfterAgent
    <3>2. QED
      BY <1>1, <2>1, <3>1, EmptyHandedShips DEF AfterAgent
  <2>2. CASE pc' = "stage"
    <3>1. result' = result /\ result.commits = 0
      BY <1>1, <2>2, NoCommitsYet DEF AfterAgent
    <3>2. ~leftover' \/ missed'
      BY <1>1, Zenon DEF AfterAgent, Sweep
    <3>3. QED
      BY <1>1, <2>2, <3>1, <3>2 DEF AfterAgent, Shipping
  <2>3. QED
    BY <1>1, <2>1, <2>2, Zenon DEF AfterAgent
<1>2. CASE Commit
  <2>1. CASE pc' = "returned"
    BY <1>2, <2>1, EmptyHandedShips, ResultValues DEF Commit, commit_staged, stage_changes, count_commits
  <2>2. CASE pc' # "returned"
    BY <1>2, <2>2, NoCommitsYet DEF Commit, commit_staged, stage_changes, count_commits, Shipping, others
  <2>3. QED
    BY <2>1, <2>2
<1>3. CASE SecretInChanges
  <2>1. CASE HasSecret(branch)
    BY <1>3, <2>1, EmptyHandedShips, ResultValues DEF SecretInChanges
  <2>2. CASE ~HasSecret(branch)
    <3>1. ~HasSecret(checked)' /\ checked' = branch'
      BY <1>3, <2>2 DEF SecretInChanges, HasSecret, changes
    <3>2. QED
      BY <1>3, <2>2, <3>1, NoCommitsYet DEF SecretInChanges, Shipping, others
  <2>3. QED
    BY <2>1, <2>2
<1>4. CASE WriteBundle
  <2>1. HasSecret(checked)' = HasSecret(checked)
    BY <1>4 DEF WriteBundle, HasSecret, changes
  <2>2. CASE pc' = "returned"
    BY <1>4, <2>1, <2>2, ResultValues DEF WriteBundle, Shipping, others
  <2>3. CASE pc' # "returned"
    BY <1>4, <2>1, <2>3, NoCommitsYet DEF WriteBundle, Shipping, others
  <2>4. QED
    BY <2>2, <2>3
<1>5. QED
  BY <1>1, <1>2, <1>3, <1>4

\* Looking at the bundle again after the tests and the app.
LEMMA KeepingShips ==
  ASSUME TypeOK, Shipping, KeepBundle \/ BundleAgain
  PROVE  Shipping'
<1> USE DEF COMMITTING, BUNDLED, At, Goto, Return
<1>1. CASE KeepBundle
  <2>1. HasSecret(checked)' = HasSecret(checked)
    BY <1>1 DEF KeepBundle, HasSecret, changes, shipping
  <2>2. (~leftover' \/ missed') /\ (missed => missed')
    BY <1>1, Zenon DEF KeepBundle, Sweep
  <2>3. CASE bundle = digest
    BY <1>1, <2>1, <2>2, <2>3, ResultValues DEF KeepBundle, Shipping, shipping
  <2>4. CASE bundle # digest
    BY <1>1, <2>1, <2>2, <2>4, NoCommitsYet DEF KeepBundle, Shipping, shipping
  <2>5. QED
    BY <2>3, <2>4
<1>2. CASE BundleAgain
  <2>1. CASE HasSecret(head_sha)
    BY <1>2, <2>1, EmptyHandedShips, ResultValues DEF BundleAgain
  <2>2. CASE ~HasSecret(head_sha)
    <3>1. ~HasSecret(checked)'
      BY <1>2, <2>2 DEF BundleAgain, HasSecret
    <3>2. QED
      BY <1>2, <2>2, <3>1, ResultValues DEF BundleAgain, Shipping, others
  <2>3. QED
    BY <2>1, <2>2
<1>3. QED
  BY <1>1, <1>2

\* Failures, a stop, the end, and what other processes do.
LEMMA EndingShips ==
  ASSUME TypeOK, Shipping, Breaks \/ Stopped \/ Save \/ RequestStop \/ Meddle
  PROVE  Shipping'
<1> USE DEF COMMITTING, BUNDLED
<1>1. CASE Breaks
  BY <1>1, EmptyHandedShips, ResultValues DEF Breaks, Return
<1>2. CASE Stopped
  BY <1>2, EmptyHandedShips, ResultValues DEF Stopped, Return
<1>3. CASE Save
  <2>1. HasSecret(checked)' = HasSecret(checked)
    BY <1>3 DEF Save, HasSecret, changes
  <2>2. CASE bundle' = (IF result.commits = 0 THEN NoBundle ELSE bundle) /\ saved' = result
    BY <1>3, <2>1, <2>2, CommitsType DEF Save, Shipping, others
  <2>3. CASE UNCHANGED <<bundle, saved>>
    BY <1>3, <2>1, <2>3, ResultValues DEF Save, Shipping, others
  <2>4. QED
    BY <1>3, <2>2, <2>3 DEF Save
<1>4. CASE RequestStop
  <2>1. HasSecret(checked)' = HasSecret(checked)
    BY <1>4 DEF RequestStop, HasSecret, changes, shipping
  <2>2. QED
    BY <1>4, <2>1 DEF RequestStop, Shipping, changes, shipping, others
<1>5. CASE Meddle
  <2>1. HasSecret(checked)' = HasSecret(checked)
    BY <1>5 DEF Meddle, HasSecret
  <2>2. pc \notin RUNS_REPO_CODE => leftover
    BY <1>5, Zenon DEF Meddle
  <2>3. UNCHANGED <<pc, checked, head_sha, digest, leftover, missed, result, saved>>
    BY <1>5 DEF Meddle, others
  <2>4. QED
    BY <2>1, <2>2, <2>3 DEF Shipping, RUNS_REPO_CODE
<1>6. QED
  BY <1>1, <1>2, <1>3, <1>4, <1>5

\* The conjunction that carries the three theorems about what is shipped.
LEMMA ShippingInvariant == Spec => [](TypeOK /\ Shipping)
<1>1. Init => TypeOK /\ Shipping
  BY InitType, ResultValues DEF Init, Shipping, COMMITTING, BUNDLED
<1>2. TypeOK /\ Shipping /\ [Next]_vars => (TypeOK /\ Shipping)'
  <2> SUFFICES ASSUME TypeOK, Shipping, [Next]_vars PROVE Shipping'
    BY NextType
  <2>1. CASE Next
    BY <2>1, WorkingStepsShip, CommittingShips, KeepingShips, EndingShips DEF Next, Step
  <2>2. CASE UNCHANGED vars
    <3>1. HasSecret(checked)' = HasSecret(checked)
      BY <2>2 DEF vars, HasSecret, changes, shipping
    <3>2. QED
      BY <2>2, <3>1 DEF vars, Shipping, changes, shipping, others
  <2>3. QED
    BY <2>1, <2>2
<1>3. QED
  BY <1>1, <1>2, PTL DEF Spec

\* What result.json offers to the worker is the bundle that was searched for secrets, whatever the
\* tests, the app and their leftovers did to it, unless a sweep missed a process (_keep_bundle).
THEOREM ShipsWhatWasChecked == Spec => []ShippedWasChecked
<1>1. TypeOK /\ Shipping => ShippedWasChecked
  BY DEF Shipping, ShippedWasChecked, Ended
<1>2. QED
  BY <1>1, ShippingInvariant, PTL

\* A failed, stopped or empty run leaves no bundle of the runner's (_save_result).
THEOREM LeavesNoOtherBundle == Spec => []OnlySuccessLeavesABundle
<1>1. TypeOK /\ Shipping => OnlySuccessLeavesABundle
  BY DEF Shipping, OnlySuccessLeavesABundle, Ended
<1>2. QED
  BY <1>1, ShippingInvariant, PTL

\* None of the repository's processes runs while the runner stages, commits, searches and bundles.
THEOREM CommitsAlone == Spec => []NothingRunsWhileCommitting
<1>1. TypeOK /\ Shipping => NothingRunsWhileCommitting
  BY DEF Shipping, NothingRunsWhileCommitting, COMMITTING
<1>2. QED
  BY <1>1, ShippingInvariant, PTL

-----------------------------------------------------------------------------
(* The runner's commit *)

\* Before the agent only setup has written to the clone, and the snapshot is of what setup wrote.
PREPARING == {"clone", "before", "setup_before", "app_before", "remove_base", "setup", "snapshot"}
WORKING == {"agent", "after_agent", "stage", "check", "bundle"}

Staging ==
  /\ pc \in PREPARING => \A f \in Files : worktree[f] \in {"head", "setup"}
  /\ pc \in PREPARING /\ project.setup = 0 => \A f \in Files : worktree[f] # "setup"
  /\ \A f \in Files : <<f, "agent">> \notin snapshot
  /\ pc \in WORKING /\ ~gave_up =>
       \A f \in Files : worktree[f] = "setup" => <<f, "setup">> \in snapshot
  /\ OnlyTheAgentsWorkIsCommitted

\* Steps that do not touch the clone before it is staged, or that come after the bundle.
LEMMA StagingKept ==
  ASSUME Staging, UNCHANGED <<project, worktree, snapshot, committed, gave_up>>,
         \/ pc' \notin PREPARING \union WORKING
         \/ pc \in PREPARING /\ pc' \in PREPARING
         \/ pc \in WORKING /\ pc' \in WORKING /\ (pc' \in {"check", "bundle"} => pc \in {"check", "bundle"})
  PROVE  Staging'
BY DEF Staging, OnlyTheAgentsWorkIsCommitted, PREPARING, WORKING

\* Setup before the agent marks only its own paths, and writes nothing without commands.
LEMMA StagingSetup ==
  ASSUME TypeOK, Staging, NEW due, RunSetup("setup", due, "snapshot")
  PROVE  Staging'
<1>1. pc \in PREPARING /\ pc' \in PREPARING /\ pc' \notin WORKING
  BY DEF RunSetup, SetupIsOver, At, Goto, PREPARING, WORKING
<1>2. \A f \in Files : worktree'[f] \in {worktree[f], "setup"}
  BY DEF RunSetup, SetupWrites, TypeOK
<1>3. project.setup = 0 => worktree' = worktree
  <2>1. SUFFICES ASSUME project.setup = 0 PROVE worktree' = worktree
    OBVIOUS
  <2>2. command > project.setup
    BY <2>1, ClockAssumption DEF TypeOK
  <2>3. ~(command <= project.setup)
    BY <2>1, ClockAssumption DEF TypeOK
  <2>4. QED
    BY <2>3, Zenon DEF RunSetup
<1>4. UNCHANGED <<project, snapshot, committed, gave_up>>
  BY DEF RunSetup
<1>5. QED
  BY <1>1, <1>2, <1>3, <1>4 DEF Staging, OnlyTheAgentsWorkIsCommitted, WORKING

\* The snapshot holds every path that setup changed, unless git failed.
LEMMA StagingSnapshot ==
  ASSUME TypeOK, Staging, SnapshotChanges
  PROVE  Staging'
<1>1. pc \in PREPARING /\ pc' = "agent" /\ UNCHANGED <<project, worktree, committed>>
  BY DEF SnapshotChanges, At, Goto, PREPARING, changes
<1>2. \A f \in Files : worktree[f] \in {"head", "setup"}
  BY <1>1 DEF Staging
<1>3. \/ gave_up' /\ snapshot' = snapshot
      \/ project.setup = 0 /\ snapshot' = {}
      \/ snapshot' = Changed
  <2>1. project.setup \in Nat
    BY ClockAssumption DEF TypeOK, Projects
  <2>2. QED
    BY <2>1 DEF SnapshotChanges
<1>4. \A f \in Files : <<f, "agent">> \notin snapshot'
  <2>1. \A f \in Files : <<f, "agent">> \notin snapshot
    BY DEF Staging
  <2>2. ASSUME NEW f \in Files, <<f, "agent">> \in Changed PROVE FALSE
    <3>1. worktree[f] = "agent"
      BY <2>2 DEF Changed
    <3>2. QED
      BY <3>1, <1>2
  <2>3. QED
    BY <1>3, <2>1, <2>2
<1>5. \A f \in Files : ~gave_up' /\ worktree'[f] = "setup" => <<f, "setup">> \in snapshot'
  BY <1>1, <1>3 DEF Changed, Changes, Authors, Staging
<1>6. QED
  BY <1>1, <1>4, <1>5 DEF Staging, OnlyTheAgentsWorkIsCommitted, PREPARING, WORKING

\* The agent leaves a path as setup did, or makes it its own.
LEMMA StagingAgent ==
  ASSUME TypeOK, Staging, RunAgent
  PROVE  Staging'
<1>1. pc = "agent" /\ pc' = "after_agent" /\ UNCHANGED <<project, snapshot, gave_up, committed>>
  BY DEF RunAgent, At, setting
<1>2. \A f \in Files : worktree'[f] = "setup" => worktree[f] = "setup"
  BY DEF RunAgent, AgentWorks, TypeOK
<1>3. QED
  BY <1>1, <1>2 DEF Staging, OnlyTheAgentsWorkIsCommitted, PREPARING, WORKING

\* The commit leaves out what is as setup left it.
LEMMA StagingCommit ==
  ASSUME TypeOK, Staging, Commit
  PROVE  Staging'
<1>1. /\ pc = "stage" /\ pc' \in {"returned", "check"}
      /\ UNCHANGED <<project, snapshot, worktree>>
  BY DEF Commit, commit_staged, stage_changes, count_commits, At, Goto, Return
<1>2. PICK left_out \in {Untouched, {}} :
        /\ gave_up' = (gave_up \/ left_out # Untouched)
        /\ committed' = {c \in Changed : c[1] \notin CI_CONFIG_PATHS \union left_out}
  BY Zenon DEF Commit, commit_staged, stage_changes, count_commits
<1>3. ~gave_up' => ~gave_up /\ left_out = Untouched
  BY <1>2, Zenon
<1>4. \A f \in Files, a \in Authors :
        <<f, a>> \in committed' <=>
          worktree[f] = a /\ f \notin CI_CONFIG_PATHS /\ f \notin left_out
  BY <1>2 DEF Changed, Changes
<1>5. \A f \in Files \ DIRS : worktree[f] = "agent" => f \notin left_out
  BY <1>2 DEF Untouched, Staging
<1>6. {<<f, "agent">> : f \in {f \in Files \ (CI_CONFIG_PATHS \union DIRS) : worktree'[f] = "agent"}}
        \subseteq committed'
  BY <1>1, <1>4, <1>5 DEF Authors
<1>7. \A f \in Files : <<f, "setup">> \in committed' => gave_up'
  <2>1. SUFFICES ASSUME NEW f \in Files, <<f, "setup">> \in committed', ~gave_up' PROVE FALSE
    OBVIOUS
  <2>2. worktree[f] = "setup" /\ f \notin Untouched /\ ~gave_up
    BY <2>1, <1>3, <1>4 DEF Authors
  <2>3. <<f, "setup">> \in snapshot
    BY <2>2, <1>1 DEF Staging, WORKING
  <2>4. QED
    BY <2>2, <2>3 DEF Untouched, Authors
<1>8. \A f \in DIRS : <<f, "setup">> \in snapshot' /\ <<f, "agent">> \in committed' => gave_up'
  <2>1. SUFFICES ASSUME NEW f \in DIRS, <<f, "setup">> \in snapshot, <<f, "agent">> \in committed',
                        ~gave_up'
                 PROVE  FALSE
    BY <1>1
  <2>2. f \in Files /\ f \in Untouched
    BY <2>1 DEF Untouched, Authors, DIRS, Files
  <2>3. QED
    BY <2>1, <2>2, <1>3, <1>4 DEF Authors
<1>9. \A f \in Files : <<f, "agent">> \in committed' => f \notin CI_CONFIG_PATHS
  BY <1>4 DEF Authors
<1>10. ~gave_up' => \A f \in Files : worktree'[f] = "setup" => <<f, "setup">> \in snapshot'
  BY <1>1, <1>3 DEF Staging, WORKING
<1>11. OnlyTheAgentsWorkIsCommitted'
  BY <1>1, <1>6, <1>7, <1>8, <1>9 DEF OnlyTheAgentsWorkIsCommitted
<1>12. QED
  BY <1>1, <1>10, <1>11 DEF Staging, PREPARING

\* Every step of the runner keeps Staging.
LEMMA StagingStep ==
  ASSUME TypeOK, Staging, [Next]_vars
  PROVE  Staging'
<1> USE DEF PREPARING, WORKING, At, Goto, Return
<1>1. CASE Clone \/ CheckOutBase \/ RemoveBase
  BY <1>1, StagingKept DEF Clone, CheckOutBase, RemoveBase, setting, changes
<1>2. CASE \/ Screenshots("app_before", budget.before, "remove_base")
           \/ Screenshots("app_after", budget.run, "keep")
  BY <1>2, StagingKept DEF Screenshots, setting, changes
<1>3. CASE RunSetup("setup_before", budget.before, "app_before")
  BY <1>3, StagingKept DEF RunSetup, SetupIsOver, SetupWrites
<1>4. CASE RunSetup("setup_rerun", deadline, Tests)
  BY <1>4, StagingKept DEF RunSetup, SetupIsOver, SetupWrites, Tests
<1>5. CASE AfterAgent
  <2>1. pc = "after_agent" /\ pc' \in {"returned", "stage"}
    BY <1>5, Zenon DEF AfterAgent
  <2>2. QED
    BY <1>5, <2>1, StagingKept DEF AfterAgent, setting, changes
<1>6. CASE SecretInChanges \/ WriteBundle
  BY <1>6, StagingKept DEF SecretInChanges, WriteBundle, setting, changes
<1>7. CASE CheckChanges \/ RunTests \/ KeepBundle
  BY <1>7, StagingKept DEF CheckChanges, RunTests, KeepBundle, Tests, setting, changes
<1>8. CASE BundleAgain
  BY <1>8, StagingKept DEF BundleAgain, setting
<1>9. CASE Breaks \/ Stopped \/ Save
  BY <1>9, StagingKept DEF Breaks, Stopped, Save, setting, changes
<1>10. CASE RequestStop \/ UNCHANGED vars
  BY <1>10, StagingKept DEF RequestStop, Staging, OnlyTheAgentsWorkIsCommitted, vars, setting, changes
<1>11. CASE Meddle
  BY <1>11, StagingKept DEF Meddle, Staging, OnlyTheAgentsWorkIsCommitted, setting
<1>12. QED
  BY <1>1, <1>2, <1>3, <1>4, <1>5, <1>6, <1>7, <1>8, <1>9, <1>10, <1>11, StagingSetup,
     StagingSnapshot, StagingAgent, StagingCommit
  DEF Next, Step

\* The commit holds what the agent changed and nothing that only setup changed, unless git failed
\* to tell them apart (snapshot_changes, unstage_untouched).
THEOREM CommitsTheAgentsWork == Spec => []OnlyTheAgentsWorkIsCommitted
<1>1. Init => Staging
  BY DEF Init, Staging, OnlyTheAgentsWorkIsCommitted, PREPARING, WORKING
<1>2. TypeOK /\ Staging /\ [Next]_vars => Staging'
  BY StagingStep
<1>3. Staging => OnlyTheAgentsWorkIsCommitted
  BY DEF Staging
<1>4. QED
  BY <1>1, <1>2, <1>3, TypeCorrect, PTL DEF Spec

-----------------------------------------------------------------------------
(* Time *)

\* The deadlines follow one another, and the agent's is at least twice setup's.
LEMMA Deadlines ==
  ASSUME TypeOK
  PROVE  /\ budget.before \in Nat /\ budget.setup \in Nat /\ budget.agent \in Nat
         /\ budget.run = project.timeout /\ project.timeout \in Nat
         /\ budget.before <= budget.setup /\ 2 * budget.setup <= budget.agent
         /\ budget.agent <= project.timeout
<1>1. project.timeout \in Nat /\ project.test \in BOOLEAN /\ project.app \in BOOLEAN
  BY ClockAssumption DEF TypeOK, Projects
<1>2. \A n \in Nat : /\ (n * 6) \div 10 \in Nat /\ (n * 6) \div 10 <= n
                     /\ (n * 3) \div 10 \in Nat /\ (n * 3) \div 10 <= n
                     /\ n \div 2 \in Nat /\ 2 * (n \div 2) <= n
  OBVIOUS
<1> DEFINE reserve == IF has_post_agent_steps(project)
                        THEN Least(RESERVE_MAX, (project.timeout * 3) \div 10) ELSE 0
           window == project.timeout - reserve
           prep == window \div 2
<1>3. reserve \in Nat /\ reserve <= project.timeout
  BY <1>1, <1>2 DEF Least, RESERVE_MAX
<1>4. window \in Nat /\ window <= project.timeout
  BY <1>1, <1>3
<1>5. /\ budget.before = (prep * 6) \div 10 /\ budget.setup = prep /\ budget.agent = window
      /\ budget.run = project.timeout
  BY DEF budget, plan_budget
<1> HIDE DEF reserve, window
<1>6. prep \in Nat /\ 2 * prep <= window
  BY <1>2, <1>4
<1> HIDE DEF prep
<1>7. QED
  BY <1>1, <1>2, <1>4, <1>5, <1>6

\* What a command or the app takes of the time, whoever waits for it.
LEMMA CommandTime ==
  ASSUME TypeOK, NEW due \in Int, ~NoTime(due), NEW ending, Command(due, ending)
  PROVE  clock' = clock \/ clock' <= due + KILL_GRACE
BY DEF TypeOK, Command, NoTime, Left, Least, MIN_STEP, COMMAND_CAP, KILL_GRACE

LEMMA AppTime ==
  ASSUME TypeOK, NEW due \in Int, App(due)
  PROVE  clock' = clock \/ clock' = due + APP_OVERRUN
BY DEF TypeOK, App, Left, APP_OVERRUN

Due == Latest(project.timeout, cloned)

\* How late it may be at each step: no overrun is added to another of the same stretch, since a
\* step whose deadline is over is skipped.
OnTime ==
  /\ pc = "clone" => clock = 0
  /\ pc = "before" => clock = cloned
  /\ pc \in {"setup_before", "app_before"} => clock <= Due + GitTime + KILL_GRACE
  /\ pc = "remove_base" => clock <= Due + GitTime + APP_OVERRUN
  /\ pc \in {"setup", "snapshot", "agent"} => clock <= Due + 2 * GitTime + APP_OVERRUN
  /\ pc = "after_agent" => clock <= Due + 2 * GitTime + APP_OVERRUN + STOP_GRACE
  /\ pc = "after_agent" /\ result.status = "succeeded" => clock <= project.timeout
  /\ pc = "stage" => clock <= project.timeout
  /\ pc \in {"check", "bundle", "check_changes"} => clock <= project.timeout + GitTime
  /\ pc \in {"setup_rerun", "tests"} => clock <= project.timeout + GitTime + KILL_GRACE
  /\ pc = "setup_rerun" => deadline <= project.timeout \/ NoTime(deadline)
  /\ pc \in {"app_after", "keep", "rebundle"} => clock <= project.timeout + GitTime + APP_OVERRUN
  /\ pc \in {"returned", "exited"} /\ ~stop =>
       clock <= Due + 2 * GitTime + APP_OVERRUN + STOP_GRACE

\* The shares of the steps before the agent, after a clone in time.
Shared ==
  cloned + GitTime <= budget.before =>
    /\ pc \in {"setup_before", "app_before"} => clock <= budget.before + KILL_GRACE
    /\ pc = "remove_base" => clock <= budget.before + APP_OVERRUN
    /\ pc \in {"setup", "snapshot", "agent"} => clock <= budget.setup + KILL_GRACE

\* Setup's share is as much longer than that of the screenshots as the app and git may overrun.
RoomForOverruns ==
  \A p \in Projects :
    plan_budget(p).before + APP_OVERRUN + GitTime <= plan_budget(p).setup + KILL_GRACE

\* The numbers of the clock, and what never changes.
LEMMA Clock ==
  ASSUME TypeOK, TypeOK', [Next]_vars
  PROVE  /\ clock \in Nat /\ clock' \in Nat /\ cloned \in Nat /\ cloned' \in Nat /\ GitTime \in Nat
         /\ deadline \in Int /\ project' = project /\ budget' = budget
         /\ pc # "clone" => cloned' = cloned
<1>1. /\ clock \in Nat /\ clock' \in Nat /\ cloned \in Nat /\ cloned' \in Nat /\ GitTime \in Nat
      /\ deadline \in Int
  BY ClockAssumption DEF TypeOK
<1>2. project' = project
  BY DEF Next, Step, Clone, CheckOutBase, RemoveBase, RunSetup, Screenshots, SnapshotChanges, RunAgent,
         AfterAgent, Commit, SecretInChanges, WriteBundle, CheckChanges, RunTests, KeepBundle,
         BundleAgain, Breaks, Stopped, Save, RequestStop, Meddle, vars
<1>3. pc # "clone" => cloned' = cloned
  BY DEF Next, Step, Clone, CheckOutBase, RemoveBase, RunSetup, Screenshots, SnapshotChanges, RunAgent,
         AfterAgent, Commit, SecretInChanges, WriteBundle, CheckChanges, RunTests, KeepBundle,
         BundleAgain, Breaks, Stopped, Save, RequestStop, Meddle, vars, Elapse, At, timing
<1>4. budget' = budget
  BY <1>2 DEF budget
<1>5. QED
  BY <1>1, <1>2, <1>3, <1>4

\* A setup that is over, or one more of its commands.
LEMMA SetupTime ==
  ASSUME TypeOK, NEW step, NEW due \in Int, NEW next, RunSetup(step, due, next)
  PROVE  /\ pc = step /\ pc' \in {step, next} /\ UNCHANGED <<deadline, stop, cloned, project>>
         /\ clock' = clock \/ clock' <= due + KILL_GRACE
<1>1. pc = step /\ pc' \in {step, next} /\ UNCHANGED <<deadline, stop, cloned, project>>
  BY DEF RunSetup, SetupIsOver, Goto, At
<1>2. clock' = clock \/ clock' <= due + KILL_GRACE
  BY CommandTime DEF RunSetup
<1>3. QED
  BY <1>1, <1>2

LEMMA ScreenshotsTime ==
  ASSUME TypeOK, NEW step, NEW due \in Int, NEW next, Screenshots(step, due, next)
  PROVE  /\ pc = step /\ pc' = next /\ UNCHANGED <<deadline, stop, cloned, project>>
         /\ clock' = clock \/ clock' = due + APP_OVERRUN
BY AppTime DEF Screenshots, Goto, At

\* The agent ends in its window, or is stopped at its end.
LEMMA AgentTime ==
  ASSUME TypeOK, RunAgent
  PROVE  /\ pc = "agent" /\ pc' = "after_agent" /\ UNCHANGED <<stop, cloned, project>>
         /\ \/ result'.status # "succeeded" /\ clock' = Latest(clock, budget.agent) + STOP_GRACE
            \/ clock' <= budget.agent
<1>1. clock \in Nat /\ budget.agent \in Nat
  BY Deadlines DEF TypeOK
<1>2. Outcome("timed_out", 0).status # "succeeded"
  BY DEF Outcome
<1>3. QED
  BY <1>1, <1>2 DEF RunAgent, At, Latest, Left, STOP_GRACE

\* The steps after which only one of the bounds matters.
LEMMA OnTimeBefore ==
  ASSUME pc' = "before", clock' = cloned'
  PROVE  OnTime'
BY DEF OnTime

LEMMA OnTimeReturned ==
  ASSUME pc' = "returned", clock' <= Due' + 2 * GitTime + APP_OVERRUN + STOP_GRACE
  PROVE  OnTime'
BY DEF OnTime

LEMMA OnTimeKept ==
  ASSUME OnTime, UNCHANGED <<project, pc, clock, cloned, deadline, result, Due>>, stop => stop'
  PROVE  OnTime'
BY DEF OnTime, NoTime, Left

LEMMA OnTimeStep ==
  ASSUME TypeOK, TypeOK', [Next]_vars, OnTime
  PROVE  OnTime'
<1> USE DEF OnTime, At, KILL_GRACE, APP_OVERRUN, STOP_GRACE
<1>a. /\ clock \in Nat /\ clock' \in Nat /\ cloned \in Nat /\ cloned' \in Nat /\ GitTime \in Nat
      /\ deadline \in Int /\ project' = project /\ budget' = budget
      /\ pc # "clone" => cloned' = cloned
  BY Clock
<1>b. /\ budget.before \in Nat /\ budget.setup \in Nat /\ budget.agent \in Nat
      /\ budget.run = project.timeout /\ project.timeout \in Nat
      /\ budget.before <= budget.setup /\ budget.setup <= budget.agent
      /\ budget.agent <= project.timeout
  BY Deadlines
<1>c. /\ Due \in Nat /\ project.timeout <= Due /\ cloned <= Due /\ Due' \in Nat
      /\ project.timeout <= Due' /\ cloned' <= Due'
      /\ pc # "clone" => Due' = Due
  <2>1. /\ Due \in Nat /\ project.timeout <= Due /\ cloned <= Due /\ Due' \in Nat
        /\ project.timeout <= Due' /\ cloned' <= Due'
    BY <1>a, <1>b DEF Due, Latest
  <2>2. pc # "clone" => Due' = Due
    BY <1>a DEF Due
  <2>3. QED
    BY <2>1, <2>2
<1>1. CASE Clone
  <2>1. pc = "clone" /\ clock' = cloned' /\ pc' \in {"before", "setup", "returned"}
    BY <1>1, <1>a DEF Clone, Goto, Return
  <2>2. CASE pc' = "before"
    <3> HIDE DEF OnTime
    <3>1. QED
      BY <2>1, <2>2, OnTimeBefore
  <2>3. CASE pc' = "setup"
    BY <2>1, <2>3, <1>a, <1>b, <1>c DEF Due, Latest
  <2>4. CASE pc' = "returned"
    <3>1. clock' <= Due' + 2 * GitTime + APP_OVERRUN + STOP_GRACE
      BY <2>1, <1>a, <1>c DEF Due, Latest
    <3> HIDE DEF OnTime, APP_OVERRUN, STOP_GRACE
    <3>2. QED
      BY <2>4, <3>1, OnTimeReturned
  <2>5. QED
    BY <2>1, <2>2, <2>3, <2>4
<1>2. CASE CheckOutBase
  <2>1. pc = "before" /\ clock' = clock + GitTime /\ pc' \in {"setup_before", "setup"}
    BY <1>2 DEF CheckOutBase, Elapse, Goto
  <2>2. QED
    BY <2>1, <1>a, <1>b, <1>c
<1>3. CASE RemoveBase
  <2>1. pc = "remove_base" /\ clock' = clock + GitTime /\ pc' = "setup"
    BY <1>3 DEF RemoveBase, Elapse, Goto
  <2>2. QED
    BY <2>1, <1>a, <1>b, <1>c
<1>4. CASE \/ RunSetup("setup_before", budget.before, "app_before")
           \/ RunSetup("setup", budget.setup, "snapshot")
  <2>1. \/ /\ pc = "setup_before" /\ pc' \in {"setup_before", "app_before"}
           /\ clock' = clock \/ clock' <= budget.before + KILL_GRACE
        \/ /\ pc = "setup" /\ pc' \in {"setup", "snapshot"}
           /\ clock' = clock \/ clock' <= budget.setup + KILL_GRACE
    BY <1>4, <1>b, SetupTime
  <2>2. CASE pc = "setup_before"
    BY <2>1, <2>2, <1>a, <1>b, <1>c
  <2>3. CASE pc = "setup"
    BY <2>1, <2>3, <1>a, <1>b, <1>c
  <2>4. QED
    BY <2>1, <2>2, <2>3
<1>5. CASE RunSetup("setup_rerun", deadline, Tests)
  <2>1. /\ pc = "setup_rerun" /\ pc' \in {"setup_rerun", "tests", "app_after"}
        /\ deadline' = deadline
        /\ clock' = clock \/ clock' <= deadline + KILL_GRACE
    BY <1>5, <1>a, SetupTime DEF Tests
  <2>2. clock' = clock \/ deadline <= project.timeout
    BY <1>5, <1>a DEF RunSetup
  <2>3. deadline' <= project.timeout \/ NoTime(deadline)'
    BY <2>1, <2>2, <1>a DEF NoTime, Left
  <2>4. QED
    BY <2>1, <2>2, <2>3, <1>a, <1>b, <1>c
<1>6. CASE Screenshots("app_before", budget.before, "remove_base")
  <2>1. /\ pc = "app_before" /\ pc' = "remove_base"
        /\ clock' = clock \/ clock' = budget.before + APP_OVERRUN
    BY <1>6, <1>b, ScreenshotsTime
  <2>2. QED
    BY <2>1, <1>a, <1>b, <1>c
<1>7. CASE Screenshots("app_after", budget.run, "keep")
  <2>1. /\ pc = "app_after" /\ pc' = "keep"
        /\ clock' = clock \/ clock' = budget.run + APP_OVERRUN
    BY <1>7, <1>b, ScreenshotsTime
  <2>2. QED
    BY <2>1, <1>a, <1>b, <1>c
<1>8. CASE SnapshotChanges
  <2>1. pc = "snapshot" /\ pc' = "agent" /\ clock' = clock
    BY <1>8 DEF SnapshotChanges, Goto, timing
  <2>2. QED
    BY <2>1, <1>a, <1>b, <1>c
<1>9. CASE RunAgent
  <2>1. /\ pc = "agent" /\ pc' = "after_agent"
        /\ \/ result'.status # "succeeded" /\ clock' = Latest(clock, budget.agent) + STOP_GRACE
           \/ clock' <= budget.agent
    BY <1>9, AgentTime
  <2>2. QED
    BY <2>1, <1>a, <1>b, <1>c DEF Latest
<1>10. CASE AfterAgent
  <2>1. /\ pc = "after_agent" /\ clock' = clock
        /\ pc' = "returned" \/ (pc' = "stage" /\ result.status = "succeeded")
    BY <1>10, Zenon DEF AfterAgent, Goto, Return, timing
  <2>2. QED
    BY <2>1, <1>a, <1>b, <1>c
<1>11. CASE Commit
  <2>1. pc = "stage" /\ clock' = clock + GitTime /\ pc' \in {"returned", "check"}
    BY <1>11 DEF Commit, Elapse, Goto, Return
  <2>2. QED
    BY <2>1, <1>a, <1>b, <1>c
<1>12. CASE SecretInChanges \/ WriteBundle
  <2>1. /\ pc \in {"check", "bundle"} /\ clock' = clock
        /\ pc' \in {"returned", "bundle", "check_changes"}
    BY <1>12 DEF SecretInChanges, WriteBundle, Goto, Return, timing
  <2>2. CASE pc' = "returned"
    <3>1. clock' <= Due' + 2 * GitTime + APP_OVERRUN + STOP_GRACE
      BY <2>1, <1>a, <1>b, <1>c DEF Due, Latest
    <3> HIDE DEF OnTime, APP_OVERRUN, STOP_GRACE
    <3>2. QED
      BY <2>2, <3>1, OnTimeReturned
  <2>3. CASE pc' \in {"bundle", "check_changes"}
    BY <2>1, <2>3, <1>a, <1>b, <1>c
  <2>4. QED
    BY <2>1, <2>2, <2>3
<1>13. CASE CheckChanges
  <2>1. /\ pc = "check_changes" /\ clock' = clock
        /\ \/ pc' \in {"tests", "app_after"}
           \/ pc' = "setup_rerun" /\ deadline' = clock + ((project.timeout - clock) * 6) \div 10
    BY <1>13, <1>b DEF CheckChanges, Goto, Tests, Left
  <2>2. pc' = "setup_rerun" => deadline' <= project.timeout \/ NoTime(deadline)'
    <3> DEFINE left == project.timeout - clock
               share == (left * 6) \div 10
    <3>1. left \in Int /\ share \in Int /\ (left >= 0 => share <= left) /\ (left < 0 => share < 0)
      BY <1>a, <1>b
    <3>2. pc' = "setup_rerun" => deadline' = clock + share /\ deadline' \in Int
      BY <2>1, <1>a, <3>1
    <3>3. left = project.timeout - clock
      OBVIOUS
    <3> HIDE DEF left, share
    <3>4. CASE left >= 0
      BY <3>1, <3>2, <3>3, <3>4, <1>a, <1>b
    <3>5. CASE left < 0
      BY <3>1, <3>2, <3>5, <2>1, <1>a DEF NoTime, Left, MIN_STEP
    <3>6. QED
      BY <3>1, <3>4, <3>5
  <2>3. QED
    BY <2>1, <2>2, <1>a, <1>b, <1>c
<1>14. CASE RunTests
  <2>1. /\ pc = "tests" /\ pc' \in {"app_after", "keep"}
        /\ clock' = clock \/ clock' <= budget.run + KILL_GRACE
    BY <1>14, <1>b, CommandTime DEF RunTests, Goto
  <2>2. QED
    BY <2>1, <1>a, <1>b, <1>c
<1>15. CASE KeepBundle
  <2>1. pc = "keep" /\ clock' = clock /\ pc' \in {"returned", "rebundle"}
    BY <1>15 DEF KeepBundle, Goto, Return, timing
  <2>2. QED
    BY <2>1, <1>a, <1>b, <1>c
<1>16. CASE BundleAgain
  <2>1. pc = "rebundle" /\ clock' = clock + GitTime /\ pc' = "returned"
    BY <1>16 DEF BundleAgain, Elapse, Return
  <2>2. QED
    BY <2>1, <1>a, <1>b, <1>c
<1>17. CASE Breaks
  <2>1. /\ pc \in {"agent", "stage", "check", "bundle", "keep", "rebundle"}
        /\ clock' = clock /\ pc' = "returned"
    BY <1>17 DEF Breaks, Return, timing
  <2>2. clock <= Due + 2 * GitTime + APP_OVERRUN
    <3>1. CASE pc = "agent"
      BY <3>1
    <3>2. CASE pc \in {"stage", "check", "bundle"}
      BY <3>2, <1>a, <1>b, <1>c
    <3>3. CASE pc \in {"keep", "rebundle"}
      BY <3>3, <1>a, <1>b, <1>c
    <3>4. QED
      BY <2>1, <3>1, <3>2, <3>3
  <2>3. Due' = Due
    BY <2>1, <1>c
  <2>4. QED
    BY <2>1, <2>2, <2>3, <1>a, <1>c
<1>18. CASE Stopped
  BY <1>18, <1>a DEF Stopped, Return
<1>19. CASE Save
  <2>1. pc = "returned" /\ pc' = "exited" /\ clock' = clock /\ (stop' <=> stop)
    BY <1>19 DEF Save, timing
  <2>2. QED
    BY <2>1, <1>a, <1>b, <1>c
<1>20. CASE RequestStop \/ Meddle \/ UNCHANGED vars
  <2>1. UNCHANGED <<project, pc, clock, cloned, deadline, result>> /\ (stop => stop')
    BY <1>20 DEF RequestStop, Meddle, vars, timing
  <2>2. Due' = Due
    BY <2>1 DEF Due
  <2> HIDE DEF OnTime
  <2>3. QED
    BY <2>1, <2>2, OnTimeKept
<1>21. QED
  BY <1>1, <1>2, <1>3, <1>4, <1>5, <1>6, <1>7, <1>8, <1>9, <1>10, <1>11, <1>12, <1>13, <1>14,
     <1>15, <1>16, <1>17, <1>18, <1>19, <1>20
  DEF Next, Step

LEMMA SharedStep ==
  ASSUME TypeOK, TypeOK', [Next]_vars, OnTime, Shared, RoomForOverruns
  PROVE  Shared'
<1> USE DEF Shared, At, KILL_GRACE, APP_OVERRUN
<1>a. /\ clock \in Nat /\ clock' \in Nat /\ cloned \in Nat /\ cloned' \in Nat /\ GitTime \in Nat
      /\ budget' = budget
      /\ pc # "clone" => cloned' = cloned
  BY Clock
<1>b. /\ budget.before \in Nat /\ budget.setup \in Nat /\ budget.before <= budget.setup
      /\ budget.before + APP_OVERRUN + GitTime <= budget.setup + KILL_GRACE
  BY Deadlines DEF RoomForOverruns, TypeOK, budget
<1>1. CASE Clone
  <2>1. clock' = cloned' /\ pc' \in {"before", "setup", "returned"}
    BY <1>1, <1>a DEF Clone, Goto, Return, OnTime
  <2>2. QED
    BY <2>1, <1>a, <1>b
<1>2. CASE CheckOutBase
  <2>1. pc = "before" /\ clock' = cloned + GitTime /\ pc' \in {"setup_before", "setup"}
    BY <1>2 DEF CheckOutBase, Elapse, Goto, OnTime
  <2>2. QED
    BY <2>1, <1>a, <1>b
<1>3. CASE RemoveBase
  <2>1. pc = "remove_base" /\ clock' = clock + GitTime /\ pc' = "setup"
    BY <1>3 DEF RemoveBase, Elapse, Goto
  <2>2. QED
    BY <2>1, <1>a, <1>b
<1>4. CASE \/ RunSetup("setup_before", budget.before, "app_before")
           \/ RunSetup("setup", budget.setup, "snapshot")
  <2>1. \/ /\ pc = "setup_before" /\ pc' \in {"setup_before", "app_before"}
           /\ clock' = clock \/ clock' <= budget.before + KILL_GRACE
        \/ /\ pc = "setup" /\ pc' \in {"setup", "snapshot"}
           /\ clock' = clock \/ clock' <= budget.setup + KILL_GRACE
    BY <1>4, <1>b, SetupTime
  <2>2. QED
    BY <2>1, <1>a, <1>b
<1>5. CASE Screenshots("app_before", budget.before, "remove_base")
  <2>1. /\ pc = "app_before" /\ pc' = "remove_base"
        /\ clock' = clock \/ clock' = budget.before + APP_OVERRUN
    BY <1>5, <1>b, ScreenshotsTime
  <2>2. QED
    BY <2>1, <1>a, <1>b
<1>6. CASE SnapshotChanges
  <2>1. pc = "snapshot" /\ pc' = "agent" /\ clock' = clock
    BY <1>6 DEF SnapshotChanges, Goto, timing
  <2>2. QED
    BY <2>1, <1>a, <1>b
<1>7. CASE RequestStop \/ Meddle \/ UNCHANGED vars
  <2>1. UNCHANGED <<pc, clock>>
    BY <1>7 DEF RequestStop, Meddle, vars, timing
  <2>2. QED
    BY <2>1, <1>a
<1>8. ASSUME pc' \notin {"setup_before", "app_before", "remove_base", "setup", "snapshot", "agent"}
      PROVE  Shared'
  BY <1>8
<1>9. CASE RunSetup("setup_rerun", deadline, Tests)
  BY <1>9, <1>8, Clock, SetupTime DEF Tests
<1>10. CASE Screenshots("app_after", budget.run, "keep")
  BY <1>10, <1>8 DEF Screenshots, Goto
<1>11. CASE RunAgent \/ Commit \/ SecretInChanges \/ WriteBundle \/ CheckChanges \/ RunTests
  BY <1>11, <1>8
  DEF RunAgent, Commit, SecretInChanges, WriteBundle, CheckChanges, RunTests, Tests, Goto, Return
<1>12. CASE KeepBundle \/ BundleAgain \/ Breaks \/ Stopped \/ Save
  BY <1>12, <1>8 DEF KeepBundle, BundleAgain, Breaks, Stopped, Save, Goto, Return
<1>13. CASE AfterAgent
  BY <1>13, <1>8, Zenon DEF AfterAgent, Goto, Return
<1>14. QED
  BY <1>1, <1>2, <1>3, <1>4, <1>5, <1>6, <1>7, <1>9, <1>10, <1>11, <1>12, <1>13 DEF Next, Step

LEMMA TimeInit == Init => OnTime /\ Shared
BY DEF Init, OnTime, Shared

\* The runner has its result before the worker kills the container, if two of git's steps and the
\* overruns of the app and of the agent's stop fit into the worker's grace (_until_stopped,
\* plan_budget).
THEOREM ResultsAreInTime ==
  ASSUME 2 * GitTime + APP_OVERRUN + STOP_GRACE <= WORKER_GRACE
  PROVE  Spec => []ResultIsInTime
<1>1. TypeOK /\ OnTime => ResultIsInTime
  <2>1. clock \in Nat /\ cloned \in Nat /\ project.timeout \in Nat /\ GitTime \in Nat /\ TypeOK
          => Latest(project.timeout, cloned) \in Nat
    BY DEF Latest
  <2>2. TypeOK => clock \in Nat /\ cloned \in Nat /\ project.timeout \in Nat /\ GitTime \in Nat
    BY Deadlines, ClockAssumption DEF TypeOK
  <2>3. QED
    BY <2>1, <2>2 DEF OnTime, ResultIsInTime, Due, APP_OVERRUN, STOP_GRACE, WORKER_GRACE
<1>2. TypeOK /\ TypeOK' /\ OnTime /\ [Next]_vars => OnTime'
  BY OnTimeStep
<1>3. QED
  BY <1>1, <1>2, TimeInit, TypeCorrect, PTL DEF Spec

\* After a clone in time the agent keeps half of its window whatever the screenshots and setup
\* overrun, if setup's share is longer than the screenshots' by that much (plan_budget).
THEOREM AgentHasItsHalf ==
  ASSUME RoomForOverruns
  PROVE  Spec => []AgentKeepsHalf
<1>1. TypeOK /\ Shared => AgentKeepsHalf
  <2>1. TypeOK => clock \in Nat /\ cloned \in Nat /\ GitTime \in Nat
    BY ClockAssumption DEF TypeOK
  <2>2. QED
    BY <2>1, Deadlines DEF Shared, AgentKeepsHalf, KILL_GRACE
<1>2. TypeOK /\ TypeOK' /\ OnTime /\ Shared /\ [Next]_vars => OnTime' /\ Shared'
  BY OnTimeStep, SharedStep
<1>3. QED
  BY <1>1, <1>2, TimeInit, TypeCorrect, PTL DEF Spec
=============================================================================
