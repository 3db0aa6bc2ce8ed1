------------------------- MODULE RunExecutionProofs -------------------------
(* Theorems about RunExecution, for every set of runs, tickets and workers. *)
EXTENDS RunExecution, FiniteSetTheorems, TLAPS

-----------------------------------------------------------------------------
(* Type correctness *)

\* Helpers of the actions keep the parts of the state they change well typed.
LEMMA RecordTransitionType ==
  ASSUME TableOK, NEW r \in Runs, NEW to \in RunStatus, record_transition(r, to)
  PROVE  TableOK'
  BY DEF TableOK, record_transition, RunStatus, ACTIVE_STATUSES, TERMINAL_STATUSES, SILENT

\* Removing containers keeps DockerOK.
LEMMA RemoveType ==
  ASSUME DockerOK, NEW gone, Remove(gone)
  PROVE  DockerOK'
  BY DEF DockerOK, Remove, Results

\* A task that returns keeps WorkersOK and DockerOK.
LEMMA LeaveType ==
  ASSUME WorkersOK, DockerOK, NEW w \in Workers, Leave(w)
  PROVE  WorkersOK' /\ DockerOK'
  <1>1. DockerOK'
    BY RemoveType DEF Leave
  <1>2. WorkersOK'
    BY DEF WorkersOK, Leave, Goto, Steps, Found, TERMINAL_STATUSES
  <1> QED BY <1>1, <1>2

\* So does one that goes on to _finish.
LEMMA FinishAsType ==
  ASSUME WorkersOK, NEW w \in Workers, job[w] \in Runs, NEW to \in TERMINAL_STATUSES,
         FinishAs(w, to)
  PROVE  WorkersOK'
  BY DEF WorkersOK, FinishAs, Goto, Steps, EXECUTING, PUBLISHING

\* What a step leaves alone keeps its type.
LEMMA FrameType ==
  /\ TableOK /\ UNCHANGED table => TableOK'
  /\ GithubOK /\ UNCHANGED github => GithubOK'
  /\ QueueOK /\ UNCHANGED queue => QueueOK'
  /\ WorkersOK /\ UNCHANGED workers => WorkersOK'
  /\ DockerOK /\ UNCHANGED docker => DockerOK'
  BY DEF TableOK, GithubOK, QueueOK, WorkersOK, DockerOK, table, github, queue, workers, docker
\* And dying processes keep whatever they leave behind well typed.
LEMMA DieType ==
  ASSUME TypeOK, NEW dying \in SUBSET Workers, Die(dying)
  PROVE  TableOK' /\ GithubOK' /\ QueueOK' /\ WorkersOK' /\ candidates' \in SUBSET Runs
         /\ box' \in [Runs -> {"none", "booting", "working", "exited"}]
         /\ owner' \in [Runs -> Workers \union {NoWorker}]
         /\ base' \in [Runs -> Nat]
         /\ result' \in [Runs -> Results \union {"nothing"}]
         /\ reported' \in SUBSET Runs
  <1> USE DEF TypeOK, table, github, Die
  <1>1. \A r \in Runs : Unacknowledged(dying, r) \in Nat
    BY LimitAssumption, FS_Subset, FS_CardinalityType DEF Unacknowledged
  <1>2. QueueOK'
    BY <1>1 DEF QueueOK
  <1>3. WorkersOK'
    BY DEF WorkersOK, Steps, Found, TERMINAL_STATUSES
  <1> QED
    BY <1>2, <1>3 DEF TableOK, GithubOK, DockerOK

\* Every step keeps the state well typed: one case per action.
LEMMA TypeStep == TypeOK /\ [Next]_vars => TypeOK'
  <1> SUFFICES ASSUME TypeOK, [Next]_vars PROVE TypeOK'
    OBVIOUS
  <1> USE FrameType DEF TypeOK, table, github, queue, workers, docker
  <1>1. ASSUME NEW r \in Runs, Begin(r) PROVE TypeOK'
    BY <1>1 DEF Begin, TableOK, QueueOK
  <1>2. ASSUME NEW r \in Runs, Insert(r) PROVE TypeOK'
    BY <1>2 DEF Insert, TableOK, QueueOK, RunStatus, ACTIVE_STATUSES
  <1>3. ASSUME NEW r \in Runs, InsertRefused(r) PROVE TypeOK'
    BY <1>3 DEF InsertRefused, TableOK, QueueOK
  <1>4. ASSUME NEW r \in Runs, ClearNeedsInput(r) PROVE TypeOK'
    BY <1>4, TopologyAssumption DEF ClearNeedsInput, GithubOK, QueueOK
  <1>5. ASSUME NEW r \in Runs, HandOver(r) PROVE TypeOK'
    BY <1>5 DEF HandOver, QueueOK
  <1>6. ASSUME NEW r \in Runs, HandOverUnanswered(r) PROVE TypeOK'
    BY <1>6 DEF HandOverUnanswered, QueueOK
  <1>7. ASSUME NEW r \in Runs, EnqueueFails(r) PROVE TypeOK'
    BY <1>7 DEF EnqueueFails, TableOK, QueueOK, RunStatus, TERMINAL_STATUSES
  <1>8. ASSUME NEW r \in Runs, HandlerDies(r) PROVE TypeOK'
    BY <1>8, LimitAssumption DEF HandlerDies, QueueOK, Fault
  <1>9. ASSUME NEW r \in Runs, Cancel(r) PROVE TypeOK'
    BY <1>9, RecordTransitionType DEF Cancel, RunStatus, TERMINAL_STATUSES
  <1>10. ASSUME NEW r \in Runs, GoSilent(r) PROVE TypeOK'
    BY <1>10 DEF GoSilent, TableOK
  <1>11. ASSUME NEW r \in Runs, GrowOld(r) PROVE TypeOK'
    BY <1>11 DEF GrowOld, TableOK
  <1>12. ASSUME NEW r \in Runs, Reap(r) PROVE TypeOK'
    BY <1>12, RecordTransitionType, RemoveType DEF Reap, RunStatus, TERMINAL_STATUSES
  <1>13. ASSUME NEW r \in Runs, Clone(r) PROVE TypeOK'
    BY <1>13, TopologyAssumption DEF Clone, DockerOK, GithubOK
  <1>14. ASSUME NEW r \in Runs, Callback(r) PROVE TypeOK'
    <2>1. TableOK'
      BY <1>14 DEF Callback, TableOK
    <2>2. DockerOK'
      BY <1>14 DEF Callback, DockerOK
    <2> QED
      BY <1>14, <2>1, <2>2 DEF Callback
  <1>15. ASSUME NEW r \in Runs, StartRunning(r) PROVE TypeOK'
    BY <1>15, RecordTransitionType DEF StartRunning, DockerOK, RunStatus, ACTIVE_STATUSES
  <1>16. ASSUME NEW r \in Runs, RunnerExits(r) PROVE TypeOK'
    BY <1>16 DEF RunnerExits, DockerOK, Results
  <1>17. ASSUME NEW r \in Runs, SandboxDies(r) PROVE TypeOK'
    BY <1>17 DEF SandboxDies, DockerOK
  <1>18. ASSUME NEW w \in Workers, NEW r \in Runs, Deliver(w, r) PROVE TypeOK'
    BY <1>18 DEF Deliver, QueueOK, WorkersOK, Goto, Steps, Orphans
  <1>19. ASSUME NEW w \in Workers, NEW r \in Runs, SweepOne(w, r) PROVE TypeOK'
    BY <1>19, RecordTransitionType, RemoveType
    DEF SweepOne, WorkersOK, RunStatus, TERMINAL_STATUSES
  <1>20. ASSUME NEW w \in Workers, SweepDone(w) PROVE TypeOK'
    BY <1>20, LimitAssumption DEF SweepDone, WorkersOK, Goto, Steps, Fault
  <1>21. ASSUME NEW w \in Workers, ClaimRow(w) PROVE TypeOK'
    BY <1>21 DEF ClaimRow, WorkersOK, Goto, Steps, LOCKING
  <1>22. ASSUME NEW w \in Workers, NotClaimable(w) PROVE TypeOK'
    BY <1>22, LeaveType DEF NotClaimable
  <1>23. ASSUME NEW w \in Workers, CountRuns(w) PROVE TypeOK'
    BY <1>23, TopologyAssumption DEF CountRuns, WorkersOK, Goto, Steps, LOCKING, Repo
  <1>24. ASSUME NEW w \in Workers, RepoBusy(w) PROVE TypeOK'
    BY <1>24, LeaveType DEF RepoBusy, QueueOK, WorkersOK
  <1>25. ASSUME NEW w \in Workers, Admit(w) PROVE TypeOK'
    BY <1>25, RecordTransitionType, NullAssumption, TopologyAssumption
    DEF Admit, WorkersOK, Goto, Steps, EXECUTING, Repo, RunStatus, ACTIVE_STATUSES
  <1>26. ASSUME NEW w \in Workers, PrepareFails(w) PROVE TypeOK'
    BY <1>26, FinishAsType DEF PrepareFails, WorkersOK, TERMINAL_STATUSES
  <1>27. ASSUME NEW w \in Workers, StartSandbox(w) PROVE TypeOK'
    BY <1>27 DEF StartSandbox, WorkersOK, DockerOK, Goto, Steps, EXECUTING
  <1>28. ASSUME NEW w \in Workers, Wait(w) PROVE TypeOK'
    BY <1>28 DEF Wait, WorkersOK, DockerOK, Goto, Steps, EXECUTING, Found
  <1>29. ASSUME NEW w \in Workers, Collect(w) PROVE TypeOK'
    BY <1>29, RemoveType
    DEF Collect, WorkersOK, DockerOK, TableOK, Goto, Steps, EXECUTING, PUBLISHING,
        Outcome, Found, Results
  <1>30. ASSUME NEW w \in Workers, SandboxBreaks(w) PROVE TypeOK'
    BY <1>30, FinishAsType DEF SandboxBreaks, WorkersOK, TERMINAL_STATUSES
  <1>31. ASSUME NEW w \in Workers, Conclude(w) PROVE TypeOK'
    BY <1>31, FinishAsType, LeaveType
    DEF Conclude, WorkersOK, Goto, Steps, EXECUTING, PUBLISHING, TERMINAL_STATUSES
  <1>32. ASSUME NEW w \in Workers, StillActive(w) PROVE TypeOK'
    BY <1>32, LeaveType DEF StillActive, WorkersOK, Goto, Steps, EXECUTING, PUBLISHING
  <1>33. ASSUME NEW w \in Workers, Push(w) PROVE TypeOK'
    <2>1. job[w] \in Runs /\ TicketOf[job[w]] \in Tickets
      BY <1>33, TopologyAssumption DEF Push, WorkersOK
    <2>2. GithubOK'
      BY <1>33, <2>1 DEF Push, GithubOK
    <2>3. WorkersOK'
      BY <1>33, <2>1, FinishAsType
      DEF Push, WorkersOK, Goto, Steps, EXECUTING, PUBLISHING, TERMINAL_STATUSES
    <2> QED
      BY <1>33, <2>2, <2>3 DEF Push
  <1>34. ASSUME NEW w \in Workers, PushFails(w) PROVE TypeOK'
    BY <1>34, FinishAsType DEF PushFails, WorkersOK, TERMINAL_STATUSES
  <1>35. ASSUME NEW w \in Workers, OpenPull(w) PROVE TypeOK'
    BY <1>35, FinishAsType
    DEF OpenPull, WorkersOK, GithubOK, Goto, Steps, EXECUTING, PUBLISHING,
        TERMINAL_STATUSES
  <1>36. ASSUME NEW w \in Workers, LinkPull(w) PROVE TypeOK'
    BY <1>36, FinishAsType DEF LinkPull, WorkersOK, GithubOK, TERMINAL_STATUSES
  <1>37. ASSUME NEW w \in Workers, Ask(w) PROVE TypeOK'
    BY <1>37, LeaveType DEF Ask, WorkersOK, Goto, Steps, EXECUTING, PUBLISHING
  <1>38. ASSUME NEW w \in Workers, AddLabel(w) PROVE TypeOK'
    BY <1>38, FinishAsType, TopologyAssumption
    DEF AddLabel, WorkersOK, GithubOK, TERMINAL_STATUSES
  <1>39. ASSUME NEW w \in Workers, PublishBreaks(w) PROVE TypeOK'
    BY <1>39, FinishAsType DEF PublishBreaks, WorkersOK, PUBLISHING, TERMINAL_STATUSES
  <1>40. ASSUME NEW w \in Workers, PublishAbandoned(w) PROVE TypeOK'
    BY <1>40, LeaveType, LimitAssumption DEF PublishAbandoned, Fault
  <1>41. ASSUME NEW w \in Workers, Finish(w) PROVE TypeOK'
    BY <1>41, RecordTransitionType, LeaveType
    DEF Finish, WorkersOK, RunStatus, ACTIVE_STATUSES
  <1>42. ASSUME NEW w \in Workers, SoftTimeLimit(w) PROVE TypeOK'
    BY <1>42, RemoveType, LimitAssumption
    DEF SoftTimeLimit, WorkersOK, Goto, Steps, EXECUTING, PUBLISHING, Found, Fault
  <1>43. ASSUME NEW w \in Workers, TimeOut(w) PROVE TypeOK'
    BY <1>43, FinishAsType, LeaveType DEF TimeOut, WorkersOK, TERMINAL_STATUSES
  <1>44. ASSUME NEW w \in Workers, Crash(w) PROVE TypeOK'
    BY <1>44, DieType, LimitAssumption DEF Crash, DockerOK, Fault
  <1>45. ASSUME NEW w \in Workers, Restart(w) PROVE TypeOK'
    BY <1>45 DEF Restart, WorkersOK, Goto, Steps, Orphans
  <1>46. ASSUME NEW w \in Workers, Redeliver(w) PROVE TypeOK'
    BY <1>46 DEF Redeliver, WorkersOK, QueueOK, EXECUTING, PUBLISHING
  <1>47. ASSUME ReaperScans PROVE TypeOK'
    BY <1>47 DEF ReaperScans
  <1>48. ASSUME Recreate PROVE TypeOK'
    BY <1>48, DieType, LimitAssumption DEF Recreate, DockerOK, Fault
  <1>49. CASE UNCHANGED vars
    BY <1>49 DEF vars, TableOK, GithubOK, QueueOK, WorkersOK, DockerOK
  <1> QED
    BY <1>1, <1>2, <1>3, <1>4, <1>5, <1>6, <1>7, <1>8, <1>9, <1>10, <1>11, <1>12, <1>13,
       <1>14, <1>15, <1>16, <1>17, <1>18, <1>19, <1>20, <1>21, <1>22, <1>23, <1>24, <1>25,
       <1>26, <1>27, <1>28, <1>29, <1>30, <1>31, <1>32, <1>33, <1>34, <1>35, <1>36, <1>37,
       <1>38, <1>39, <1>40, <1>41, <1>42, <1>43, <1>44, <1>45, <1>46, <1>47, <1>48, <1>49
    DEF Next, Api, Sandbox, Time, Work, Trouble

\* The rows, messages, worker processes and containers stay well typed whatever happens.
THEOREM TypeCorrect == Spec => []TypeOK
  <1>1. Init => TypeOK
    BY LimitAssumption
    DEF Init, TypeOK, TableOK, GithubOK, QueueOK, WorkersOK, DockerOK, Steps, Found,
       Results, TERMINAL_STATUSES
  <1> QED
    BY <1>1, TypeStep, PTL DEF Spec

-----------------------------------------------------------------------------
(* Who may move a run: the locks of a claim, and the worker that holds the run *)

\* A worker holds its run from the moment _claim has locked the row.
HOLDING == LOCKING \union EXECUTING

\* A locked row is queued and a held run never is, so a run has one holder at most; a run
\* whose insert is still to come has no row.
Supervision ==
  /\ \A w \in Workers : pc[w] \in LOCKING => status[job[w]] = "queued"
  /\ \A w \in Workers : pc[w] \in EXECUTING => status[job[w]] \notin {Absent, "queued"}
  /\ \A v, w \in Workers :
       v # w /\ pc[v] \in HOLDING /\ pc[w] \in HOLDING => job[v] # job[w]
  /\ \A r \in Runs : (handing[r] = "stamped" => status[r] = Absent)
                    /\ (handing[r] \in {"committed", "cleared", "refused"}
                          => status[r] # Absent)

\* What all steps but those of a claim and an insert do: no worker comes to hold a run or a
\* repository's lock, a lock is only lost by dying, no locked row changes, and no run comes
\* into being or starts to count as working.
Calm ==
  /\ \A w \in Workers :
       pc'[w] \in HOLDING =>
         /\ job'[w] = job[w]
         /\ pc'[w] \in LOCKING => pc[w] = pc'[w]
         /\ pc'[w] \in EXECUTING => pc[w] \in EXECUTING
  /\ \A r \in Runs :
       status'[r] # status[r] =>
         /\ ~RowLocked(r)
         /\ status[r] # Absent
         /\ status'[r] \in (SILENT \union TERMINAL_STATUSES)
         /\ status'[r] \in SILENT => status[r] \in SILENT
  /\ \A p \in Repos :
       repo_lock'[p] # repo_lock[p] => pc'[repo_lock[p]] = "dead"
  /\ \A r \in Runs :
       /\ handing'[r] = "stamped" => handing[r] = "stamped"
       /\ handing'[r] \in {"committed", "cleared", "refused"}
            => handing[r] \in {"committed", "cleared", "refused"}

\* No step is both, so the two kinds of steps of a held run stay apart.
LEMMA LockingIsNotExecuting == LOCKING \intersect EXECUTING = {}
  BY DEF LOCKING, EXECUTING, PUBLISHING

\* A calm step keeps Supervision ...
LEMMA CalmSupervision ==
  ASSUME TypeOK, TypeOK', Supervision, Calm
  PROVE  Supervision'
  <1>1. \A w \in Workers :
          pc'[w] \in HOLDING => pc[w] \in HOLDING /\ job'[w] = job[w] /\ job[w] \in Runs
    BY DEF Calm, HOLDING, LOCKING, EXECUTING, PUBLISHING, TypeOK, WorkersOK
  <1>2. ASSUME NEW w \in Workers, pc'[w] \in LOCKING
        PROVE  status'[job'[w]] = "queued"
    BY <1>1, <1>2 DEF Calm, HOLDING, Supervision, RowLocked
  <1>3. ASSUME NEW w \in Workers, pc'[w] \in EXECUTING
        PROVE  status'[job'[w]] \notin {Absent, "queued"}
    BY <1>1, <1>3 DEF Calm, HOLDING, Supervision, SILENT, TERMINAL_STATUSES, Absent
  <1>4. ASSUME NEW r \in Runs
        PROVE  /\ handing'[r] = "stamped" => status'[r] = Absent
               /\ handing'[r] \in {"committed", "cleared", "refused"} => status'[r] # Absent
    BY <1>4 DEF Calm, Supervision, SILENT, TERMINAL_STATUSES, Absent
  <1> QED
    BY <1>1, <1>2, <1>3, <1>4 DEF Supervision

\* ... and gives no ticket a second active run.
LEMMA CalmOneActive ==
  ASSUME TypeOK, OneActiveRunPerTicket, Calm
  PROVE  OneActiveRunPerTicket'
  BY DEF OneActiveRunPerTicket, Calm, ACTIVE_STATUSES, SILENT, TERMINAL_STATUSES

\* The recurring pieces of the actions are calm.
LEMMA LeaveHoldsNothing ==
  ASSUME TypeOK, NEW w \in Workers, Leave(w)
  PROVE  /\ \A v \in Workers :
              pc'[v] \in HOLDING => v # w /\ pc'[v] = pc[v] /\ job'[v] = job[v]
         /\ repo_lock' = repo_lock
  BY DEF Leave, Goto, TypeOK, WorkersOK, HOLDING, LOCKING, EXECUTING, PUBLISHING

\* Going on to _finish takes no run and gives up no lock.
LEMMA FinishAsKeepsHolding ==
  ASSUME TypeOK, NEW w \in Workers, NEW to, FinishAs(w, to), pc[w] \in EXECUTING
  PROVE  /\ job' = job
         /\ repo_lock' = repo_lock
         /\ \A v \in Workers : pc'[v] # pc[v] => pc[v] \in EXECUTING /\ pc'[v] \in EXECUTING
  BY DEF FinishAs, Goto, TypeOK, WorkersOK, EXECUTING, PUBLISHING

\* A status change of an unlocked row that is not an insert or a claim is calm.
LEMMA RecordTransitionIsCalm ==
  ASSUME TypeOK, NEW r \in Runs, NEW to \in SILENT \union TERMINAL_STATUSES,
         status[r] # Absent, ~RowLocked(r), to \in SILENT => status[r] \in SILENT,
         record_transition(r, to), NEW q \in Runs, status'[q] # status[q]
  PROVE  /\ ~RowLocked(q)
         /\ status[q] # Absent
         /\ status'[q] \in (SILENT \union TERMINAL_STATUSES)
         /\ status'[q] \in SILENT => status[q] \in SILENT
  BY DEF record_transition, TypeOK, TableOK

\* A row that is no longer queued is in no claiming transaction.
LEMMA WorkingIsNotLocked ==
  ASSUME Supervision, NEW r \in Runs, status[r] # "queued"
  PROVE  ~RowLocked(r)
  BY DEF Supervision, RowLocked

\* Begin, Insert, ClaimRow, CountRuns and Admit aside, every step is calm: one case per action.
LEMMA CalmStep ==
  ASSUME TypeOK, Supervision, [Next]_vars
  PROVE  \/ Calm
         \/ \E r \in Runs : Begin(r) \/ Insert(r)
         \/ \E w \in Workers : ClaimRow(w) \/ CountRuns(w) \/ Admit(w)
  <1> USE DEF table, github, queue, workers, docker, HOLDING
  <1>1. ASSUME NEW r \in Runs, InsertRefused(r) PROVE Calm
    BY <1>1 DEF InsertRefused, Calm, TypeOK, QueueOK
  <1>2. ASSUME NEW r \in Runs, ClearNeedsInput(r) PROVE Calm
    BY <1>2 DEF ClearNeedsInput, Calm, TypeOK, QueueOK
  <1>3. ASSUME NEW r \in Runs, HandOver(r) PROVE Calm
    BY <1>3 DEF HandOver, Calm, TypeOK, QueueOK
  <1>4. ASSUME NEW r \in Runs, HandOverUnanswered(r) PROVE Calm
    BY <1>4 DEF HandOverUnanswered, Calm, TypeOK, QueueOK
  <1>5. ASSUME NEW r \in Runs, EnqueueFails(r) PROVE Calm
    <2>1. status[r] # Absent /\ status' = [status EXCEPT ![r] = "cancelled"]
      BY <1>5 DEF EnqueueFails, Supervision
    <2> QED
      BY <1>5, <2>1
      DEF EnqueueFails, Calm, TypeOK, QueueOK, TableOK, SILENT, TERMINAL_STATUSES
  <1>6. ASSUME NEW r \in Runs, HandlerDies(r) PROVE Calm
    BY <1>6 DEF HandlerDies, Calm, TypeOK, QueueOK
  <1>7. ASSUME NEW r \in Runs, Cancel(r) PROVE Calm
    BY <1>7, RecordTransitionIsCalm, WorkingIsNotLocked
    DEF Cancel, Calm, SILENT, ACTIVE_STATUSES, TERMINAL_STATUSES, Absent
  <1>8. ASSUME NEW r \in Runs, GoSilent(r) PROVE Calm
    BY <1>8 DEF GoSilent, Calm
  <1>9. ASSUME NEW r \in Runs, GrowOld(r) PROVE Calm
    BY <1>9 DEF GrowOld, Calm
  <1>10. ASSUME NEW r \in Runs, Reap(r) PROVE Calm
    BY <1>10, RecordTransitionIsCalm, WorkingIsNotLocked
    DEF Reap, Calm, SILENT, ACTIVE_STATUSES, TERMINAL_STATUSES, Absent
  <1>11. ASSUME NEW r \in Runs, Clone(r) PROVE Calm
    BY <1>11 DEF Clone, Calm
  <1>12. ASSUME NEW r \in Runs, Callback(r) PROVE Calm
    BY <1>12 DEF Callback, Calm
  <1>13. ASSUME NEW r \in Runs, StartRunning(r) PROVE Calm
    BY <1>13, RecordTransitionIsCalm, WorkingIsNotLocked
    DEF StartRunning, Calm, SILENT, ACTIVE_STATUSES, TERMINAL_STATUSES, Absent
  <1>14. ASSUME NEW r \in Runs, RunnerExits(r) PROVE Calm
    BY <1>14 DEF RunnerExits, Calm
  <1>15. ASSUME NEW r \in Runs, SandboxDies(r) PROVE Calm
    BY <1>15 DEF SandboxDies, Calm
  <1>16. ASSUME NEW w \in Workers, NEW r \in Runs, Deliver(w, r) PROVE Calm
    BY <1>16 DEF Deliver, Calm, Goto, TypeOK, WorkersOK, LOCKING, EXECUTING, PUBLISHING
  <1>17. ASSUME NEW w \in Workers, NEW r \in Runs, SweepOne(w, r) PROVE Calm
    BY <1>17, RecordTransitionIsCalm, WorkingIsNotLocked
    DEF SweepOne, Calm, SILENT, ACTIVE_STATUSES, TERMINAL_STATUSES, Absent
  <1>18. ASSUME NEW w \in Workers, SweepDone(w) PROVE Calm
    BY <1>18 DEF SweepDone, Calm, Goto, TypeOK, WorkersOK, LOCKING, EXECUTING, PUBLISHING
  <1>19. ASSUME NEW w \in Workers, NotClaimable(w) PROVE Calm
    BY <1>19, LeaveHoldsNothing DEF NotClaimable, Calm
  <1>20. ASSUME NEW w \in Workers, RepoBusy(w) PROVE Calm
    BY <1>20, LeaveHoldsNothing DEF RepoBusy, Calm
  <1>21. ASSUME NEW w \in Workers, PrepareFails(w) PROVE Calm
    BY <1>21, FinishAsKeepsHolding, LockingIsNotExecuting
    DEF PrepareFails, Calm, EXECUTING, PUBLISHING
  <1>22. ASSUME NEW w \in Workers, StartSandbox(w) PROVE Calm
    BY <1>22
    DEF StartSandbox, Calm, Goto, TypeOK, WorkersOK, LOCKING, EXECUTING, PUBLISHING
  <1>23. ASSUME NEW w \in Workers, Wait(w) PROVE Calm
    BY <1>23 DEF Wait, Calm, Goto, TypeOK, WorkersOK, LOCKING, EXECUTING, PUBLISHING
  <1>24. ASSUME NEW w \in Workers, Collect(w) PROVE Calm
    BY <1>24 DEF Collect, Calm, Goto, TypeOK, WorkersOK, LOCKING, EXECUTING, PUBLISHING
  <1>25. ASSUME NEW w \in Workers, SandboxBreaks(w) PROVE Calm
    BY <1>25, FinishAsKeepsHolding, LockingIsNotExecuting
    DEF SandboxBreaks, Calm, EXECUTING, PUBLISHING
  <1>26. ASSUME NEW w \in Workers, Conclude(w) PROVE Calm
    BY <1>26, FinishAsKeepsHolding, LockingIsNotExecuting, LeaveHoldsNothing
    DEF Conclude, Calm, Goto, TypeOK, WorkersOK, LOCKING, EXECUTING, PUBLISHING
  <1>27. ASSUME NEW w \in Workers, StillActive(w) PROVE Calm
    BY <1>27, LeaveHoldsNothing
    DEF StillActive, Calm, Goto, TypeOK, WorkersOK, LOCKING, EXECUTING, PUBLISHING
  <1>28. ASSUME NEW w \in Workers, Push(w) PROVE Calm
    BY <1>28, FinishAsKeepsHolding, LockingIsNotExecuting
    DEF Push, Calm, Goto, TypeOK, WorkersOK, LOCKING, EXECUTING, PUBLISHING
  <1>29. ASSUME NEW w \in Workers, PushFails(w) PROVE Calm
    BY <1>29, FinishAsKeepsHolding, LockingIsNotExecuting
    DEF PushFails, Calm, EXECUTING, PUBLISHING
  <1>30. ASSUME NEW w \in Workers, OpenPull(w) PROVE Calm
    BY <1>30, FinishAsKeepsHolding, LockingIsNotExecuting
    DEF OpenPull, Calm, Goto, TypeOK, WorkersOK, LOCKING, EXECUTING, PUBLISHING
  <1>31. ASSUME NEW w \in Workers, LinkPull(w) PROVE Calm
    BY <1>31, FinishAsKeepsHolding, LockingIsNotExecuting
    DEF LinkPull, Calm, EXECUTING, PUBLISHING
  <1>32. ASSUME NEW w \in Workers, Ask(w) PROVE Calm
    BY <1>32, LeaveHoldsNothing
    DEF Ask, Calm, Goto, TypeOK, WorkersOK, LOCKING, EXECUTING, PUBLISHING
  <1>33. ASSUME NEW w \in Workers, AddLabel(w) PROVE Calm
    BY <1>33, FinishAsKeepsHolding, LockingIsNotExecuting
    DEF AddLabel, Calm, EXECUTING, PUBLISHING
  <1>34. ASSUME NEW w \in Workers, PublishBreaks(w) PROVE Calm
    BY <1>34, FinishAsKeepsHolding, LockingIsNotExecuting
    DEF PublishBreaks, Calm, EXECUTING, PUBLISHING
  <1>35. ASSUME NEW w \in Workers, PublishAbandoned(w) PROVE Calm
    BY <1>35, LeaveHoldsNothing DEF PublishAbandoned, Calm
  <1>36. ASSUME NEW w \in Workers, Finish(w) PROVE Calm
    BY <1>36, RecordTransitionIsCalm, WorkingIsNotLocked, LeaveHoldsNothing
    DEF Finish, Calm, Supervision, Terminal, TypeOK, WorkersOK, EXECUTING, PUBLISHING,
        SILENT, ACTIVE_STATUSES, TERMINAL_STATUSES, Absent
  <1>37. ASSUME NEW w \in Workers, SoftTimeLimit(w) PROVE Calm
    BY <1>37
    DEF SoftTimeLimit, Calm, Goto, TypeOK, WorkersOK, LOCKING, EXECUTING, PUBLISHING
  <1>38. ASSUME NEW w \in Workers, TimeOut(w) PROVE Calm
    BY <1>38, FinishAsKeepsHolding, LockingIsNotExecuting, LeaveHoldsNothing
    DEF TimeOut, Calm, EXECUTING, PUBLISHING
  <1>39. ASSUME NEW w \in Workers, Crash(w) PROVE Calm
    BY <1>39 DEF Crash, Calm, Die, TypeOK, WorkersOK, LOCKING, EXECUTING, PUBLISHING
  <1>40. ASSUME NEW w \in Workers, Restart(w) PROVE Calm
    BY <1>40 DEF Restart, Calm, Goto, TypeOK, WorkersOK, LOCKING, EXECUTING, PUBLISHING
  <1>41. ASSUME NEW w \in Workers, Redeliver(w) PROVE Calm
    BY <1>41 DEF Redeliver, Calm
  <1>42. ASSUME ReaperScans PROVE Calm
    BY <1>42 DEF ReaperScans, Calm
  <1>43. ASSUME Recreate PROVE Calm
    BY <1>43 DEF Recreate, Calm, Die, TypeOK, WorkersOK, LOCKING, EXECUTING, PUBLISHING
  <1>44. CASE UNCHANGED vars
    BY <1>44 DEF vars, Calm
  <1> QED
    BY <1>1, <1>2, <1>3, <1>4, <1>5, <1>6, <1>7, <1>8, <1>9, <1>10, <1>11, <1>12, <1>13,
       <1>14, <1>15, <1>16, <1>17, <1>18, <1>19, <1>20, <1>21, <1>22, <1>23, <1>24,
       <1>25, <1>26, <1>27, <1>28, <1>29, <1>30, <1>31, <1>32, <1>33, <1>34, <1>35, <1>36,
       <1>37, <1>38, <1>39, <1>40, <1>41, <1>42, <1>43, <1>44
    DEF Next, Api, Sandbox, Time, Work, Trouble

\* Every step keeps Supervision: the claim and the insert by themselves, the rest being calm.
LEMMA SupervisionStep == TypeOK /\ Supervision /\ [Next]_vars => Supervision'
  <1> SUFFICES ASSUME TypeOK, Supervision, [Next]_vars PROVE Supervision'
    OBVIOUS
  <1>0. TypeOK'
    BY TypeStep
  <1>1. CASE Calm
    BY <1>0, <1>1, CalmSupervision
  <1>2. ASSUME NEW r \in Runs, Begin(r) PROVE Supervision'
    BY <1>2 DEF Begin, Supervision, TypeOK, QueueOK, workers
  <1>3. ASSUME NEW r \in Runs, Insert(r) PROVE Supervision'
    <2>1. status[r] = Absent /\ status' = [status EXCEPT ![r] = "queued"]
      BY <1>3 DEF Insert, Supervision
    <2>2. \A w \in Workers : pc[w] \in HOLDING => job[w] # r
      BY <2>1 DEF Supervision, HOLDING, Absent
    <2> QED
      BY <1>3, <2>1, <2>2
      DEF Insert, Supervision, HOLDING, TypeOK, TableOK, QueueOK, workers, Absent
  <1>4. ASSUME NEW w \in Workers, ClaimRow(w) PROVE Supervision'
    <2>1. \A v \in Workers : v # w /\ pc[v] \in HOLDING => job[v] # job[w]
      BY <1>4 DEF ClaimRow, Supervision, RowLocked, HOLDING
    <2> QED
      BY <1>4, <2>1, LockingIsNotExecuting
      DEF ClaimRow, Goto, Supervision, HOLDING, LOCKING, TypeOK, WorkersOK, table, queue
  <1>5. ASSUME NEW w \in Workers, CountRuns(w) PROVE Supervision'
    BY <1>5, LockingIsNotExecuting
    DEF CountRuns, Goto, Supervision, HOLDING, LOCKING, TypeOK, WorkersOK, table, queue
  <1>6. ASSUME NEW w \in Workers, Admit(w) PROVE Supervision'
    <2>1. job[w] \in Runs /\ pc[w] \in LOCKING /\ status[job[w]] = "queued"
      BY <1>6 DEF Admit, Supervision, LOCKING, TypeOK, WorkersOK
    <2>2. \A v \in Workers : v # w /\ pc[v] \in HOLDING => job[v] # job[w]
      BY <2>1 DEF Supervision, HOLDING
    <2>3. status' = [status EXCEPT ![job[w]] = "claimed"] /\ pc' = [pc EXCEPT ![w] = "prepare"]
          /\ job' = job /\ handing' = handing
      BY <1>6 DEF Admit, Goto, record_transition, queue
    <2>4. "prepare" \in EXECUTING /\ "prepare" \notin LOCKING
      BY DEF EXECUTING, LOCKING
    <2> QED
      BY <2>1, <2>2, <2>3, <2>4
      DEF Supervision, HOLDING, TypeOK, TableOK, WorkersOK, Absent
  <1> QED
    BY <1>1, <1>2, <1>3, <1>4, <1>5, <1>6, CalmStep

\* Only the insert makes a run active, and the index stands before it.
LEMMA OneActiveStep ==
  TypeOK /\ Supervision /\ OneActiveRunPerTicket /\ [Next]_vars => OneActiveRunPerTicket'
  <1> SUFFICES ASSUME TypeOK, Supervision, OneActiveRunPerTicket, [Next]_vars
               PROVE  OneActiveRunPerTicket'
    OBVIOUS
  <1>1. CASE Calm
    BY <1>1, CalmOneActive
  <1>2. CASE \E r \in Runs : Begin(r)
    BY <1>2 DEF Begin, OneActiveRunPerTicket
  <1>3. CASE \E r \in Runs : Insert(r)
    BY <1>3 DEF Insert, IndexAllows, NoActiveRun, OneActiveRunPerTicket, TypeOK, TableOK
  <1>4. CASE \E w \in Workers : ClaimRow(w) \/ CountRuns(w)
    BY <1>4 DEF ClaimRow, CountRuns, OneActiveRunPerTicket, table
  <1>5. ASSUME NEW w \in Workers, Admit(w) PROVE OneActiveRunPerTicket'
    <2>1. job[w] \in Runs /\ status[job[w]] \in ACTIVE_STATUSES
      BY <1>5 DEF Admit, Supervision, LOCKING, TypeOK, WorkersOK, ACTIVE_STATUSES
    <2> QED
      BY <1>5, <2>1 DEF Admit, record_transition, OneActiveRunPerTicket, TypeOK, TableOK
  <1> QED
    BY <1>1, <1>2, <1>3, <1>4, <1>5, CalmStep

\* Nothing is held or handed over initially.
LEMMA SupervisionInit == Init => TypeOK /\ Supervision /\ OneActiveRunPerTicket
  BY LimitAssumption
  DEF Init, TypeOK, TableOK, GithubOK, QueueOK, WorkersOK, DockerOK, Steps, Found, Results,
      TERMINAL_STATUSES, Supervision, HOLDING, LOCKING, EXECUTING, PUBLISHING,
      OneActiveRunPerTicket, ACTIVE_STATUSES, Absent

\* However many handlers race, no ticket ever has two active runs.
THEOREM OneActive == Spec => []OneActiveRunPerTicket
  <1>1. TypeOK /\ Supervision /\ OneActiveRunPerTicket /\ [Next]_vars
          => (TypeOK /\ Supervision /\ OneActiveRunPerTicket)'
    BY TypeStep, SupervisionStep, OneActiveStep
  <1> QED
    BY SupervisionInit, <1>1, PTL DEF Spec

\* However often a message is delivered, no run is executed by two workers at once.
THEOREM OneSupervisor == Spec => []OneSupervisorPerRun
  <1>1. TypeOK /\ Supervision /\ [Next]_vars => (TypeOK /\ Supervision)'
    BY TypeStep, SupervisionStep
  <1>2. Supervision => OneSupervisorPerRun
    BY DEF Supervision, OneSupervisorPerRun, HOLDING
  <1> QED
    BY SupervisionInit, <1>1, <1>2, PTL DEF Spec

-----------------------------------------------------------------------------
(* The table keeps the promises of RunLifecycle *)

\* The actions that write a row's status or secret.
LEMMA TableWriters ==
  ASSUME [Next]_vars
  PROVE  \/ UNCHANGED <<status, callback_secret>>
         \/ \E r \in Runs :
              Insert(r) \/ EnqueueFails(r) \/ Cancel(r) \/ StartRunning(r) \/ Reap(r)
         \/ \E w \in Workers : Admit(w) \/ Finish(w) \/ \E r \in Runs : SweepOne(w, r)
  <1> DEFINE Goal == UNCHANGED <<status, callback_secret>>
  <1>1. ASSUME NEW r \in Runs, Begin(r) \/ InsertRefused(r) \/ ClearNeedsInput(r) \/
              HandOver(r) \/ HandOverUnanswered(r) \/ HandlerDies(r) PROVE Goal
    BY <1>1
    DEF Begin, InsertRefused, ClearNeedsInput, HandOver, HandOverUnanswered, HandlerDies,
        table, Die
  <1>2. ASSUME NEW r \in Runs, Clone(r) \/ Callback(r) \/ RunnerExits(r) \/ SandboxDies(r) \/
              GoSilent(r) \/ GrowOld(r) PROVE Goal
    BY <1>2
    DEF Clone, Callback, RunnerExits, SandboxDies, GoSilent, GrowOld, table, Die
  <1>3. ASSUME NEW w \in Workers, NEW r \in Runs, Deliver(w, r) PROVE Goal
    BY <1>3
    DEF Deliver, table, Die
  <1>4. ASSUME NEW w \in Workers, SweepDone(w) \/ ClaimRow(w) \/ NotClaimable(w) \/
              CountRuns(w) \/ RepoBusy(w) PROVE Goal
    BY <1>4
    DEF SweepDone, ClaimRow, NotClaimable, CountRuns, RepoBusy, table, Die
  <1>5. ASSUME NEW w \in Workers, PrepareFails(w) \/ StartSandbox(w) \/ Wait(w) \/ Collect(w)
              \/ SandboxBreaks(w) \/ Conclude(w) \/ StillActive(w) \/ Push(w) \/
              PushFails(w) PROVE Goal
    BY <1>5
    DEF PrepareFails, StartSandbox, Wait, Collect, SandboxBreaks, Conclude, StillActive,
        Push, PushFails, table, Die
  <1>6. ASSUME NEW w \in Workers, OpenPull(w) \/ LinkPull(w) \/ Ask(w) \/ AddLabel(w) \/
              TimeOut(w) \/ Restart(w) PROVE Goal
    BY <1>6
    DEF OpenPull, LinkPull, Ask, AddLabel, TimeOut, Restart, table, Die
  <1>7. ASSUME NEW w \in Workers, PublishBreaks(w) \/ PublishAbandoned(w) \/ SoftTimeLimit(w)
              \/ Crash(w) \/ Redeliver(w) PROVE Goal
    BY <1>7
    DEF PublishBreaks, PublishAbandoned, SoftTimeLimit, Crash, Redeliver, table, Die
  <1>8. ASSUME ReaperScans \/ Recreate PROVE Goal
    BY <1>8
    DEF ReaperScans, Recreate, table, Die
  <1>9. CASE UNCHANGED vars
    BY <1>9 DEF vars, table, queue, workers
  <1> QED
    BY <1>1, <1>2, <1>3, <1>4, <1>5, <1>6, <1>7, <1>8, <1>9
    DEF Next, Api, Sandbox, Time, Work, Trouble

\* A task that returns, or goes on to _finish, takes no other run.
LEMMA LeaveTakesNoRun ==
  ASSUME TypeOK, NEW w \in Workers
  PROVE  /\ Leave(w) => \A v \in Workers : job'[v] \in {job[v], NoRun}
         /\ \A to : FinishAs(w, to) => job' = job
  BY DEF Leave, FinishAs, TypeOK, WorkersOK

\* The actions by which a run can come to be on the queue or in a worker.
LEMMA QueueWriters ==
  ASSUME TypeOK, [Next]_vars
  PROVE  \/ messages' = messages /\ \A w \in Workers : job'[w] \in {job[w], NoRun}
         \/ \E r \in Runs : HandOver(r) \/ HandOverUnanswered(r)
         \/ \E w \in Workers : \/ RepoBusy(w) \/ Redeliver(w) \/ Crash(w)
                               \/ \E r \in Runs : Deliver(w, r)
         \/ Recreate
  <1> DEFINE Goal == messages' = messages /\ \A v \in Workers : job'[v] \in {job[v], NoRun}
  <1>1. ASSUME NEW r \in Runs, Begin(r) \/ Insert(r) \/ InsertRefused(r) \/ ClearNeedsInput(r)
              \/ EnqueueFails(r) \/ HandlerDies(r) \/ Cancel(r) PROVE Goal
    BY <1>1, LeaveTakesNoRun
    DEF Begin, Insert, InsertRefused, ClearNeedsInput, EnqueueFails, HandlerDies, Cancel,
        queue, workers
  <1>2. ASSUME NEW r \in Runs, Clone(r) \/ Callback(r) \/ StartRunning(r) \/ RunnerExits(r) \/
              SandboxDies(r) \/ GoSilent(r) \/ GrowOld(r) \/ Reap(r) PROVE Goal
    BY <1>2, LeaveTakesNoRun
    DEF Clone, Callback, StartRunning, RunnerExits, SandboxDies, GoSilent, GrowOld, Reap,
        queue, workers
  <1>3. ASSUME NEW w \in Workers, NEW r \in Runs, SweepOne(w, r) PROVE Goal
    BY <1>3, LeaveTakesNoRun
    DEF SweepOne, queue, workers
  <1>4. ASSUME NEW w \in Workers, SweepDone(w) \/ ClaimRow(w) \/ NotClaimable(w) \/
              CountRuns(w) \/ Admit(w) PROVE Goal
    BY <1>4, LeaveTakesNoRun
    DEF SweepDone, ClaimRow, NotClaimable, CountRuns, Admit, queue, workers
  <1>5. ASSUME NEW w \in Workers, PrepareFails(w) \/ StartSandbox(w) \/ Wait(w) \/ Collect(w)
              \/ SandboxBreaks(w) \/ Conclude(w) \/ StillActive(w) \/ Push(w) \/
              PushFails(w) PROVE Goal
    BY <1>5, LeaveTakesNoRun
    DEF PrepareFails, StartSandbox, Wait, Collect, SandboxBreaks, Conclude, StillActive,
        Push, PushFails, queue, workers
  <1>6. ASSUME NEW w \in Workers, OpenPull(w) \/ LinkPull(w) \/ Ask(w) \/ AddLabel(w) \/
              Finish(w) \/ TimeOut(w) \/ Restart(w) PROVE Goal
    BY <1>6, LeaveTakesNoRun
    DEF OpenPull, LinkPull, Ask, AddLabel, Finish, TimeOut, Restart, queue, workers
  <1>7. ASSUME NEW w \in Workers,
               PublishBreaks(w) \/ PublishAbandoned(w) \/ SoftTimeLimit(w)
        PROVE  Goal
    BY <1>7, LeaveTakesNoRun
    DEF PublishBreaks, PublishAbandoned, SoftTimeLimit, queue, workers
  <1>8. ASSUME ReaperScans PROVE Goal
    BY <1>8, LeaveTakesNoRun
    DEF ReaperScans, queue, workers
  <1>9. CASE UNCHANGED vars
    BY <1>9 DEF vars, table, queue, workers
  <1> QED
    BY <1>1, <1>2, <1>3, <1>4, <1>5, <1>6, <1>7, <1>8, <1>9
    DEF Next, Api, Sandbox, Time, Work, Trouble

\* No message of r waits, and no worker has taken one.
Undelivered(r) == messages[r] = 0 /\ \A w \in Workers : job[w] # r

\* An undelivered run stays so until enqueue puts it on the queue.
LEMMA StaysUndelivered ==
  ASSUME TypeOK, [Next]_vars, NEW r \in Runs, Undelivered(r),
         ~HandOver(r), ~HandOverUnanswered(r)
  PROVE  Undelivered(r)'
  <1> USE DEF Undelivered
  <1>1. CASE messages' = messages /\ \A w \in Workers : job'[w] \in {job[w], NoRun}
    BY <1>1, NullAssumption
  <1>2. ASSUME NEW q \in Runs, HandOver(q) \/ HandOverUnanswered(q) PROVE Undelivered(r)'
    BY <1>2 DEF HandOver, HandOverUnanswered, TypeOK, QueueOK, workers
  <1>3. ASSUME NEW w \in Workers, RepoBusy(w) PROVE Undelivered(r)'
    BY <1>3, LeaveTakesNoRun, NullAssumption DEF RepoBusy, TypeOK, QueueOK
  <1>4. ASSUME NEW w \in Workers, Redeliver(w) PROVE Undelivered(r)'
    BY <1>4 DEF Redeliver, TypeOK, QueueOK, workers
  <1>5. ASSUME NEW dying \in SUBSET Workers, Die(dying) PROVE Undelivered(r)'
    <2>1. {w \in dying : job[w] = r} = {}
      OBVIOUS
    <2>2. Unacknowledged(dying, r) = 0
      BY <2>1, FS_EmptySet DEF Unacknowledged
    <2> QED
      BY <1>5, <2>2, NullAssumption DEF Die
  <1>6. ASSUME NEW w \in Workers, NEW q \in Runs, Deliver(w, q) PROVE Undelivered(r)'
    BY <1>6 DEF Deliver, TypeOK, QueueOK, WorkersOK
  <1> QED
    BY <1>1, <1>2, <1>3, <1>4, <1>5, <1>6, QueueWriters DEF Crash, Recreate

\* The arrows of state.py's diagram that the actions take, and what any arrow looks like.
LEMMA Arrows ==
  /\ can_transition("queued", "claimed")
  /\ can_transition("claimed", "running")
  /\ \A from \in SILENT : can_transition(from, "failed")
  /\ \A from \in ACTIVE_STATUSES : can_transition(from, "cancelled")
  /\ \A to \in TERMINAL_STATUSES : can_transition("running", to)
  /\ \A from, to : can_transition(from, to) =>
       /\ from \in ACTIVE_STATUSES
       /\ to \in SILENT \union TERMINAL_STATUSES
       /\ from = "queued" => to \in {"claimed", "cancelled"}
       /\ to = "running" => from = "claimed"
  BY DEF can_transition, TRANSITIONS, RunStatus, ACTIVE_STATUSES, TERMINAL_STATUSES, SILENT

\* Inserts and failed hand-overs aside, whatever moves a run takes an arrow; a run only
\* leaves the queue by a cancel or in the hands of a worker.
LEMMA Transitions ==
  ASSUME TypeOK, Supervision, [Next]_vars
  PROVE  \/ UNCHANGED <<status, callback_secret>>
         \/ \E r \in Runs : Insert(r) \/ EnqueueFails(r)
         \/ \E r \in Runs, to \in RunStatus :
              /\ can_transition(status[r], to)
              /\ record_transition(r, to)
              /\ handing' = handing
              /\ to # "cancelled" =>
                   (\E w \in Workers : job[w] = r) \/ status[r] \in SILENT
  <1> DEFINE Arrow(r, to) == /\ can_transition(status[r], to)
                             /\ record_transition(r, to)
                             /\ handing' = handing
                             /\ to # "cancelled" =>
                                  (\E w \in Workers : job[w] = r) \/ status[r] \in SILENT
  <1> DEFINE Goal == \/ UNCHANGED <<status, callback_secret>>
                     \/ \E r \in Runs, to \in RunStatus : Arrow(r, to)
  <1>0. {"claimed", "running", "failed", "cancelled"} \subseteq RunStatus
        /\ TERMINAL_STATUSES \subseteq RunStatus
    BY DEF RunStatus, ACTIVE_STATUSES, TERMINAL_STATUSES
  <1>1. ASSUME NEW r \in Runs, Cancel(r) PROVE Goal
    <2>1. Arrow(r, "cancelled")
      BY <1>1, Arrows DEF Cancel, queue
    <2> QED
      BY <1>0, <2>1
  <1>2. ASSUME NEW r \in Runs, StartRunning(r) PROVE Goal
    <2>1. CASE status[r] = "claimed"
      <3>1. Arrow(r, "running")
        BY <1>2, <2>1, Arrows DEF StartRunning, queue, SILENT
      <3> QED
        BY <1>0, <3>1
    <2> QED
      BY <1>2, <2>1 DEF StartRunning, table
  <1>3. ASSUME NEW r \in Runs, Reap(r) PROVE Goal
    <2>1. CASE status[r] \in SILENT /\ ~heard[r]
      <3>1. Arrow(r, "failed")
        BY <1>3, <2>1, Arrows DEF Reap, queue
      <3> QED
        BY <1>0, <3>1
    <2> QED
      BY <1>3, <2>1 DEF Reap, table
  <1>4. ASSUME NEW w \in Workers, NEW r \in Runs, SweepOne(w, r) PROVE Goal
    <2>1. CASE status[r] \in SILENT
      <3>1. Arrow(r, "failed")
        BY <1>4, <2>1, Arrows DEF SweepOne, queue
      <3> QED
        BY <1>0, <3>1
    <2> QED
      BY <1>4, <2>1 DEF SweepOne, table
  <1>5. ASSUME NEW w \in Workers, Admit(w) PROVE Goal
    <2>1. job[w] \in Runs /\ status[job[w]] = "queued"
      BY <1>5 DEF Admit, Supervision, LOCKING, TypeOK, WorkersOK
    <2>2. Arrow(job[w], "claimed")
      BY <1>5, <2>1, Arrows DEF Admit, queue
    <2> QED
      BY <1>0, <2>1, <2>2
  <1>6. ASSUME NEW w \in Workers, Finish(w) PROVE Goal
    <2>1. job[w] \in Runs /\ target[w] \in TERMINAL_STATUSES
          /\ status[job[w]] \in SILENT \union TERMINAL_STATUSES
      BY <1>6 DEF Finish, Supervision, EXECUTING, PUBLISHING, TypeOK, WorkersOK, TableOK,
                  RunStatus, ACTIVE_STATUSES, SILENT
    <2>2. CASE Terminal(job[w]) /\ UNCHANGED table
      BY <2>2 DEF table
    <2>3. CASE status[job[w]] = "claimed" /\ record_transition(job[w], "running")
      <3>1. Arrow(job[w], "running")
        BY <1>6, <2>1, <2>3, Arrows DEF Finish, queue
      <3> QED
        BY <1>0, <2>1, <3>1
    <2>4. CASE /\ ~Terminal(job[w])
               /\ status[job[w]] = "claimed" => target[w] = "failed"
               /\ record_transition(job[w], target[w])
      <3>1. Arrow(job[w], target[w])
        BY <1>6, <2>1, <2>4, Arrows DEF Finish, queue, Terminal, SILENT
      <3> QED
        BY <1>0, <2>1, <3>1
    <2> QED
      BY <1>6, <2>2, <2>3, <2>4 DEF Finish
  <1> QED
    BY <1>1, <1>2, <1>3, <1>4, <1>5, <1>6, TableWriters

\* While enqueue_run has not handed the run over, nobody else has: it is queued, or was
\* cancelled meanwhile, and the session's own copy of it says nothing wrong. Only a broker
\* that takes a message and still reports an error can break this.
HandOverIsFirst ==
  /\ \A r \in Runs : handing[r] # "refused"
  /\ \A r \in Runs :
       status[r] = Absent \/ handing[r] \in {"committed", "cleared"} => Undelivered(r)
  /\ \A r \in Runs :
       handing[r] \in {"committed", "cleared"} => status[r] \in {"queued", "cancelled"}

\* Only the API handlers move a run along enqueue_run.
LEMMA HandingWriters ==
  ASSUME [Next]_vars
  PROVE  \/ handing' = handing
         \/ \E r \in Runs : \/ Begin(r) \/ Insert(r) \/ InsertRefused(r) \/ ClearNeedsInput(r)
                            \/ HandOver(r) \/ HandOverUnanswered(r) \/ EnqueueFails(r)
                            \/ HandlerDies(r)
  <1> DEFINE Goal == handing' = handing
  <1>1. ASSUME NEW r \in Runs, Cancel(r) PROVE Goal
    BY <1>1
    DEF Cancel, queue, Die
  <1>2. ASSUME NEW r \in Runs, Clone(r) \/ Callback(r) \/ StartRunning(r) \/ RunnerExits(r) \/
              SandboxDies(r) \/ GoSilent(r) \/ GrowOld(r) \/ Reap(r) PROVE Goal
    BY <1>2
    DEF Clone, Callback, StartRunning, RunnerExits, SandboxDies, GoSilent, GrowOld, Reap,
        queue, Die
  <1>3. ASSUME NEW w \in Workers, NEW r \in Runs, Deliver(w, r) \/ SweepOne(w, r) PROVE Goal
    BY <1>3
    DEF Deliver, SweepOne, queue, Die
  <1>4. ASSUME NEW w \in Workers, SweepDone(w) \/ ClaimRow(w) \/ NotClaimable(w) \/
              CountRuns(w) \/ RepoBusy(w) \/ Admit(w) PROVE Goal
    BY <1>4
    DEF SweepDone, ClaimRow, NotClaimable, CountRuns, RepoBusy, Admit, queue, Die
  <1>5. ASSUME NEW w \in Workers, PrepareFails(w) \/ StartSandbox(w) \/ Wait(w) \/ Collect(w)
              \/ SandboxBreaks(w) \/ Conclude(w) \/ StillActive(w) \/ Push(w) \/
              PushFails(w) PROVE Goal
    BY <1>5
    DEF PrepareFails, StartSandbox, Wait, Collect, SandboxBreaks, Conclude, StillActive,
        Push, PushFails, queue, Die
  <1>6. ASSUME NEW w \in Workers, OpenPull(w) \/ LinkPull(w) \/ Ask(w) \/ AddLabel(w) \/
              Finish(w) \/ TimeOut(w) \/ Restart(w) PROVE Goal
    BY <1>6
    DEF OpenPull, LinkPull, Ask, AddLabel, Finish, TimeOut, Restart, queue, Die
  <1>7. ASSUME NEW w \in Workers, PublishBreaks(w) \/ PublishAbandoned(w) \/ SoftTimeLimit(w)
              \/ Crash(w) \/ Redeliver(w) PROVE Goal
    BY <1>7
    DEF PublishBreaks, PublishAbandoned, SoftTimeLimit, Crash, Redeliver, queue, Die
  <1>8. ASSUME ReaperScans \/ Recreate PROVE Goal
    BY <1>8
    DEF ReaperScans, Recreate, queue, Die
  <1>9. CASE UNCHANGED vars
    BY <1>9 DEF vars, table, queue, workers
  <1> QED
    BY <1>1, <1>2, <1>3, <1>4, <1>5, <1>6, <1>7, <1>8, <1>9
    DEF Next, Api, Sandbox, Time, Work, Trouble

\* Until its hand-over, a run is not on the queue, so it is queued or cancelled.
LEMMA HandOverStep ==
  ASSUME LostReplies = FALSE, TypeOK, Supervision, HandOverIsFirst, [Next]_vars
  PROVE  HandOverIsFirst'
  <1> USE DEF HandOverIsFirst
  <1>1. \A r \in Runs : ~HandOverUnanswered(r)
    BY DEF HandOverUnanswered
  <1>2. \A r \in Runs : Undelivered(r) /\ ~HandOver(r) => Undelivered(r)'
    BY <1>1, StaysUndelivered
  <1>3. CASE handing' = handing
    <2>1. \A r \in Runs : ~Insert(r) /\ ~EnqueueFails(r) /\ ~HandOver(r)
      BY <1>3 DEF Insert, EnqueueFails, HandOver, TypeOK, QueueOK
    <2>2. CASE UNCHANGED <<status, callback_secret>>
      BY <1>2, <1>3, <2>1, <2>2
    <2>3. ASSUME NEW q \in Runs, NEW to \in RunStatus,
                 can_transition(status[q], to), record_transition(q, to),
                 to # "cancelled" => (\E w \in Workers : job[w] = q) \/ status[q] \in SILENT
          PROVE  HandOverIsFirst'
      <3>1. status' = [status EXCEPT ![q] = to] /\ to # Absent /\ status[q] # Absent
        BY <2>3, Arrows
        DEF record_transition, SILENT, TERMINAL_STATUSES, ACTIVE_STATUSES, Absent
      <3>2. handing[q] \in {"committed", "cleared"} => to = "cancelled"
        BY <2>3 DEF Undelivered, SILENT
      <3> QED
        BY <1>2, <1>3, <2>1, <3>1, <3>2 DEF TypeOK, TableOK
    <2> QED
      BY <2>1, <2>2, <2>3, Transitions
  <1>4. ASSUME NEW q \in Runs, Begin(q) PROVE HandOverIsFirst'
    BY <1>2, <1>4 DEF Begin, HandOver, TypeOK, QueueOK
  <1>5. ASSUME NEW q \in Runs, Insert(q) PROVE HandOverIsFirst'
    <2>1. status[q] = Absent
      BY <1>5 DEF Insert, Supervision
    <2>2. ~HandOver(q) /\ \A r \in Runs : ~HandOver(r)
      BY <1>5 DEF Insert, HandOver, TypeOK, QueueOK
    <2> QED
      BY <1>2, <1>5, <2>1, <2>2 DEF Insert, TypeOK, TableOK, QueueOK, Absent
  <1>6. ASSUME NEW q \in Runs, InsertRefused(q) PROVE HandOverIsFirst'
    BY <1>2, <1>6 DEF InsertRefused, HandOver, TypeOK, QueueOK
  <1>7. ASSUME NEW q \in Runs, ClearNeedsInput(q) PROVE HandOverIsFirst'
    BY <1>2, <1>7 DEF ClearNeedsInput, HandOver, TypeOK, QueueOK, table
  <1>8. ASSUME NEW q \in Runs, HandOver(q) PROVE HandOverIsFirst'
    <2>1. status[q] # Absent /\ status' = status /\ handing' = [handing EXCEPT ![q] = "no"]
      BY <1>8 DEF HandOver, Supervision, table
    <2>2. \A r \in Runs \ {q} : Undelivered(r) => Undelivered(r)'
      BY <1>8 DEF HandOver, Undelivered, TypeOK, QueueOK, workers
    <2> QED
      BY <2>1, <2>2 DEF TypeOK, QueueOK
  <1>9. ASSUME NEW q \in Runs, EnqueueFails(q) PROVE HandOverIsFirst'
    <2>1. \A r \in Runs : ~HandOver(r)
      BY <1>9 DEF EnqueueFails, HandOver, workers, queue, TypeOK, QueueOK
    <2> QED
      BY <1>2, <1>9, <2>1 DEF EnqueueFails, TypeOK, TableOK, QueueOK, Absent
  <1>10. ASSUME NEW q \in Runs, HandlerDies(q) PROVE HandOverIsFirst'
    <2>1. \A r \in Runs : ~HandOver(r)
      BY <1>10 DEF HandlerDies, HandOver, TypeOK, QueueOK
    <2> QED
      BY <1>2, <1>10, <2>1 DEF HandlerDies, TypeOK, QueueOK, table
  <1> HIDE DEF HandOverIsFirst
  <1> QED
    BY <1>1, <1>3, <1>4, <1>5, <1>6, <1>7, <1>8, <1>9, <1>10, HandingWriters

\* What SecretExactlyWhileWorking and LifecycleSpec rest on.
RowInv == TypeOK /\ Supervision /\ HandOverIsFirst /\ SecretExactlyWhileWorking

\* The invariant of a row holds initially ...
LEMMA RowInvInit == Init => RowInv
  <1>1. Init => TypeOK /\ Supervision
    BY SupervisionInit
  <1> QED
    BY <1>1, NullAssumption
    DEF Init, RowInv, HandOverIsFirst, Undelivered, SecretExactlyWhileWorking, SILENT, Absent

\* ... and every step keeps it.
LEMMA RowInvStep ==
  ASSUME LostReplies = FALSE, RowInv, [Next]_vars
  PROVE  RowInv'
  <1> USE DEF RowInv
  <1>1. TypeOK' /\ Supervision' /\ HandOverIsFirst'
    BY TypeStep, SupervisionStep, HandOverStep
  <1>2. SecretExactlyWhileWorking'
    <2> USE DEF SecretExactlyWhileWorking
    <2>1. CASE UNCHANGED <<status, callback_secret>>
      BY <2>1
    <2>2. ASSUME NEW r \in Runs, Insert(r) PROVE SecretExactlyWhileWorking'
      BY <2>2 DEF Insert, Supervision, TypeOK, TableOK, SILENT, Absent
    <2>3. ASSUME NEW r \in Runs, EnqueueFails(r) PROVE SecretExactlyWhileWorking'
      BY <2>3 DEF EnqueueFails, HandOverIsFirst, TypeOK, TableOK, SILENT
    <2>4. ASSUME NEW r \in Runs, NEW to \in RunStatus,
                 can_transition(status[r], to), record_transition(r, to)
          PROVE  SecretExactlyWhileWorking'
      BY <2>4, Arrows DEF record_transition, TypeOK, TableOK, SILENT, TERMINAL_STATUSES
    <2> QED
      BY <2>1, <2>2, <2>3, <2>4, Transitions
  <1> QED
    BY <1>1, <1>2

\* With a broker that only raises for messages it did not take, a run holds a callback
\* secret exactly while it is claimed or running.
THEOREM SecretsMatch ==
  ASSUME LostReplies = FALSE
  PROVE  Spec => []SecretExactlyWhileWorking
  <1>1. RowInv /\ [Next]_vars => RowInv'
    BY RowInvStep
  <1>2. RowInv => SecretExactlyWhileWorking
    BY DEF RowInv
  <1> QED
    BY RowInvInit, <1>1, <1>2, PTL DEF Spec

\* RunLifecycle sees the statuses and arrows of RunStates.
LEMMA SameDiagram ==
  /\ Lifecycle!Absent = Absent
  /\ \A from, to : can_transition(from, to) => Lifecycle!can_transition(from, to)
  BY DEF Lifecycle!Absent, Absent, can_transition, TRANSITIONS, RunStatus, ACTIVE_STATUSES,
     TERMINAL_STATUSES, Lifecycle!can_transition, Lifecycle!TRANSITIONS,
     Lifecycle!RunStatus, Lifecycle!ACTIVE_STATUSES, Lifecycle!TERMINAL_STATUSES

\* Under the same condition, all these processes together never do anything to the runs
\* table that the state machine does not allow.
THEOREM ImplementsLifecycle ==
  ASSUME LostReplies = FALSE
  PROVE  Spec => LifecycleSpec
  <1>1. Init => Lifecycle!Init
    BY SameDiagram DEF Init, Lifecycle!Init
  <1>2. ASSUME RowInv, [Next]_vars PROVE [Lifecycle!Next]_status
    <2>1. CASE UNCHANGED <<status, callback_secret>>
      BY <2>1
    <2>2. ASSUME NEW r \in Runs, Insert(r) PROVE Lifecycle!Next
      <3>1. status[r] = Absent
        BY <1>2, <2>2 DEF Insert, RowInv, Supervision
      <3>2. Lifecycle!Create(r)
        BY <2>2, <3>1, SameDiagram
        DEF Insert, IndexAllows, NoActiveRun, Lifecycle!Create, Lifecycle!Rivals,
            Lifecycle!ACTIVE_STATUSES, ACTIVE_STATUSES
      <3> QED
        BY <3>2 DEF Lifecycle!Next
    <2>3. ASSUME NEW r \in Runs, EnqueueFails(r) PROVE [Lifecycle!Next]_status
      <3>1. status[r] \in {"queued", "cancelled"}
        BY <1>2, <2>3 DEF EnqueueFails, RowInv, HandOverIsFirst
      <3>2. CASE status[r] = "cancelled"
        BY <1>2, <2>3, <3>2 DEF EnqueueFails, RowInv, TypeOK, TableOK
      <3>3. CASE status[r] = "queued"
        <4>1. /\ Lifecycle!can_transition(status[r], "cancelled")
              /\ "cancelled" \in Lifecycle!RunStatus
          BY <3>3, Arrows, SameDiagram DEF ACTIVE_STATUSES, Lifecycle!RunStatus,
             Lifecycle!TERMINAL_STATUSES
        <4>2. Lifecycle!Advance(r, "cancelled")
          BY <2>3, <4>1 DEF EnqueueFails, Lifecycle!Advance
        <4> QED
          BY <4>1, <4>2 DEF Lifecycle!Next
      <3> QED
        BY <3>1, <3>2, <3>3
    <2>4. ASSUME NEW r \in Runs, NEW to \in RunStatus,
                 can_transition(status[r], to), record_transition(r, to)
          PROVE  Lifecycle!Next
      <3>1. Lifecycle!Advance(r, to) /\ to \in Lifecycle!RunStatus
        BY <2>4, SameDiagram
        DEF record_transition, Lifecycle!Advance, RunStatus, ACTIVE_STATUSES,
            TERMINAL_STATUSES, Lifecycle!RunStatus, Lifecycle!ACTIVE_STATUSES,
            Lifecycle!TERMINAL_STATUSES
      <3> QED
        BY <3>1 DEF Lifecycle!Next
    <2> QED
      BY <1>2, <2>1, <2>2, <2>3, <2>4, Transitions DEF RowInv
  <1>3. RowInv /\ [Next]_vars => RowInv'
    BY RowInvStep
  <1> QED
    BY RowInvInit, <1>1, <1>2, <1>3, PTL DEF Spec, LifecycleSpec, Lifecycle!Spec

-----------------------------------------------------------------------------
(* The cap on a repository's runs *)

\* Between its count and its claim a worker keeps the repository's lock, and with it the
\* slot it found: without the lock the count would be stale by the time it is used.
SlotHeld ==
  \A w \in Workers :
    pc[w] = "admit" =>
      /\ repo_lock[Repo(job[w])] = w
      /\ Cardinality(ActiveIn(Repo(job[w]))) < MaxRunsPerRepo

\* The repository of a worker's run is one of Repos.
LEMMA RepoOfJob ==
  ASSUME TypeOK, NEW w \in Workers, pc[w] \in HOLDING
  PROVE  job[w] \in Runs /\ Repo(job[w]) \in Repos
  BY TopologyAssumption
  DEF TypeOK, WorkersOK, HOLDING, LOCKING, EXECUTING, PUBLISHING, Repo

\* Part of a set of runs is no larger than the set ...
LEMMA FewerRuns ==
  ASSUME NEW S \in SUBSET Runs, NEW T \in SUBSET S
  PROVE  Cardinality(T) \in Nat /\ Cardinality(S) \in Nat /\ Cardinality(T) <= Cardinality(S)
  BY LimitAssumption, FS_Subset, FS_CardinalityType

\* ... and one more run adds at most one.
LEMMA OneMoreRun ==
  ASSUME NEW S \in SUBSET Runs, NEW r \in Runs
  PROVE  Cardinality(S \union {r}) <= Cardinality(S) + 1
  <1>1. IsFiniteSet(S)
    BY LimitAssumption, FS_Subset
  <1>2. Cardinality(S \union {r}) = IF r \in S THEN Cardinality(S) ELSE Cardinality(S) + 1
    BY <1>1, FS_AddElement
  <1> QED
    BY <1>1, <1>2, FS_CardinalityType

\* The worker that counted under the repository's lock still has a slot when it claims.
LEMMA SlotHeldNext ==
  ASSUME \A w \in Workers : \A p :
           pc'[w] = "admit" /\ p = Repo(job'[w])
             => repo_lock'[p] = w /\ Cardinality(ActiveIn(p)') < MaxRunsPerRepo
  PROVE  SlotHeld'
  BY DEF SlotHeld, ActiveIn

\* Every step keeps the cap: only Admit adds a working run, under the lock.
LEMMA CapStep ==
  TypeOK /\ Supervision /\ SlotHeld /\ RunsPerRepoAreCapped /\ [Next]_vars
    => (SlotHeld /\ RunsPerRepoAreCapped)'
  <1> SUFFICES ASSUME TypeOK, Supervision, SlotHeld, RunsPerRepoAreCapped, [Next]_vars
               PROVE  SlotHeld' /\ RunsPerRepoAreCapped'
    OBVIOUS
  <1> DEFINE Kept == /\ \A w \in Workers :
                          pc'[w] = "admit" =>
                            /\ pc[w] = "admit" /\ job'[w] = job[w]
                            /\ repo_lock'[Repo(job[w])] = w
                     /\ \A p \in Repos : ActiveIn(p)' \subseteq ActiveIn(p)
  <1>0. \A p : ActiveIn(p) \in SUBSET Runs /\ ActiveIn(p)' \in SUBSET Runs
    BY DEF ActiveIn
  <1>1. ASSUME Kept PROVE SlotHeld' /\ RunsPerRepoAreCapped'
    <2>1. \A p \in Repos : /\ Cardinality(ActiveIn(p)') \in Nat
                           /\ Cardinality(ActiveIn(p)) \in Nat
                           /\ Cardinality(ActiveIn(p)') <= Cardinality(ActiveIn(p))
      BY <1>0, <1>1, FewerRuns
    <2>2. RunsPerRepoAreCapped'
      BY <2>1, LimitAssumption DEF RunsPerRepoAreCapped
    <2>3. ASSUME NEW w \in Workers, pc'[w] = "admit", NEW p, p = Repo(job'[w])
          PROVE  p \in Repos /\ repo_lock'[p] = w /\ Cardinality(ActiveIn(p)') < MaxRunsPerRepo
      <3>1. pc[w] = "admit" /\ p = Repo(job[w]) /\ p \in Repos
        BY <1>1, <2>3, RepoOfJob DEF HOLDING, LOCKING
      <3>2. Cardinality(ActiveIn(p)) < MaxRunsPerRepo /\ repo_lock'[p] = w
        BY <1>1, <2>3, <3>1 DEF SlotHeld
      <3> QED
        BY <2>1, <3>1, <3>2, LimitAssumption
    <2> QED
      BY <2>2, <2>3, SlotHeldNext
  <1>2. CASE Calm
    <2>1. ASSUME NEW w \in Workers, pc'[w] = "admit"
          PROVE  pc[w] = "admit" /\ job'[w] = job[w] /\ repo_lock'[Repo(job[w])] = w
      <3>1. pc[w] = "admit" /\ job'[w] = job[w]
        BY <1>2, <2>1 DEF Calm, HOLDING, LOCKING
      <3>2. Repo(job[w]) \in Repos /\ repo_lock[Repo(job[w])] = w
        BY <3>1, RepoOfJob DEF SlotHeld, HOLDING, LOCKING
      <3> QED
        BY <1>2, <2>1, <3>1, <3>2 DEF Calm
    <2>2. \A p \in Repos : ActiveIn(p)' \subseteq ActiveIn(p)
      BY <1>2 DEF Calm, ActiveIn, Repo
    <2> QED
      BY <1>1, <2>1, <2>2
  <1>3. ASSUME NEW r \in Runs, Begin(r) \/ Insert(r) PROVE SlotHeld' /\ RunsPerRepoAreCapped'
    <2>1. UNCHANGED <<pc, job, repo_lock>>
      BY <1>3 DEF Begin, Insert, workers
    <2>2. \A p \in Repos : ActiveIn(p)' \subseteq ActiveIn(p)
      BY <1>3 DEF Begin, Insert, ActiveIn, Repo, SILENT, TypeOK, TableOK
    <2> QED
      BY <1>1, <2>1, <2>2 DEF SlotHeld
  <1>4. ASSUME NEW w \in Workers, ClaimRow(w) PROVE SlotHeld' /\ RunsPerRepoAreCapped'
    <2>1. Kept
      BY <1>4 DEF ClaimRow, Goto, SlotHeld, ActiveIn, Repo, TypeOK, WorkersOK, table
    <2> QED
      BY <1>1, <2>1
  <1>5. ASSUME NEW w \in Workers, CountRuns(w) PROVE SlotHeld' /\ RunsPerRepoAreCapped'
    <2>1. UNCHANGED <<status, job>> /\ pc' = [pc EXCEPT ![w] = "admit"]
          /\ repo_lock' = [repo_lock EXCEPT ![Repo(job[w])] = w]
      BY <1>5 DEF CountRuns, Goto, table
    <2>2. \A p : ActiveIn(p)' = ActiveIn(p)
      BY <2>1 DEF ActiveIn, Repo
    <2>3. Repo(job[w]) \in Repos /\ repo_lock[Repo(job[w])] = NoWorker
          /\ Cardinality(ActiveIn(Repo(job[w]))) < MaxRunsPerRepo
      BY <1>5, RepoOfJob DEF CountRuns, SlotFree, HOLDING, LOCKING
    <2>4. \A v \in Workers : pc[v] = "admit" => Repo(job[v]) # Repo(job[w])
      BY <2>3, NullAssumption DEF SlotHeld
    <2>5. \A p \in Repos : ActiveIn(p)' = ActiveIn(p)
      BY <2>2
    <2>6. SlotHeld'
      <3> SUFFICES ASSUME NEW v \in Workers, pc'[v] = "admit"
                   PROVE  repo_lock'[Repo(job[v])] = v
                          /\ Cardinality(ActiveIn(Repo(job[v]))) < MaxRunsPerRepo
        BY <2>1, <2>2 DEF SlotHeld, Repo
      <3>1. CASE v = w
        BY <2>1, <2>3, <3>1 DEF TypeOK, WorkersOK
      <3>2. CASE v # w
        BY <2>1, <2>3, <2>4, <3>2 DEF SlotHeld, TypeOK, WorkersOK
      <3> QED
        BY <3>1, <3>2
    <2>7. RunsPerRepoAreCapped'
      BY <2>5 DEF RunsPerRepoAreCapped
    <2> QED
      BY <2>6, <2>7
  <1>6. ASSUME NEW w \in Workers, Admit(w), NEW p0, p0 = Repo(job[w])
        PROVE  SlotHeld' /\ RunsPerRepoAreCapped'
    <2>1. pc[w] = "admit" /\ job' = job /\ pc' = [pc EXCEPT ![w] = "prepare"]
          /\ status' = [status EXCEPT ![job[w]] = "claimed"]
          /\ repo_lock' = [repo_lock EXCEPT ![p0] = NoWorker]
      BY <1>6 DEF Admit, Goto, record_transition
    <2>2. job[w] \in Runs /\ p0 \in Repos /\ repo_lock[p0] = w
          /\ Cardinality(ActiveIn(p0)) < MaxRunsPerRepo
      BY <1>6, <2>1, RepoOfJob DEF SlotHeld, HOLDING, LOCKING
    <2>3. \A p \in Repos \ {p0} : ActiveIn(p)' = ActiveIn(p)
      BY <1>6, <2>1, <2>2 DEF ActiveIn, Repo, TypeOK, TableOK
    <2>4. ActiveIn(p0)' \subseteq ActiveIn(p0) \union {job[w]}
      BY <1>6, <2>1, <2>2 DEF ActiveIn, Repo, TypeOK, TableOK
    <2>5. Cardinality(ActiveIn(p0)') <= MaxRunsPerRepo
      <3>1. ActiveIn(p0) \union {job[w]} \in SUBSET Runs
        BY <1>0, <2>2
      <3>2. Cardinality(ActiveIn(p0)') \in Nat
            /\ Cardinality(ActiveIn(p0) \union {job[w]}) \in Nat
            /\ Cardinality(ActiveIn(p0)') <= Cardinality(ActiveIn(p0) \union {job[w]})
        BY <2>4, <3>1, FewerRuns
      <3>3. Cardinality(ActiveIn(p0)) \in Nat
            /\ Cardinality(ActiveIn(p0) \union {job[w]}) <= Cardinality(ActiveIn(p0)) + 1
        BY <1>0, <2>2, OneMoreRun, FewerRuns
      <3> QED
        BY <2>2, <3>2, <3>3, LimitAssumption
    <2>6. RunsPerRepoAreCapped'
      <3>1. \A p \in Repos : Cardinality(ActiveIn(p)') <= MaxRunsPerRepo
        BY <2>3, <2>5 DEF RunsPerRepoAreCapped
      <3> QED
        BY <3>1 DEF RunsPerRepoAreCapped
    <2>7. ASSUME NEW v \in Workers, pc'[v] = "admit", NEW p, p = Repo(job'[v])
          PROVE  repo_lock'[p] = v /\ Cardinality(ActiveIn(p)') < MaxRunsPerRepo
      <3>1. v # w /\ pc[v] = "admit" /\ p = Repo(job[v])
        BY <2>1, <2>7 DEF TypeOK, WorkersOK
      <3>2. p \in Repos /\ repo_lock[p] = v /\ Cardinality(ActiveIn(p)) < MaxRunsPerRepo
        BY <3>1, RepoOfJob DEF SlotHeld, HOLDING, LOCKING
      <3>3. p # p0
        BY <2>2, <3>1, <3>2
      <3>4. /\ repo_lock' = [repo_lock EXCEPT ![p0] = NoWorker]
            /\ repo_lock \in [Repos -> Workers \union {NoWorker}]
        BY <2>1 DEF TypeOK, WorkersOK
      <3>5. ActiveIn(p)' = ActiveIn(p)
        BY <2>3, <3>2, <3>3
      <3> QED
        BY <3>2, <3>3, <3>4, <3>5
    <2> QED
      BY <2>6, <2>7, SlotHeldNext
  <1> QED
    BY <1>2, <1>3, <1>4, <1>5, <1>6, CalmStep

\* However many workers claim at once, and whatever the limit, a repository never has more
\* claimed and running runs than it allows.
THEOREM RunsAreCapped == Spec => []RunsPerRepoAreCapped
  <1>1. Init => SlotHeld /\ RunsPerRepoAreCapped
    <2> SUFFICES ASSUME Init PROVE SlotHeld /\ RunsPerRepoAreCapped
      OBVIOUS
    <2>1. \A w \in Workers : pc[w] # "admit"
      BY DEF Init
    <2>2. ASSUME NEW p PROVE Cardinality(ActiveIn(p)) = 0
      <3>1. ActiveIn(p) = {}
        BY DEF Init, ActiveIn, SILENT, Absent
      <3> QED
        BY <3>1, FS_EmptySet
    <2> QED
      BY <2>1, <2>2, LimitAssumption DEF SlotHeld, RunsPerRepoAreCapped
  <1>2. /\ TypeOK /\ Supervision /\ SlotHeld /\ RunsPerRepoAreCapped
        /\ [Next]_vars
        => (TypeOK /\ Supervision /\ SlotHeld /\ RunsPerRepoAreCapped)'
    BY TypeStep, SupervisionStep, CapStep
  <1> QED
    BY SupervisionInit, <1>1, <1>2, PTL DEF Spec
=============================================================================
