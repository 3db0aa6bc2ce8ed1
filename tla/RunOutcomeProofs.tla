-------------------------- MODULE RunOutcomeProofs --------------------------
(***************************************************************************)
(* Theorems about what a run comes to, for every set of runs, tickets and  *)
(* workers: its commits stay, a success is published, and one that waits   *)
(* is not forgotten.                                                       *)
(***************************************************************************)
EXTENDS RunExecutionProofs

-----------------------------------------------------------------------------
(* Publishing. *)

Published(r) == Pushed(r) /\ pull[TicketOf[r]] /\ pr_number[TicketOf[r]]

\* What a worker has published grows with each step of _conclude, and a success is all of it.
Publication ==
  /\ \A w \in Workers : pc[w] \in {"recheck", "pr", "link"} => Pushed(job[w])
  /\ \A w \in Workers : pc[w] = "link" => pull[TicketOf[job[w]]]
  /\ \A w \in Workers : pc[w] = "finish" /\ target[w] = "succeeded" => Published(job[w])
  /\ \A r \in Runs : status[r] = "succeeded" => Published(r)

\* What the steps but those of publishing do: GitHub stays as it is, no run succeeds, and no
\* worker gets closer to a success.
Modest ==
  /\ UNCHANGED <<branch, pull, pr_number>>
  /\ \A r \in Runs : status'[r] = "succeeded" => status[r] = "succeeded"
  /\ \A w \in Workers :
       pc'[w] \in {"push", "recheck", "pr", "link", "finish"} =>
         \/ pc'[w] = pc[w] /\ job'[w] = job[w] /\ target'[w] = target[w]
         \/ pc'[w] = "finish" /\ target'[w] # "succeeded"

\* StillActive, Push, OpenPull, LinkPull and Finish aside, every step is modest.
LEMMA ModestStep ==
  ASSUME TypeOK, [Next]_vars
  PROVE  \/ Modest
         \/ \E w \in Workers : StillActive(w) \/ Push(w) \/ OpenPull(w) \/ LinkPull(w) \/ Finish(w)
  <1> USE DEF table, github, queue, workers, docker
  <1>1. ASSUME NEW r \in Runs, Begin(r) PROVE Modest
    BY <1>1 DEF Begin, Modest
  <1>2. ASSUME NEW r \in Runs, Insert(r) PROVE Modest
    BY <1>2 DEF Insert, Modest, TypeOK, TableOK
  <1>3. ASSUME NEW r \in Runs, InsertRefused(r) PROVE Modest
    BY <1>3 DEF InsertRefused, Modest
  <1>4. ASSUME NEW r \in Runs, ClearNeedsInput(r) PROVE Modest
    BY <1>4 DEF ClearNeedsInput, Modest
  <1>5. ASSUME NEW r \in Runs, HandOver(r) PROVE Modest
    BY <1>5 DEF HandOver, Modest
  <1>6. ASSUME NEW r \in Runs, HandOverUnanswered(r) PROVE Modest
    BY <1>6 DEF HandOverUnanswered, Modest
  <1>7. ASSUME NEW r \in Runs, EnqueueFails(r) PROVE Modest
    BY <1>7 DEF EnqueueFails, Modest, TypeOK, TableOK
  <1>8. ASSUME NEW r \in Runs, HandlerDies(r) PROVE Modest
    BY <1>8 DEF HandlerDies, Modest
  <1>9. ASSUME NEW r \in Runs, Cancel(r) PROVE Modest
    BY <1>9 DEF Cancel, Modest, record_transition, TypeOK, TableOK
  <1>10. ASSUME NEW r \in Runs, GoSilent(r) PROVE Modest
    BY <1>10 DEF GoSilent, Modest
  <1>11. ASSUME NEW r \in Runs, GrowOld(r) PROVE Modest
    BY <1>11 DEF GrowOld, Modest
  <1>12. ASSUME NEW r \in Runs, Reap(r) PROVE Modest
    BY <1>12 DEF Reap, Modest, record_transition, TypeOK, TableOK
  <1>13. ASSUME NEW r \in Runs, Clone(r) PROVE Modest
    BY <1>13 DEF Clone, Modest
  <1>14. ASSUME NEW r \in Runs, Callback(r) PROVE Modest
    BY <1>14 DEF Callback, Modest
  <1>15. ASSUME NEW r \in Runs, StartRunning(r) PROVE Modest
    BY <1>15 DEF StartRunning, Modest, record_transition, TypeOK, TableOK
  <1>16. ASSUME NEW r \in Runs, RunnerExits(r) PROVE Modest
    BY <1>16 DEF RunnerExits, Modest
  <1>17. ASSUME NEW r \in Runs, SandboxDies(r) PROVE Modest
    BY <1>17 DEF SandboxDies, Modest
  <1>18. ASSUME NEW w \in Workers, NEW r \in Runs, Deliver(w, r) PROVE Modest
    BY <1>18 DEF Deliver, Modest, Goto, TypeOK, WorkersOK
  <1>19. ASSUME NEW w \in Workers, NEW r \in Runs, SweepOne(w, r) PROVE Modest
    BY <1>19 DEF SweepOne, Modest, record_transition, TypeOK, TableOK
  <1>20. ASSUME NEW w \in Workers, SweepDone(w) PROVE Modest
    BY <1>20 DEF SweepDone, Modest, TypeOK, WorkersOK, Goto
  <1>21. ASSUME NEW w \in Workers, ClaimRow(w) PROVE Modest
    BY <1>21 DEF ClaimRow, Modest, TypeOK, WorkersOK, Goto
  <1>22. ASSUME NEW w \in Workers, NotClaimable(w) PROVE Modest
    BY <1>22 DEF NotClaimable, Modest, TypeOK, WorkersOK, Leave, Goto
  <1>23. ASSUME NEW w \in Workers, CountRuns(w) PROVE Modest
    BY <1>23 DEF CountRuns, Modest, TypeOK, WorkersOK, Goto
  <1>24. ASSUME NEW w \in Workers, RepoBusy(w) PROVE Modest
    BY <1>24 DEF RepoBusy, Modest, TypeOK, WorkersOK, Leave, Goto
  <1>25. ASSUME NEW w \in Workers, Admit(w) PROVE Modest
    BY <1>25 DEF Admit, Modest, TypeOK, WorkersOK, Goto, TableOK, record_transition
  <1>26. ASSUME NEW w \in Workers, PrepareFails(w) PROVE Modest
    BY <1>26 DEF PrepareFails, Modest, TypeOK, WorkersOK, FinishAs, Goto
  <1>27. ASSUME NEW w \in Workers, StartSandbox(w) PROVE Modest
    BY <1>27 DEF StartSandbox, Modest, TypeOK, WorkersOK, Goto
  <1>28. ASSUME NEW w \in Workers, Wait(w) PROVE Modest
    BY <1>28 DEF Wait, Modest, TypeOK, WorkersOK, Goto
  <1>29. ASSUME NEW w \in Workers, Collect(w) PROVE Modest
    BY <1>29 DEF Collect, Modest, TypeOK, WorkersOK, Goto
  <1>30. ASSUME NEW w \in Workers, SandboxBreaks(w) PROVE Modest
    BY <1>30 DEF SandboxBreaks, Modest, TypeOK, WorkersOK, FinishAs, Goto
  <1>31. ASSUME NEW w \in Workers, Conclude(w) PROVE Modest
    BY <1>31 DEF Conclude, Modest, TypeOK, WorkersOK, FinishAs, Leave, Goto
  <1>32. ASSUME NEW w \in Workers, PushFails(w) PROVE Modest
    BY <1>32 DEF PushFails, Modest, TypeOK, WorkersOK, FinishAs, Goto
  <1>33. ASSUME NEW w \in Workers, Ask(w) PROVE Modest
    BY <1>33 DEF Ask, Modest, TypeOK, WorkersOK, FinishAs, Leave, Goto
  <1>34. ASSUME NEW w \in Workers, AddLabel(w) PROVE Modest
    BY <1>34 DEF AddLabel, Modest, TypeOK, WorkersOK, FinishAs, Goto
  <1>35. ASSUME NEW w \in Workers, PublishBreaks(w) PROVE Modest
    BY <1>35 DEF PublishBreaks, Modest, TypeOK, WorkersOK, FinishAs, Goto
  <1>36. ASSUME NEW w \in Workers, PublishAbandoned(w) PROVE Modest
    BY <1>36 DEF PublishAbandoned, Modest, TypeOK, WorkersOK, Leave, Goto
  <1>37. ASSUME NEW w \in Workers, SoftTimeLimit(w) PROVE Modest
    BY <1>37 DEF SoftTimeLimit, Modest, TypeOK, WorkersOK, Goto
  <1>38. ASSUME NEW w \in Workers, TimeOut(w) PROVE Modest
    BY <1>38 DEF TimeOut, Modest, TypeOK, WorkersOK, FinishAs, Leave, Goto
  <1>39. ASSUME NEW w \in Workers, Crash(w) PROVE Modest
    BY <1>39 DEF Crash, Modest, TypeOK, WorkersOK, Die
  <1>40. ASSUME NEW w \in Workers, Restart(w) PROVE Modest
    BY <1>40 DEF Restart, Modest, TypeOK, WorkersOK, Goto
  <1>41. ASSUME NEW w \in Workers, Redeliver(w) PROVE Modest
    BY <1>41 DEF Redeliver, Modest, TypeOK, WorkersOK, Goto
  <1>42. ASSUME ReaperScans PROVE Modest
    BY <1>42 DEF ReaperScans, Modest
  <1>43. ASSUME Recreate PROVE Modest
    BY <1>43 DEF Recreate, Modest, Die, TypeOK, WorkersOK
  <1>44. CASE UNCHANGED vars
    BY <1>44 DEF vars, Modest
  <1> QED
    BY <1>1, <1>2, <1>3, <1>4, <1>5, <1>6, <1>7, <1>8, <1>9, <1>10, <1>11, <1>12, <1>13,
       <1>14, <1>15, <1>16, <1>17, <1>18, <1>19, <1>20, <1>21, <1>22, <1>23, <1>24, <1>25,
       <1>26, <1>27, <1>28, <1>29, <1>30, <1>31, <1>32, <1>33, <1>34, <1>35, <1>36, <1>37,
       <1>38, <1>39, <1>40, <1>41, <1>42, <1>43, <1>44
    DEF Next, Api, Sandbox, Time, Work, Trouble

\* A branch that grows keeps what was pushed.
LEMMA AppendKeeps ==
  ASSUME TypeOK, NEW r \in Runs, NEW t \in Tickets, Pushed(r),
         NEW q \in Runs, branch' = [branch EXCEPT ![t] = Append(@, q)]
  PROVE  Pushed(r)'
  <1>1. TicketOf[r] \in Tickets /\ branch[TicketOf[r]] \in Seq(Runs) /\ branch[t] \in Seq(Runs)
    BY TopologyAssumption DEF TypeOK, GithubOK
  <1>2. PICK i \in 1..Len(branch[TicketOf[r]]) : branch[TicketOf[r]][i] = r
    BY DEF Pushed
  <1>3. i \in 1..Len(branch'[TicketOf[r]]) /\ branch'[TicketOf[r]][i] = r
    BY <1>1, <1>2 DEF TypeOK, GithubOK
  <1> QED
    BY <1>3 DEF Pushed

LEMMA AppendPushes ==
  ASSUME TypeOK, NEW r \in Runs, branch' = [branch EXCEPT ![TicketOf[r]] = Append(@, r)]
  PROVE  Pushed(r)'
  <1>1. TicketOf[r] \in Tickets /\ branch[TicketOf[r]] \in Seq(Runs)
    BY TopologyAssumption DEF TypeOK, GithubOK
  <1>2. branch'[TicketOf[r]] = Append(branch[TicketOf[r]], r)
    BY <1>1 DEF TypeOK, GithubOK
  <1>3. Len(branch'[TicketOf[r]]) = Len(branch[TicketOf[r]]) + 1
        /\ branch'[TicketOf[r]][Len(branch[TicketOf[r]]) + 1] = r
    BY <1>1, <1>2
  <1> QED
    BY <1>1, <1>3 DEF Pushed

\* Every step keeps Publication: those of publishing one by one, the rest being modest.
LEMMA PublicationStep == TypeOK /\ Publication /\ [Next]_vars => Publication'
  <1> SUFFICES ASSUME TypeOK, Publication, [Next]_vars PROVE Publication'
    OBVIOUS
  <1> USE DEF table, github, queue, workers, docker
  <1>1. CASE Modest
    <2>1. \A r \in Runs : (Pushed(r)' <=> Pushed(r)) /\ (Published(r)' <=> Published(r))
      BY <1>1 DEF Modest, Pushed, Published
    <2>2. \A w \in Workers : pc'[w] \in {"recheck", "pr", "link", "finish"} /\ pc'[w] = pc[w]
                               => job[w] \in Runs
      BY DEF TypeOK, WorkersOK
    <2> QED
      BY <1>1, <2>1, <2>2 DEF Modest, Publication
  <1>2. ASSUME NEW w \in Workers, StillActive(w) PROVE Publication'
    <2>1. /\ \A r \in Runs : (Pushed(r)' <=> Pushed(r)) /\ (Published(r)' <=> Published(r))
          /\ UNCHANGED <<status, pull>>
      BY <1>2 DEF StillActive, Pushed, Published
    <2>2. /\ pc'[w] \in {"idle", "push", "pr"} /\ (pc'[w] = "pr" => pc[w] = "recheck" /\ job'[w] = job[w])
          /\ \A v \in Workers : v # w => pc'[v] = pc[v] /\ job'[v] = job[v] /\ target'[v] = target[v]
      BY <1>2 DEF StillActive, Leave, Goto, TypeOK, WorkersOK
    <2>3. \A v \in Workers : pc[v] \in {"recheck", "pr", "link", "finish"} => job[v] \in Runs
      BY DEF TypeOK, WorkersOK
    <2> QED
      BY <2>1, <2>2, <2>3 DEF Publication
  <1>3. ASSUME NEW w \in Workers, Push(w) PROVE Publication'
    <2>1. /\ job[w] \in Runs /\ TicketOf[job[w]] \in Tickets
          /\ branch' = [branch EXCEPT ![TicketOf[job[w]]] = Append(@, job[w])]
          /\ UNCHANGED <<status, pull, pr_number, job>>
      BY <1>3, TopologyAssumption DEF Push, FinishAs, TypeOK, WorkersOK
    <2>2. Pushed(job[w])' /\ \A r \in Runs : Pushed(r) => Pushed(r)'
      BY <2>1, AppendKeeps, AppendPushes
    <2>3. /\ pc'[w] \in {"recheck", "finish"} /\ (pc'[w] = "finish" => target'[w] = "failed")
          /\ \A v \in Workers : v # w => pc'[v] = pc[v] /\ target'[v] = target[v]
      BY <1>3 DEF Push, FinishAs, Goto, TypeOK, WorkersOK
    <2>4. \A v \in Workers : pc[v] \in {"recheck", "pr", "link", "finish"} => job[v] \in Runs
      BY DEF TypeOK, WorkersOK
    <2>5. \A r \in Runs : Published(r) => Published(r)'
      BY <2>1, <2>2 DEF Published
    <2> QED
      BY <2>1, <2>2, <2>3, <2>4, <2>5 DEF Publication
  <1>4. ASSUME NEW w \in Workers, OpenPull(w) PROVE Publication'
    <2>1. /\ job[w] \in Runs /\ TicketOf[job[w]] \in Tickets /\ pc[w] = "pr"
          /\ UNCHANGED <<status, branch, pr_number, job>>
          /\ \A t \in Tickets : pull[t] => pull'[t]
      BY <1>4, TopologyAssumption DEF OpenPull, FinishAs, TypeOK, WorkersOK, GithubOK
    <2>2. \A r \in Runs : (Pushed(r) => Pushed(r)') /\ (Published(r) => Published(r)')
      BY <2>1, TopologyAssumption DEF Pushed, Published
    <2>3. /\ pc'[w] \in {"link", "finish"} /\ (pc'[w] = "finish" => target'[w] = "failed")
          /\ pc'[w] = "link" => pull'[TicketOf[job[w]]]
          /\ \A v \in Workers : v # w => pc'[v] = pc[v] /\ target'[v] = target[v]
      BY <1>4, <2>1 DEF OpenPull, FinishAs, Goto, TypeOK, WorkersOK, GithubOK
    <2>4. \A v \in Workers : pc[v] \in {"recheck", "pr", "link", "finish"} => job[v] \in Runs
      BY DEF TypeOK, WorkersOK
    <2> QED
      BY <2>1, <2>2, <2>3, <2>4, TopologyAssumption DEF Publication
  <1>5. ASSUME NEW w \in Workers, LinkPull(w) PROVE Publication'
    <2>1. /\ job[w] \in Runs /\ TicketOf[job[w]] \in Tickets /\ pc[w] = "link"
          /\ UNCHANGED <<status, branch, pull, job>>
          /\ \A t \in Tickets : pr_number[t] => pr_number'[t]
          /\ pr_number'[TicketOf[job[w]]]
      BY <1>5, TopologyAssumption DEF LinkPull, FinishAs, TypeOK, WorkersOK, GithubOK
    <2>2. \A r \in Runs : (Pushed(r) => Pushed(r)') /\ (Published(r) => Published(r)')
      BY <2>1, TopologyAssumption DEF Pushed, Published
    <2>3. pc'[w] = "finish" /\ \A v \in Workers : v # w => pc'[v] = pc[v] /\ target'[v] = target[v]
      BY <1>5 DEF LinkPull, FinishAs, Goto, TypeOK, WorkersOK
    <2>4. Published(job[w])'
      <3>1. Pushed(job[w]) /\ pull[TicketOf[job[w]]]
        BY <2>1 DEF Publication
      <3> QED
        BY <2>1, <2>2, <3>1 DEF Published
    <2>5. \A v \in Workers : pc[v] \in {"recheck", "pr", "link", "finish"} => job[v] \in Runs
      BY DEF TypeOK, WorkersOK
    <2> QED
      BY <2>1, <2>2, <2>3, <2>4, <2>5 DEF Publication
  <1>6. ASSUME NEW w \in Workers, Finish(w) PROVE Publication'
    <2>1. job[w] \in Runs /\ pc[w] = "finish" /\ UNCHANGED <<branch, pull, pr_number>>
      BY <1>6 DEF Finish, TypeOK, WorkersOK
    <2>2. \A r \in Runs : (Pushed(r)' <=> Pushed(r)) /\ (Published(r)' <=> Published(r))
      BY <2>1 DEF Pushed, Published
    <2>3. /\ \A v \in Workers :
               pc'[v] \in {"recheck", "pr", "link", "finish"} =>
                 pc'[v] = pc[v] /\ job'[v] = job[v] /\ target'[v] = target[v]
      BY <1>6 DEF Finish, Leave, Goto, TypeOK, WorkersOK
    <2>4. \A r \in Runs : status'[r] = "succeeded" /\ status[r] # "succeeded" =>
            r = job[w] /\ target[w] = "succeeded"
      BY <1>6, <2>1 DEF Finish, record_transition, TypeOK, TableOK
    <2>5. \A v \in Workers : pc[v] \in {"recheck", "pr", "link", "finish"} => job[v] \in Runs
      BY DEF TypeOK, WorkersOK
    <2> QED
      BY <2>1, <2>2, <2>3, <2>4, <2>5 DEF Publication
  <1> QED
    BY <1>1, <1>2, <1>3, <1>4, <1>5, <1>6, ModestStep

\* Nothing is published initially, and nothing has to be.
LEMMA PublicationInit == Init => TypeOK /\ Publication
  BY LimitAssumption
  DEF Init, TypeOK, TableOK, GithubOK, QueueOK, WorkersOK, DockerOK, Steps, Found, Results,
      TERMINAL_STATUSES, Publication, Absent

\* A run only counts as succeeded once its commits are on the branch, the pull request is open
\* and the ticket is linked to it (_conclude).
THEOREM SuccessIsPublished == Spec => []SucceededRunsArePublished
  <1>1. TypeOK /\ Publication /\ [Next]_vars => (TypeOK /\ Publication)'
    BY TypeStep, PublicationStep
  <1>2. Publication => SucceededRunsArePublished
    BY DEF Publication, Published, Pushed, SucceededRunsArePublished
  <1> QED
    BY PublicationInit, <1>1, <1>2, PTL DEF Spec

\* The branch only grows: what an earlier run pushed stays (push.py: "Never forced").
THEOREM CommitsStay == Spec => NoCommitIsLost
  <1> DEFINE Grows == \A t \in Tickets :
                        /\ Len(branch[t]) <= Len(branch'[t])
                        /\ SubSeq(branch'[t], 1, Len(branch[t])) = branch[t]
  <1>1. TypeOK /\ [Next]_vars => [Grows]_branch
    <2> SUFFICES ASSUME TypeOK, [Next]_vars, branch' # branch PROVE Grows
      OBVIOUS
    <2>1. PICK w \in Workers : Push(w)
      BY ModestStep DEF Modest, StillActive, OpenPull, LinkPull, Finish, github
    <2>2. job[w] \in Runs /\ branch' = [branch EXCEPT ![TicketOf[job[w]]] = Append(@, job[w])]
      BY <2>1 DEF Push, TypeOK, WorkersOK
    <2>3. ASSUME NEW t \in Tickets
          PROVE  Len(branch[t]) <= Len(branch'[t]) /\ SubSeq(branch'[t], 1, Len(branch[t])) = branch[t]
      <3>1. branch[t] \in Seq(Runs) /\ branch'[t] \in {branch[t], Append(branch[t], job[w])}
        BY <2>2 DEF TypeOK, GithubOK
      <3> QED
        BY <2>2, <3>1
    <2> QED
      BY <2>3
  <1> QED
    BY PublicationInit, TypeStep, <1>1, PTL DEF Spec, NoCommitIsLost

-----------------------------------------------------------------------------
(* Waiting. *)

\* What NoQueuedRunIsForgotten asks for a queued run.
Waiting(r) == messages[r] > 0 \/ handing[r] # "no" \/ \E w \in Workers : job[w] = r

\* A worker outside its task has no run.
FREE == {"idle", "dead", "boot"}

Free == \A w \in Workers : pc[w] \in FREE => job[w] = NoRun

\* What the steps do that neither hand a run over nor give one back: no run starts to wait,
\* no message or enqueue_run is lost, and a worker only lets go of a run that is not queued.
Mindful ==
  /\ \A r \in Runs :
       /\ status'[r] = "queued" => status[r] = "queued"
       /\ messages[r] > 0 => messages'[r] > 0
       /\ handing'[r] = handing[r]
  /\ \A w \in Workers : job'[w] = job[w] \/ status[job[w]] # "queued"
  /\ \A w \in Workers :
       pc'[w] \in FREE => job'[w] = NoRun \/ (job'[w] = job[w] /\ pc[w] \in FREE)

Handover ==
  \/ \E r \in Runs :
       \/ Begin(r) \/ Insert(r) \/ InsertRefused(r) \/ ClearNeedsInput(r) \/ HandOver(r)
       \/ HandOverUnanswered(r) \/ EnqueueFails(r) \/ HandlerDies(r)
       \/ \E w \in Workers : Deliver(w, r)
  \/ \E w \in Workers : NotClaimable(w) \/ RepoBusy(w) \/ Crash(w)
  \/ Recreate

\* Finishing a task that executed lets go of a run that is no longer queued ...
LEMMA LeaveIsMindful ==
  ASSUME TypeOK, Supervision, NEW w \in Workers, pc[w] \in EXECUTING, Leave(w), queue' = queue,
         \A r \in Runs : status'[r] = "queued" => status[r] = "queued"
  PROVE  Mindful
  <1>1. status[job[w]] # "queued"
    BY DEF Supervision
  <1>2. job'[w] = NoRun /\ \A v \in Workers : v # w => job'[v] = job[v] /\ pc'[v] = pc[v]
    BY DEF Leave, Goto, TypeOK, WorkersOK
  <1> QED
    BY <1>1, <1>2 DEF Mindful, queue

\* ... and so does going on with it.
LEMMA GoingOnIsMindful ==
  ASSUME TypeOK, NEW w \in Workers, NEW step \in EXECUTING, Goto(w, step), job' = job,
         queue' = queue, \A r \in Runs : status'[r] = "queued" => status[r] = "queued"
  PROVE  Mindful
  <1>1. pc'[w] = step /\ \A v \in Workers : v # w => pc'[v] = pc[v]
    BY DEF Goto, TypeOK, WorkersOK
  <1>2. step \notin FREE
    BY DEF FREE, EXECUTING, PUBLISHING
  <1> QED
    BY <1>1, <1>2 DEF Mindful, queue

\* A worker that executes has a run that is no longer queued (Supervision), so whatever ends
\* its task forgets nothing.
LEMMA MindfulStep ==
  ASSUME TypeOK, Supervision, [Next]_vars, ~Handover
  PROVE  Mindful
  <1> USE DEF table, github, queue, workers, docker
  <1>a. \A w \in Workers : pc[w] \in EXECUTING => status[job[w]] # "queued" /\ job[w] \in Runs
    BY DEF Supervision, TypeOK, WorkersOK, EXECUTING, PUBLISHING
  <1>b. TypeOK /\ status \in [Runs -> RunStatus \union {Absent}]
        /\ messages \in [Runs -> Nat] /\ job \in [Workers -> Runs \union {NoRun}]
        /\ pc \in [Workers -> Steps]
    BY DEF TypeOK, TableOK, QueueOK, WorkersOK
  <1>1. ASSUME NEW r \in Runs, Cancel(r) PROVE Mindful
    BY <1>1, <1>a, <1>b DEF Cancel, Mindful, record_transition, FREE
  <1>2. ASSUME NEW r \in Runs, GoSilent(r) PROVE Mindful
    BY <1>2, <1>a, <1>b DEF GoSilent, Mindful, FREE
  <1>3. ASSUME NEW r \in Runs, GrowOld(r) PROVE Mindful
    BY <1>3, <1>a, <1>b DEF GrowOld, Mindful, FREE
  <1>4. ASSUME NEW r \in Runs, Reap(r) PROVE Mindful
    BY <1>4, <1>a, <1>b DEF Reap, Mindful, record_transition, FREE
  <1>5. ASSUME NEW r \in Runs, Clone(r) PROVE Mindful
    BY <1>5, <1>a, <1>b DEF Clone, Mindful, FREE
  <1>6. ASSUME NEW r \in Runs, Callback(r) PROVE Mindful
    BY <1>6, <1>a, <1>b DEF Callback, Mindful, FREE
  <1>7. ASSUME NEW r \in Runs, StartRunning(r) PROVE Mindful
    BY <1>7, <1>a, <1>b DEF StartRunning, Mindful, record_transition, FREE
  <1>8. ASSUME NEW r \in Runs, RunnerExits(r) PROVE Mindful
    BY <1>8, <1>a, <1>b DEF RunnerExits, Mindful, FREE
  <1>9. ASSUME NEW r \in Runs, SandboxDies(r) PROVE Mindful
    BY <1>9, <1>a, <1>b DEF SandboxDies, Mindful, FREE
  <1>10. ASSUME NEW w \in Workers, NEW r \in Runs, SweepOne(w, r) PROVE Mindful
    BY <1>10, <1>a, <1>b DEF SweepOne, Mindful, record_transition, FREE
  <1>11. ASSUME NEW w \in Workers, SweepDone(w) PROVE Mindful
    BY <1>11, <1>a, <1>b DEF SweepDone, Mindful, Goto, FREE
  <1>12. ASSUME NEW w \in Workers, ClaimRow(w) PROVE Mindful
    BY <1>12, <1>a, <1>b DEF ClaimRow, Mindful, Goto, FREE
  <1>13. ASSUME NEW w \in Workers, CountRuns(w) PROVE Mindful
    BY <1>13, <1>a, <1>b DEF CountRuns, Mindful, Goto, FREE
  <1>14. ASSUME NEW w \in Workers, Admit(w) PROVE Mindful
    BY <1>14, <1>a, <1>b DEF Admit, Mindful, record_transition, Goto, FREE
  <1>15. ASSUME NEW w \in Workers, PrepareFails(w) PROVE Mindful
    BY <1>15, <1>a, <1>b DEF PrepareFails, Mindful, FinishAs, Goto, FREE
  <1>16. ASSUME NEW w \in Workers, StartSandbox(w) PROVE Mindful
    BY <1>16, <1>a, <1>b DEF StartSandbox, Mindful, Goto, FREE
  <1>17. ASSUME NEW w \in Workers, Wait(w) PROVE Mindful
    BY <1>17, <1>a, <1>b DEF Wait, Mindful, Goto, FREE
  <1>18. ASSUME NEW w \in Workers, Collect(w) PROVE Mindful
    BY <1>18, <1>a, <1>b DEF Collect, Mindful, Goto, FREE
  <1>19. ASSUME NEW w \in Workers, SandboxBreaks(w) PROVE Mindful
    BY <1>19, <1>a, <1>b DEF SandboxBreaks, Mindful, FinishAs, Goto, FREE
  <1>20. ASSUME NEW w \in Workers, Conclude(w) PROVE Mindful
    <2>1. pc[w] \in EXECUTING /\ UNCHANGED <<status, queue>>
      BY <1>20, <1>b DEF Conclude, EXECUTING, PUBLISHING
    <2>2. \/ Leave(w)
          \/ job' = job /\ \E step \in EXECUTING : Goto(w, step)
      BY <1>20 DEF Conclude, FinishAs, EXECUTING, PUBLISHING
    <2> QED
      BY <2>1, <2>2, LeaveIsMindful, GoingOnIsMindful
  <1>21. ASSUME NEW w \in Workers, StillActive(w) PROVE Mindful
    <2>1. pc[w] \in EXECUTING /\ UNCHANGED <<status, queue>>
      BY <1>21, <1>b DEF StillActive, EXECUTING, PUBLISHING
    <2>2. \/ Leave(w)
          \/ job' = job /\ \E step \in EXECUTING : Goto(w, step)
      BY <1>21 DEF StillActive, FinishAs, EXECUTING, PUBLISHING
    <2> QED
      BY <2>1, <2>2, LeaveIsMindful, GoingOnIsMindful
  <1>22. ASSUME NEW w \in Workers, Push(w) PROVE Mindful
    BY <1>22, <1>a, <1>b DEF Push, Mindful, FinishAs, Goto, FREE
  <1>23. ASSUME NEW w \in Workers, PushFails(w) PROVE Mindful
    BY <1>23, <1>a, <1>b DEF PushFails, Mindful, FinishAs, Goto, FREE
  <1>24. ASSUME NEW w \in Workers, OpenPull(w) PROVE Mindful
    BY <1>24, <1>a, <1>b DEF OpenPull, Mindful, FinishAs, Goto, FREE
  <1>25. ASSUME NEW w \in Workers, LinkPull(w) PROVE Mindful
    BY <1>25, <1>a, <1>b DEF LinkPull, Mindful, FinishAs, Goto, FREE
  <1>26. ASSUME NEW w \in Workers, Ask(w) PROVE Mindful
    <2>1. pc[w] \in EXECUTING /\ UNCHANGED <<status, queue>>
      BY <1>26, <1>b DEF Ask, EXECUTING, PUBLISHING
    <2>2. \/ Leave(w)
          \/ job' = job /\ \E step \in EXECUTING : Goto(w, step)
      BY <1>26 DEF Ask, FinishAs, EXECUTING, PUBLISHING
    <2> QED
      BY <2>1, <2>2, LeaveIsMindful, GoingOnIsMindful
  <1>27. ASSUME NEW w \in Workers, AddLabel(w) PROVE Mindful
    BY <1>27, <1>a, <1>b DEF AddLabel, Mindful, FinishAs, Goto, FREE
  <1>28. ASSUME NEW w \in Workers, PublishBreaks(w) PROVE Mindful
    BY <1>28, <1>a, <1>b DEF PublishBreaks, Mindful, FinishAs, Goto, FREE
  <1>29. ASSUME NEW w \in Workers, PublishAbandoned(w) PROVE Mindful
    <2>1. pc[w] \in EXECUTING /\ UNCHANGED <<status, queue>> /\ Leave(w)
      BY <1>29 DEF PublishAbandoned, EXECUTING
    <2> QED
      BY <2>1, LeaveIsMindful
  <1>30. ASSUME NEW w \in Workers, Finish(w) PROVE Mindful
    <2>1. pc[w] \in EXECUTING /\ UNCHANGED queue
      BY <1>30, <1>b DEF Finish, EXECUTING, PUBLISHING
    <2>2. \A r \in Runs : status'[r] = "queued" => status[r] = "queued"
      <3>1. target[w] # "queued"
        BY DEF TypeOK, WorkersOK, TERMINAL_STATUSES
      <3> QED
        BY <1>30, <1>b, <3>1 DEF Finish, record_transition
    <2>3. Leave(w) \/ UNCHANGED <<pc, job>>
      BY <1>30 DEF Finish
    <2>4. CASE UNCHANGED <<pc, job>>
      BY <2>1, <2>2, <2>4 DEF Mindful
    <2> QED
      BY <2>1, <2>2, <2>3, <2>4, LeaveIsMindful
  <1>31. ASSUME NEW w \in Workers, SoftTimeLimit(w) PROVE Mindful
    BY <1>31, <1>a, <1>b DEF SoftTimeLimit, Mindful, Goto, FREE
  <1>32. ASSUME NEW w \in Workers, TimeOut(w) PROVE Mindful
    <2>1. pc[w] \in EXECUTING /\ UNCHANGED <<status, queue>>
      BY <1>32, <1>b DEF TimeOut, EXECUTING, PUBLISHING
    <2>2. \/ Leave(w)
          \/ job' = job /\ \E step \in EXECUTING : Goto(w, step)
      BY <1>32 DEF TimeOut, FinishAs, EXECUTING, PUBLISHING
    <2> QED
      BY <2>1, <2>2, LeaveIsMindful, GoingOnIsMindful
  <1>33. ASSUME NEW w \in Workers, Restart(w) PROVE Mindful
    BY <1>33, <1>a, <1>b DEF Restart, Mindful, Goto, FREE
  <1>34. ASSUME NEW w \in Workers, Redeliver(w) PROVE Mindful
    BY <1>34, <1>a, <1>b DEF Redeliver, Mindful, Goto, FREE
  <1>35. ASSUME ReaperScans PROVE Mindful
    BY <1>35, <1>a, <1>b DEF ReaperScans, Mindful, FREE
  <1>36. CASE UNCHANGED vars
    BY <1>36, <1>a, <1>b DEF vars, Mindful
  <1> QED
    BY <1>1, <1>2, <1>3, <1>4, <1>5, <1>6, <1>7, <1>8, <1>9, <1>10, <1>11, <1>12, <1>13,
       <1>14, <1>15, <1>16, <1>17, <1>18, <1>19, <1>20, <1>21, <1>22, <1>23, <1>24, <1>25,
       <1>26, <1>27, <1>28, <1>29, <1>30, <1>31, <1>32, <1>33, <1>34, <1>35, <1>36
    DEF Next, Api, Sandbox, Time, Work, Trouble, Handover

\* Each message a dying process had taken returns to the queue.
LEMMA DyingReturnsMessages ==
  ASSUME TypeOK, NEW dying \in SUBSET Workers, Die(dying), NEW r \in Runs, Waiting(r)
  PROVE  Waiting(r)'
  <1> DEFINE holders == {w \in dying : job[w] = r}
  <1>1. IsFiniteSet(holders)
    BY LimitAssumption, FS_Subset
  <1>2. Cardinality(holders) \in Nat /\ (Cardinality(holders) = 0 <=> holders = {})
    BY <1>1, FS_CardinalityType, FS_EmptySet
  <1>3. messages[r] \in Nat /\ messages'[r] = messages[r] + Cardinality(holders)
    BY DEF Die, Unacknowledged, TypeOK, QueueOK
  <1>4. \A w \in Workers : w \notin dying => job'[w] = job[w]
    BY DEF Die
  <1>5. handing' = handing
    BY DEF Die
  <1>6. CASE messages[r] > 0
    BY <1>2, <1>3, <1>6 DEF Waiting
  <1>7. CASE handing[r] # "no"
    BY <1>5, <1>7 DEF Waiting
  <1>8. ASSUME NEW w \in Workers, job[w] = r PROVE Waiting(r)'
    <2>1. CASE w \in dying
      <3>1. holders # {}
        BY <1>8, <2>1
      <3> QED
        BY <1>2, <1>3, <3>1 DEF Waiting
    <2>2. CASE w \notin dying
      BY <1>4, <1>8, <2>2 DEF Waiting
    <2> QED
      BY <2>1, <2>2
  <1> QED
    BY <1>6, <1>7, <1>8 DEF Waiting

\* ... and leaves free workers without a run.
LEMMA FreeStep ==
  ASSUME TypeOK, Supervision, Free, [Next]_vars
  PROVE  Free'
  <1> USE DEF queue, workers, FREE
  <1>1. ASSUME NEW r \in Runs,
               Begin(r) \/ Insert(r) \/ InsertRefused(r) \/ ClearNeedsInput(r) \/ HandOver(r)
               \/ HandOverUnanswered(r) \/ EnqueueFails(r) \/ HandlerDies(r)
        PROVE  UNCHANGED <<pc, job>>
    BY <1>1 DEF Begin, Insert, InsertRefused, ClearNeedsInput, HandOver, HandOverUnanswered,
                EnqueueFails, HandlerDies
  <1>2. ASSUME NEW w \in Workers, NEW r \in Runs, Deliver(w, r) PROVE Free'
    BY <1>2 DEF Deliver, Goto, Free, TypeOK, WorkersOK
  <1>3. ASSUME NEW w \in Workers, NotClaimable(w) \/ RepoBusy(w) PROVE Free'
    BY <1>3 DEF NotClaimable, RepoBusy, Leave, Goto, Free, TypeOK, WorkersOK
  <1>4. ASSUME NEW dying \in SUBSET Workers, Die(dying) PROVE Free'
    BY <1>4 DEF Die, Free
  <1>5. CASE Mindful
    BY <1>5 DEF Mindful, Free
  <1> QED
    BY <1>1, <1>2, <1>3, <1>4, <1>5, MindfulStep DEF Handover, Crash, Recreate, Free

\* Unless API handlers die half way, every step keeps each queued run in someone's hands.
LEMMA WaitingStep ==
  ASSUME "api" \notin Faults, TypeOK, Supervision, Free, NoQueuedRunIsForgotten, [Next]_vars
  PROVE  NoQueuedRunIsForgotten'
  <1> SUFFICES ASSUME NEW q \in Runs, status'[q] = "queued" PROVE Waiting(q)'
    BY DEF NoQueuedRunIsForgotten, Waiting
  <1> USE DEF table, github, queue, workers, docker
  <1>a. status[q] = "queued" => Waiting(q)
    BY DEF NoQueuedRunIsForgotten, Waiting
  <1>b. /\ status \in [Runs -> RunStatus \union {Absent}] /\ messages \in [Runs -> Nat]
        /\ handing \in [Runs -> {"no", "stamped", "committed", "cleared", "refused"}]
        /\ job \in [Workers -> Runs \union {NoRun}]
    BY DEF TypeOK, TableOK, QueueOK, WorkersOK
  <1>1. ASSUME NEW r \in Runs, Begin(r) PROVE Waiting(q)'
    BY <1>1, <1>a, <1>b DEF Begin, Waiting
  <1>2. ASSUME NEW r \in Runs, Insert(r) PROVE Waiting(q)'
    BY <1>2, <1>a, <1>b DEF Insert, Waiting
  <1>3. ASSUME NEW r \in Runs, InsertRefused(r) PROVE Waiting(q)'
    <2>1. status[r] = Absent
      BY <1>3 DEF InsertRefused, Supervision
    <2> QED
      BY <1>3, <2>1, <1>a, <1>b DEF InsertRefused, Waiting, Absent
  <1>4. ASSUME NEW r \in Runs, ClearNeedsInput(r) PROVE Waiting(q)'
    BY <1>4, <1>a, <1>b DEF ClearNeedsInput, Waiting
  <1>5. ASSUME NEW r \in Runs, HandOver(r) PROVE Waiting(q)'
    BY <1>5, <1>a, <1>b DEF HandOver, Waiting
  <1>6. ASSUME NEW r \in Runs, HandOverUnanswered(r) PROVE Waiting(q)'
    BY <1>6, <1>a, <1>b DEF HandOverUnanswered, Waiting
  <1>7. ASSUME NEW r \in Runs, EnqueueFails(r) PROVE Waiting(q)'
    BY <1>7, <1>a, <1>b DEF EnqueueFails, Waiting
  <1>8. ASSUME NEW r \in Runs, HandlerDies(r) PROVE FALSE
    BY <1>8 DEF HandlerDies, Fault
  <1>9. ASSUME NEW w \in Workers, NEW r \in Runs, Deliver(w, r) PROVE Waiting(q)'
    <2>1. job[w] = NoRun
      BY <1>9 DEF Deliver, Free, FREE
    <2> QED
      BY <1>9, <2>1, <1>a, <1>b, NullAssumption DEF Deliver, Waiting
  <1>10. ASSUME NEW w \in Workers, NotClaimable(w) PROVE Waiting(q)'
    <2>1. \A v \in Workers : v # w => job'[v] = job[v]
      BY <1>10, <1>b DEF NotClaimable, Leave
    <2>2. status[q] = "queued" /\ messages'[q] = messages[q] /\ handing'[q] = handing[q]
      BY <1>10 DEF NotClaimable
    <2>3. CASE job[w] # q
      BY <2>1, <2>2, <2>3, <1>a DEF Waiting
    <2>4. CASE job[w] = q
      <3>1. PICK v \in Workers : job[v] = q /\ pc[v] \in LOCKING
        BY <1>10, <2>2, <2>4 DEF NotClaimable, RowLocked
      <3>2. v # w
        BY <1>10, <3>1 DEF NotClaimable, LOCKING
      <3> QED
        BY <2>1, <3>1, <3>2 DEF Waiting
    <2> QED
      BY <2>3, <2>4
  <1>11. ASSUME NEW w \in Workers, RepoBusy(w) PROVE Waiting(q)'
    <2>1. /\ messages' = [messages EXCEPT ![job[w]] = @ + 1] /\ job[w] \in Runs
          /\ \A v \in Workers : v # w => job'[v] = job[v]
          /\ UNCHANGED <<status, handing>>
      BY <1>11, <1>b DEF RepoBusy, Leave, TypeOK, WorkersOK
    <2>2. CASE job[w] = q
      BY <2>1, <2>2, <1>b DEF Waiting
    <2>3. CASE job[w] # q
      BY <2>1, <2>3, <1>a, <1>b DEF Waiting
    <2> QED
      BY <2>2, <2>3
  <1>12. ASSUME NEW w \in Workers, Crash(w) PROVE Waiting(q)'
    <2>1. Die({w}) /\ status' = status
      BY <1>12 DEF Crash, Die
    <2> QED
      BY <2>1, <1>a, DyingReturnsMessages
  <1>13. ASSUME Recreate PROVE Waiting(q)'
    <2>1. Die(Workers) /\ status' = status
      BY <1>13 DEF Recreate, Die
    <2> QED
      BY <2>1, <1>a, DyingReturnsMessages
  <1>14. CASE ~Handover
    <2>1. Mindful
      BY <1>14, MindfulStep
    <2> QED
      BY <2>1, <1>a, <1>b DEF Mindful, Waiting
  <1> QED
    BY <1>1, <1>2, <1>3, <1>4, <1>5, <1>6, <1>7, <1>8, <1>9, <1>10, <1>11, <1>12, <1>13,
       <1>14
    DEF Handover

\* Unless API handlers die between the insert and the hand-over, a queued run always has a
\* message, a worker, or a handler yet to enqueue it: no crash loses it (celery_app.py).
THEOREM QueuedRunsAreRemembered ==
  ASSUME "api" \notin Faults
  PROVE  Spec => []NoQueuedRunIsForgotten
  <1>1. TypeOK /\ Supervision /\ Free /\ NoQueuedRunIsForgotten /\ [Next]_vars
          => (TypeOK /\ Supervision /\ Free /\ NoQueuedRunIsForgotten)'
    BY TypeStep, SupervisionStep, FreeStep, WaitingStep
  <1>2. Init => Free /\ NoQueuedRunIsForgotten
    BY DEF Init, Free, NoQueuedRunIsForgotten, Absent
  <1> QED
    BY SupervisionInit, <1>1, <1>2, PTL DEF Spec

-----------------------------------------------------------------------------
(* A run that has ended. *)

\* Whatever happens to its row, it stays over.
LEMMA EndedStays ==
  ASSUME TypeOK, Supervision, [Next]_vars, NEW q \in Runs, Terminal(q)
  PROVE  Terminal(q)'
  <1>1. status[q] \in TERMINAL_STATUSES /\ status \in [Runs -> RunStatus \union {Absent}]
    BY DEF Terminal, TypeOK, TableOK
  <1>2. status[q] \notin ACTIVE_STATUSES \union {Absent}
    BY <1>1 DEF TERMINAL_STATUSES, ACTIVE_STATUSES, Absent
  <1>3. ASSUME NEW r \in Runs, Insert(r) PROVE status'[q] = status[q]
    BY <1>1, <1>2, <1>3 DEF Insert, Supervision
  <1>4. ASSUME NEW r \in Runs, EnqueueFails(r) PROVE status'[q] \in {status[q], "cancelled"}
    BY <1>1, <1>4 DEF EnqueueFails
  <1>5. ASSUME NEW r \in Runs, NEW to \in RunStatus,
               can_transition(status[r], to), record_transition(r, to)
        PROVE  status'[q] = status[q]
    <2>1. r # q
      BY <1>2, <1>5, Arrows
    <2> QED
      BY <1>1, <1>5, <2>1 DEF record_transition
  <1>6. status'[q] \in {status[q], "cancelled"}
    BY <1>3, <1>4, <1>5, Transitions
  <1> QED
    BY <1>1, <1>6 DEF Terminal, TERMINAL_STATUSES

\* Once a run was cancelled, reaped or timed out before its worker's last check, no step
\* brings any of its work to GitHub (_still_active).
THEOREM EndedStayUnpublished == Spec => EndedRunsStayUnpublished
  <1>1. ASSUME TypeOK, Supervision, [Next]_vars, NEW r \in Runs, Unpublishable(r)
        PROVE  Unpublishable(r)'
    <2>1. Terminal(r)'
      BY <1>1, EndedStays DEF Unpublishable
    <2>2. ASSUME Modest PROVE Unpublishable(r)'
      BY <1>1, <2>1, <2>2 DEF Modest, Unpublishable, Pushed
    <2>3. ASSUME NEW w \in Workers, StillActive(w) PROVE Unpublishable(r)'
      <3>1. /\ branch' = branch
            /\ \A v \in Workers : v # w => pc'[v] = pc[v] /\ job'[v] = job[v]
            /\ pc'[w] = "push" => job'[w] = job[w] /\ ~Terminal(job[w])
        BY <1>1, <2>3 DEF StillActive, Leave, Goto, TypeOK, WorkersOK, github
      <3> QED
        BY <1>1, <2>1, <3>1 DEF Unpublishable, Pushed
    <2>4. ASSUME NEW w \in Workers, Push(w) PROVE Unpublishable(r)'
      <3>1. /\ job[w] \in Runs /\ TicketOf[job[w]] \in Tickets /\ job[w] # r
            /\ branch' = [branch EXCEPT ![TicketOf[job[w]]] = Append(@, job[w])]
            /\ job' = job /\ pc'[w] # "push"
            /\ \A v \in Workers : v # w => pc'[v] = pc[v]
        BY <1>1, <2>4, TopologyAssumption
        DEF Push, FinishAs, Goto, TypeOK, WorkersOK, Unpublishable
      <3>2. ~Pushed(r)'
        <4>1. TicketOf[r] \in Tickets /\ branch[TicketOf[r]] \in Seq(Runs)
              /\ \A i \in 1..Len(branch[TicketOf[r]]) : branch[TicketOf[r]][i] # r
          BY <1>1, TopologyAssumption DEF TypeOK, GithubOK, Unpublishable, Pushed
        <4>2. branch'[TicketOf[r]]
                \in {branch[TicketOf[r]], Append(branch[TicketOf[r]], job[w])}
          BY <1>1, <3>1, <4>1 DEF TypeOK, GithubOK
        <4>3. CASE branch'[TicketOf[r]] = branch[TicketOf[r]]
          BY <4>1, <4>3 DEF Pushed
        <4>4. CASE branch'[TicketOf[r]] = Append(branch[TicketOf[r]], job[w])
          BY <3>1, <4>1, <4>4 DEF Pushed
        <4> QED
          BY <4>2, <4>3, <4>4
      <3> QED
        BY <1>1, <2>1, <3>1, <3>2 DEF Unpublishable
    <2>5. ASSUME NEW w \in Workers, OpenPull(w) \/ LinkPull(w) \/ Finish(w)
          PROVE  Unpublishable(r)'
      <3>1. branch' = branch
            /\ \A v \in Workers : pc'[v] = "push" => pc[v] = "push" /\ job'[v] = job[v]
        BY <1>1, <2>5
        DEF OpenPull, LinkPull, Finish, FinishAs, Leave, Goto, TypeOK, WorkersOK, github, workers
      <3> QED
        BY <1>1, <2>1, <3>1 DEF Unpublishable, Pushed
    <2> QED
      BY <1>1, <2>2, <2>3, <2>4, <2>5, ModestStep
  <1>2. TypeOK /\ Supervision /\ [Next]_vars
          => [\A r \in Runs : Unpublishable(r) => Unpublishable(r)']_vars
    BY <1>1
  <1>3. TypeOK /\ Supervision /\ [Next]_vars => (TypeOK /\ Supervision)'
    BY TypeStep, SupervisionStep
  <1> QED
    BY SupervisionInit, <1>2, <1>3, PTL DEF Spec, EndedRunsStayUnpublished
=============================================================================
