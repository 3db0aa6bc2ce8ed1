------------------------ MODULE RunSupervisionProofs ------------------------
(***************************************************************************)
(* Theorems about who may end a run: neither a sweep nor the reaper fails  *)
(* one that a live worker is executing or publishing.                      *)
(***************************************************************************)
EXTENDS RunExecutionProofs

-----------------------------------------------------------------------------
(* The sweep. *)

\* The run was inserted and has left the queue for good.
Begun(r) == status[r] \notin {Absent, "queued"}

\* A container belongs to a run that has begun and, while a worker executes that run, carries
\* the worker's label; what a sweep has listed is begun and in nobody's hands.
Labels ==
  /\ \A r \in Runs : box[r] # "none" => Begun(r)
  /\ \A w \in Workers : pc[w] \in EXECUTING /\ box[job[w]] # "none" => owner[job[w]] = w
  /\ \A w \in Workers : \A r \in todo[w] :
       Begun(r) /\ \A v \in Workers : job[v] = r => pc[v] \notin EXECUTING

\* A run that has begun never returns to the queue.
LEMMA BegunStays ==
  ASSUME TypeOK, Supervision, [Next]_vars, NEW q \in Runs, Begun(q)
  PROVE  Begun(q)'
  <1>1. status \in [Runs -> RunStatus \union {Absent}]
    BY DEF TypeOK, TableOK
  <1>2. ASSUME NEW r \in Runs, Insert(r) PROVE Begun(q)'
    BY <1>1, <1>2 DEF Insert, Supervision, Begun
  <1>3. ASSUME NEW r \in Runs, EnqueueFails(r) PROVE Begun(q)'
    BY <1>1, <1>3 DEF EnqueueFails, Begun, Absent
  <1>4. ASSUME NEW r \in Runs, NEW to \in RunStatus,
               can_transition(status[r], to), record_transition(r, to)
        PROVE  Begun(q)'
    <2>1. to \notin {Absent, "queued"}
      BY <1>4, Arrows DEF SILENT, TERMINAL_STATUSES, Absent
    <2> QED
      BY <1>1, <1>4, <2>1 DEF record_transition, Begun
  <1>5. CASE status' = status
    BY <1>5 DEF Begun
  <1> QED
    BY <1>2, <1>3, <1>4, <1>5, Transitions

\* What all steps but StartSandbox, Deliver and Restart do: no container is made, a label only
\* loses its process when that dies, and no sweep lists anything.
Contained ==
  /\ \A r \in Runs :
       box'[r] # "none" =>
         /\ box[r] # "none"
         /\ owner'[r] # owner[r] => owner[r] \in Workers /\ pc'[owner[r]] \in {"dead", "idle"}
  /\ \A w \in Workers : todo'[w] \subseteq todo[w]

LEMMA ContainedStep ==
  ASSUME TypeOK, [Next]_vars
  PROVE  \/ Contained
         \/ \E w \in Workers :
              StartSandbox(w) \/ Restart(w) \/ \E r \in Runs : Deliver(w, r)
  <1> USE DEF workers, docker
  <1>a. /\ box \in [Runs -> {"none", "booting", "working", "exited"}]
        /\ owner \in [Runs -> Workers \union {NoWorker}]
        /\ todo \in [Workers -> SUBSET Runs] /\ NoWorker \notin Workers
        /\ \A w \in Workers : pc[w] \in EXECUTING => job[w] \in Runs
        /\ pc \in [Workers -> Steps] /\ job \in [Workers -> Runs \union {NoRun}]
    BY NullAssumption DEF TypeOK, WorkersOK, DockerOK, EXECUTING, PUBLISHING
  <1>1. ASSUME NEW r \in Runs, Begin(r) PROVE Contained
    BY <1>1, <1>a DEF Begin, Contained
  <1>2. ASSUME NEW r \in Runs, Insert(r) PROVE Contained
    BY <1>2, <1>a DEF Insert, Contained
  <1>3. ASSUME NEW r \in Runs, InsertRefused(r) PROVE Contained
    BY <1>3, <1>a DEF InsertRefused, Contained
  <1>4. ASSUME NEW r \in Runs, ClearNeedsInput(r) PROVE Contained
    BY <1>4, <1>a DEF ClearNeedsInput, Contained
  <1>5. ASSUME NEW r \in Runs, HandOver(r) PROVE Contained
    BY <1>5, <1>a DEF HandOver, Contained
  <1>6. ASSUME NEW r \in Runs, HandOverUnanswered(r) PROVE Contained
    BY <1>6, <1>a DEF HandOverUnanswered, Contained
  <1>7. ASSUME NEW r \in Runs, EnqueueFails(r) PROVE Contained
    BY <1>7, <1>a DEF EnqueueFails, Contained
  <1>8. ASSUME NEW r \in Runs, HandlerDies(r) PROVE Contained
    BY <1>8, <1>a DEF HandlerDies, Contained
  <1>9. ASSUME NEW r \in Runs, Cancel(r) PROVE Contained
    BY <1>9, <1>a DEF Cancel, Contained
  <1>10. ASSUME NEW r \in Runs, GoSilent(r) PROVE Contained
    BY <1>10, <1>a DEF GoSilent, Contained
  <1>11. ASSUME NEW r \in Runs, GrowOld(r) PROVE Contained
    BY <1>11, <1>a DEF GrowOld, Contained
  <1>12. ASSUME NEW r \in Runs, Reap(r) PROVE Contained
    BY <1>12, <1>a DEF Reap, Contained, Remove
  <1>13. ASSUME NEW r \in Runs, Clone(r) PROVE Contained
    BY <1>13, <1>a DEF Clone, Contained
  <1>14. ASSUME NEW r \in Runs, Callback(r) PROVE Contained
    BY <1>14, <1>a DEF Callback, Contained
  <1>15. ASSUME NEW r \in Runs, StartRunning(r) PROVE Contained
    BY <1>15, <1>a DEF StartRunning, Contained
  <1>16. ASSUME NEW r \in Runs, RunnerExits(r) PROVE Contained
    BY <1>16, <1>a DEF RunnerExits, Contained
  <1>17. ASSUME NEW r \in Runs, SandboxDies(r) PROVE Contained
    BY <1>17, <1>a DEF SandboxDies, Contained
  <1>18. ASSUME NEW w \in Workers, NEW r \in Runs, SweepOne(w, r) PROVE Contained
    BY <1>18, <1>a DEF SweepOne, Contained, Remove
  <1>19. ASSUME NEW w \in Workers, SweepDone(w) PROVE Contained
    BY <1>19, <1>a DEF SweepDone, Contained
  <1>20. ASSUME NEW w \in Workers, ClaimRow(w) PROVE Contained
    BY <1>20, <1>a DEF ClaimRow, Contained
  <1>21. ASSUME NEW w \in Workers, NotClaimable(w) PROVE Contained
    BY <1>21, <1>a DEF NotClaimable, Contained, Leave, Remove
  <1>22. ASSUME NEW w \in Workers, CountRuns(w) PROVE Contained
    BY <1>22, <1>a DEF CountRuns, Contained
  <1>23. ASSUME NEW w \in Workers, RepoBusy(w) PROVE Contained
    BY <1>23, <1>a DEF RepoBusy, Contained, Leave, Remove
  <1>24. ASSUME NEW w \in Workers, Admit(w) PROVE Contained
    BY <1>24, <1>a DEF Admit, Contained
  <1>25. ASSUME NEW w \in Workers, PrepareFails(w) PROVE Contained
    BY <1>25, <1>a DEF PrepareFails, Contained, FinishAs
  <1>26. ASSUME NEW w \in Workers, Wait(w) PROVE Contained
    BY <1>26, <1>a DEF Wait, Contained
  <1>27. ASSUME NEW w \in Workers, Collect(w) PROVE Contained
    BY <1>27, <1>a DEF Collect, Contained, Remove
  <1>28. ASSUME NEW w \in Workers, SandboxBreaks(w) PROVE Contained
    BY <1>28, <1>a DEF SandboxBreaks, Contained, FinishAs
  <1>29. ASSUME NEW w \in Workers, Conclude(w) PROVE Contained
    BY <1>29, <1>a DEF Conclude, Contained, Leave, Remove, FinishAs
  <1>30. ASSUME NEW w \in Workers, StillActive(w) PROVE Contained
    BY <1>30, <1>a DEF StillActive, Contained, Leave, Remove
  <1>31. ASSUME NEW w \in Workers, Push(w) PROVE Contained
    BY <1>31, <1>a DEF Push, Contained, FinishAs
  <1>32. ASSUME NEW w \in Workers, PushFails(w) PROVE Contained
    BY <1>32, <1>a DEF PushFails, Contained, FinishAs
  <1>33. ASSUME NEW w \in Workers, OpenPull(w) PROVE Contained
    BY <1>33, <1>a DEF OpenPull, Contained, FinishAs
  <1>34. ASSUME NEW w \in Workers, LinkPull(w) PROVE Contained
    BY <1>34, <1>a DEF LinkPull, Contained, FinishAs
  <1>35. ASSUME NEW w \in Workers, Ask(w) PROVE Contained
    BY <1>35, <1>a DEF Ask, Contained, Leave, Remove
  <1>36. ASSUME NEW w \in Workers, AddLabel(w) PROVE Contained
    BY <1>36, <1>a DEF AddLabel, Contained, FinishAs
  <1>37. ASSUME NEW w \in Workers, PublishBreaks(w) PROVE Contained
    BY <1>37, <1>a DEF PublishBreaks, Contained, FinishAs
  <1>38. ASSUME NEW w \in Workers, PublishAbandoned(w) PROVE Contained
    BY <1>38, <1>a DEF PublishAbandoned, Contained, Leave, Remove
  <1>39. ASSUME NEW w \in Workers, Finish(w) PROVE Contained
    BY <1>39, <1>a DEF Finish, Contained, Leave, Remove
  <1>40. ASSUME NEW w \in Workers, SoftTimeLimit(w) PROVE Contained
    BY <1>40, <1>a DEF SoftTimeLimit, Contained, Remove
  <1>41. ASSUME NEW w \in Workers, TimeOut(w) PROVE Contained
    BY <1>41, <1>a DEF TimeOut, Contained, Leave, Remove, FinishAs
  <1>42. ASSUME NEW w \in Workers, Crash(w) PROVE Contained
    BY <1>42, <1>a DEF Crash, Contained, Die
  <1>43. ASSUME NEW w \in Workers, Redeliver(w) PROVE Contained
    BY <1>43, <1>a DEF Redeliver, Contained
  <1>44. ASSUME ReaperScans PROVE Contained
    BY <1>44, <1>a DEF ReaperScans, Contained
  <1>45. ASSUME Recreate PROVE Contained
    BY <1>45, <1>a DEF Recreate, Contained, Die
  <1>46. CASE UNCHANGED vars
    BY <1>46, <1>a DEF vars, Contained
  <1> QED
    BY <1>1, <1>2, <1>3, <1>4, <1>5, <1>6, <1>7, <1>8, <1>9, <1>10, <1>11, <1>12, <1>13,
       <1>14, <1>15, <1>16, <1>17, <1>18, <1>19, <1>20, <1>21, <1>22, <1>23, <1>24, <1>25,
       <1>26, <1>27, <1>28, <1>29, <1>30, <1>31, <1>32, <1>33, <1>34, <1>35, <1>36, <1>37,
       <1>38, <1>39, <1>40, <1>41, <1>42, <1>43, <1>44, <1>45, <1>46
    DEF Next, Api, Sandbox, Time, Work, Trouble

\* Every step keeps Labels: a run that has begun is never claimed again.
LEMMA LabelsStep ==
  ASSUME TypeOK, Supervision, Labels, [Next]_vars
  PROVE  Labels'
  <1> USE DEF workers, docker
  <1>a. \A r \in Runs : Begun(r) => Begun(r)'
    BY BegunStays
  <1>b. TypeOK' /\ Supervision'
    BY TypeStep, SupervisionStep
  <1>c. /\ \A w \in Workers : pc[w] \in EXECUTING => job[w] \in Runs
        /\ todo \in [Workers -> SUBSET Runs] /\ box \in [Runs -> {"none", "booting", "working", "exited"}]
        /\ owner \in [Runs -> Workers \union {NoWorker}]
    BY DEF TypeOK, WorkersOK, DockerOK, EXECUTING, PUBLISHING
  <1>d. "dead" \notin EXECUTING /\ "idle" \notin EXECUTING
    BY DEF EXECUTING, PUBLISHING
  \* Who comes to execute a run takes it from the queue.
  <1>e. \A w \in Workers : pc'[w] \in EXECUTING =>
          /\ job'[w] \in Runs
          /\ job'[w] = job[w]
          /\ pc[w] \in EXECUTING \/ ~Begun(job[w])
    <2>1. CASE Calm
      BY <2>1, <1>c DEF Calm, HOLDING
    <2>2. ASSUME NEW r \in Runs, Begin(r) \/ Insert(r) PROVE UNCHANGED <<pc, job>>
      BY <2>2 DEF Begin, Insert
    <2>3. ASSUME NEW v \in Workers, ClaimRow(v) \/ CountRuns(v)
          PROVE  job' = job /\ \A w \in Workers : pc'[w] \in EXECUTING => pc'[w] = pc[w]
      BY <2>3 DEF ClaimRow, CountRuns, Goto, TypeOK, WorkersOK, EXECUTING, PUBLISHING
    <2>4. ASSUME NEW v \in Workers, Admit(v)
          PROVE  /\ job' = job /\ ~Begun(job[v]) /\ job[v] \in Runs
                 /\ \A w \in Workers : w # v => pc'[w] = pc[w]
      BY <2>4 DEF Admit, Goto, TypeOK, WorkersOK, Supervision, LOCKING, Begun
    <2> QED
      BY <2>1, <2>2, <2>3, <2>4, <1>c, CalmStep
  <1>f. ASSUME NEW w \in Workers, NEW r \in todo[w]
        PROVE  Begun(r)' /\ \A v \in Workers : job'[v] = r => pc'[v] \notin EXECUTING
    BY <1>a, <1>c, <1>e, <1>f DEF Labels
  <1>g. Orphans \subseteq Runs /\ \A r \in Orphans :
          Begun(r) /\ \A v \in Workers : job[v] = r => pc[v] \notin EXECUTING
    BY NullAssumption DEF Orphans, Labels
  <1>h. \A r \in Orphans : Begun(r)' /\ \A v \in Workers : job'[v] = r => pc'[v] \notin EXECUTING
    BY <1>a, <1>e, <1>g
  <1>1. CASE Contained
    <2>1. \A r \in Runs : box'[r] # "none" => Begun(r)'
      BY <1>1, <1>a DEF Contained, Labels
    <2>2. ASSUME NEW w \in Workers, pc'[w] \in EXECUTING, box'[job'[w]] # "none"
          PROVE  owner'[job'[w]] = w
      <3>1. job'[w] = job[w] /\ job[w] \in Runs /\ box[job[w]] # "none"
        BY <2>2, <1>1, <1>e DEF Contained
      <3>2. pc[w] \in EXECUTING /\ owner[job[w]] = w
        BY <2>2, <3>1, <1>e DEF Labels
      <3> QED
        BY <2>2, <3>1, <3>2, <1>1, <1>d DEF Contained
    <2>3. \A w \in Workers : \A r \in todo'[w] :
            Begun(r)' /\ \A v \in Workers : job'[v] = r => pc'[v] \notin EXECUTING
      BY <1>1, <1>f DEF Contained
    <2> QED
      BY <2>1, <2>2, <2>3 DEF Labels
  <1>2. ASSUME NEW w \in Workers, StartSandbox(w) PROVE Labels'
    <2>1. /\ box' = [box EXCEPT ![job[w]] = "booting"] /\ owner' = [owner EXCEPT ![job[w]] = w]
          /\ todo' = todo /\ job' = job /\ job[w] \in Runs /\ pc[w] \in EXECUTING
          /\ \A v \in Workers : v # w => pc'[v] = pc[v]
      BY <1>2, <1>c DEF StartSandbox, Goto, TypeOK, WorkersOK, EXECUTING
    <2>2. Begun(job[w])
      BY <2>1 DEF Supervision, Begun
    <2>3. \A r \in Runs : box'[r] # "none" => Begun(r)'
      BY <2>1, <2>2, <1>a, <1>c DEF Labels
    <2>4. ASSUME NEW v \in Workers, pc'[v] \in EXECUTING, box'[job'[v]] # "none"
          PROVE  owner'[job'[v]] = v
      <3>1. CASE v = w
        BY <2>1, <3>1, <1>c
      <3>2. CASE v # w
        <4>1. job[v] # job[w] /\ job[v] \in Runs /\ pc[v] \in EXECUTING
          BY <2>1, <2>4, <3>2, <1>c DEF Supervision, HOLDING
        <4> QED
          BY <2>1, <2>4, <4>1, <1>c DEF Labels
      <3> QED
        BY <3>1, <3>2
    <2> QED
      BY <2>1, <2>3, <2>4, <1>f DEF Labels
  <1>3. ASSUME NEW w \in Workers, UNCHANGED <<box, owner>>,
               \A v \in Workers : todo'[v] \in {todo[v], Orphans}
        PROVE  Labels'
    <2>1. \A r \in Runs : box'[r] # "none" => Begun(r)'
      BY <1>3, <1>a DEF Labels
    <2>2. ASSUME NEW v \in Workers, pc'[v] \in EXECUTING, box'[job'[v]] # "none"
          PROVE  owner'[job'[v]] = v
      <3>1. job'[v] = job[v] /\ job[v] \in Runs /\ box[job[v]] # "none"
        BY <2>2, <1>3, <1>e
      <3> QED
        BY <2>2, <3>1, <1>3, <1>e DEF Labels
    <2>3. \A v \in Workers : \A r \in todo'[v] :
            Begun(r)' /\ \A u \in Workers : job'[u] = r => pc'[u] \notin EXECUTING
      BY <1>3, <1>f, <1>h
    <2> QED
      BY <2>1, <2>2, <2>3 DEF Labels
  <1>4. ASSUME NEW w \in Workers, Restart(w) \/ \E r \in Runs : Deliver(w, r)
        PROVE  UNCHANGED <<box, owner>> /\ \A v \in Workers : todo'[v] \in {todo[v], Orphans}
    BY <1>4, <1>c DEF Restart, Deliver
  <1> QED
    BY <1>1, <1>2, <1>3, <1>4, ContainedStep

\* A sweep never fails a run that a live process is executing, whichever sibling or restarted
\* worker sweeps (docs/phase6.md, decision 3).
THEOREM SweepsSpareTheSupervised == Spec => SweepSparesTheSupervised
  <1>1. Init => Labels
    BY DEF Init, Labels, EXECUTING, PUBLISHING
  <1>2. TypeOK /\ Supervision /\ Labels /\ [Next]_vars => (TypeOK /\ Supervision /\ Labels)'
    BY TypeStep, SupervisionStep, LabelsStep
  <1>3. Labels =>
          [\A r \in Runs :
             /\ \E w \in Workers : r \in todo[w] \ todo'[w]
             /\ status'[r] # status[r]
             => ~\E w \in Workers : job[w] = r /\ pc[w] \in EXECUTING]_vars
    BY DEF Labels
  <1> QED
    BY SupervisionInit, <1>1, <1>2, <1>3, PTL DEF Spec, SweepSparesTheSupervised

-----------------------------------------------------------------------------
(* The reaper. *)

\* A worker knows its run's result exactly while it publishes, and all the while the row of
\* a run it speaks for is not silent.
KeptHeard ==
  /\ \A w \in Workers : found[w] \in Results => pc[w] \in PUBLISHING
  /\ \A r \in Runs : KeptAlive(r) /\ status[r] \in SILENT => heard[r]

\* What all steps but Collect do: nobody learns a result, no run that is spoken for falls
\* silent, and only the reaper's second look removes a candidate.
Attentive ==
  /\ \A w \in Workers :
       found'[w] \in Results =>
         found[w] \in Results /\ job'[w] = job[w] /\ pc'[w] \in PUBLISHING
  /\ \A r \in Runs :
       KeptAlive(r) /\ status'[r] \in SILENT => status[r] \in SILENT /\ (heard[r] => heard'[r])
  /\ \A r \in candidates \ candidates' : Reap(r)

LEMMA AttentiveStep ==
  ASSUME TypeOK, Supervision, KeptHeard, [Next]_vars
  PROVE  Attentive \/ \E w \in Workers : Collect(w)
  <1> USE DEF table, github, queue, workers, docker
  <1>a. /\ status \in [Runs -> RunStatus \union {Absent}] /\ heard \in [Runs -> BOOLEAN]
        /\ pc \in [Workers -> Steps] /\ job \in [Workers -> Runs \union {NoRun}]
        /\ found \in [Workers -> Found] /\ target \in [Workers -> TERMINAL_STATUSES]
        /\ {"finish", "push", "pr", "recheck", "check", "ask", "label", "link"} \subseteq PUBLISHING
        /\ "unread" \notin Results /\ "late" \notin Results
        /\ TERMINAL_STATUSES \intersect SILENT = {}
    BY DEF TypeOK, TableOK, WorkersOK, PUBLISHING, Results, TERMINAL_STATUSES, SILENT
  <1>b. /\ \A w \in Workers : found[w] \in Results => pc[w] \in PUBLISHING
        /\ \A r \in Runs : KeptAlive(r) => status[r] \notin {Absent, "queued"}
        /\ \A w \in Workers : pc[w] = "admit" => status[job[w]] = "queued"
        /\ \A r \in Runs : handing[r] = "stamped" => status[r] = Absent
    BY DEF KeptHeard, KeptAlive, Supervision, EXECUTING, LOCKING
  <1>1. ASSUME NEW r \in Runs, Begin(r) PROVE Attentive
    BY <1>1, <1>a, <1>b DEF Begin, Attentive
  <1>2. ASSUME NEW r \in Runs, Insert(r) PROVE Attentive
    BY <1>2, <1>a, <1>b DEF Insert, Attentive, SILENT
  <1>3. ASSUME NEW r \in Runs, InsertRefused(r) PROVE Attentive
    BY <1>3, <1>a, <1>b DEF InsertRefused, Attentive
  <1>4. ASSUME NEW r \in Runs, ClearNeedsInput(r) PROVE Attentive
    BY <1>4, <1>a, <1>b DEF ClearNeedsInput, Attentive
  <1>5. ASSUME NEW r \in Runs, HandOver(r) PROVE Attentive
    BY <1>5, <1>a, <1>b DEF HandOver, Attentive
  <1>6. ASSUME NEW r \in Runs, HandOverUnanswered(r) PROVE Attentive
    BY <1>6, <1>a, <1>b DEF HandOverUnanswered, Attentive
  <1>7. ASSUME NEW r \in Runs, EnqueueFails(r) PROVE Attentive
    BY <1>7, <1>a, <1>b DEF EnqueueFails, Attentive, SILENT
  <1>8. ASSUME NEW r \in Runs, HandlerDies(r) PROVE Attentive
    BY <1>8, <1>a, <1>b DEF HandlerDies, Attentive
  <1>9. ASSUME NEW r \in Runs, Cancel(r) PROVE Attentive
    BY <1>9, <1>a, <1>b DEF Cancel, Attentive, record_transition, SILENT
  <1>10. ASSUME NEW r \in Runs, GoSilent(r) PROVE Attentive
    BY <1>10, <1>a, <1>b DEF GoSilent, Attentive
  <1>11. ASSUME NEW r \in Runs, GrowOld(r) PROVE Attentive
    BY <1>11, <1>a, <1>b DEF GrowOld, Attentive
  <1>12. ASSUME NEW r \in Runs, Reap(r) PROVE Attentive
    <2>1. \A q \in candidates \ candidates' : q = r
      BY <1>12 DEF Reap
    <2>2. \A q \in Runs : status'[q] \in SILENT => status[q] \in SILENT /\ (heard[q] => heard'[q])
      BY <1>12, <1>a DEF Reap, record_transition, SILENT
    <2>3. UNCHANGED <<pc, job, found>>
      BY <1>12 DEF Reap
    <2> QED
      BY <1>12, <1>b, <2>1, <2>2, <2>3 DEF Attentive
  <1>13. ASSUME NEW r \in Runs, Clone(r) PROVE Attentive
    BY <1>13, <1>a, <1>b DEF Clone, Attentive
  <1>14. ASSUME NEW r \in Runs, Callback(r) PROVE Attentive
    BY <1>14, <1>a, <1>b DEF Callback, Attentive
  <1>15. ASSUME NEW r \in Runs, StartRunning(r) PROVE Attentive
    BY <1>15, <1>a, <1>b DEF StartRunning, Attentive, record_transition, SILENT
  <1>16. ASSUME NEW r \in Runs, RunnerExits(r) PROVE Attentive
    BY <1>16, <1>a, <1>b DEF RunnerExits, Attentive
  <1>17. ASSUME NEW r \in Runs, SandboxDies(r) PROVE Attentive
    BY <1>17, <1>a, <1>b DEF SandboxDies, Attentive
  <1>18. ASSUME NEW w \in Workers, NEW r \in Runs, Deliver(w, r) PROVE Attentive
    BY <1>18, <1>a, <1>b DEF Deliver, Attentive, Goto, PUBLISHING
  <1>19. ASSUME NEW w \in Workers, NEW r \in Runs, SweepOne(w, r) PROVE Attentive
    BY <1>19, <1>a, <1>b DEF SweepOne, Attentive, record_transition, Goto
  <1>20. ASSUME NEW w \in Workers, SweepDone(w) PROVE Attentive
    BY <1>20, <1>a, <1>b DEF SweepDone, Attentive, Goto, PUBLISHING
  <1>21. ASSUME NEW w \in Workers, ClaimRow(w) PROVE Attentive
    BY <1>21, <1>a, <1>b DEF ClaimRow, Attentive, Goto, PUBLISHING
  <1>22. ASSUME NEW w \in Workers, NotClaimable(w) PROVE Attentive
    BY <1>22, <1>a, <1>b DEF NotClaimable, Attentive, Leave, Goto
  <1>23. ASSUME NEW w \in Workers, CountRuns(w) PROVE Attentive
    BY <1>23, <1>a, <1>b DEF CountRuns, Attentive, Goto, PUBLISHING
  <1>24. ASSUME NEW w \in Workers, RepoBusy(w) PROVE Attentive
    BY <1>24, <1>a, <1>b DEF RepoBusy, Attentive, Leave, Goto
  <1>25. ASSUME NEW w \in Workers, Admit(w) PROVE Attentive
    BY <1>25, <1>a, <1>b DEF Admit, Attentive, record_transition, Goto, SILENT, PUBLISHING
  <1>26. ASSUME NEW w \in Workers, PrepareFails(w) PROVE Attentive
    BY <1>26, <1>a, <1>b DEF PrepareFails, Attentive, FinishAs, Goto
  <1>27. ASSUME NEW w \in Workers, StartSandbox(w) PROVE Attentive
    BY <1>27, <1>a, <1>b DEF StartSandbox, Attentive, Goto, PUBLISHING
  <1>28. ASSUME NEW w \in Workers, Wait(w) PROVE Attentive
    BY <1>28, <1>a, <1>b DEF Wait, Attentive, Goto, PUBLISHING
  <1>29. ASSUME NEW w \in Workers, SandboxBreaks(w) PROVE Attentive
    BY <1>29, <1>a, <1>b DEF SandboxBreaks, Attentive, FinishAs, Goto
  <1>30. ASSUME NEW w \in Workers, Conclude(w) PROVE Attentive
    BY <1>30, <1>a, <1>b DEF Conclude, Attentive, Leave, FinishAs, Goto
  <1>31. ASSUME NEW w \in Workers, StillActive(w) PROVE Attentive
    BY <1>31, <1>a, <1>b DEF StillActive, Attentive, Leave, Goto
  <1>32. ASSUME NEW w \in Workers, Push(w) PROVE Attentive
    BY <1>32, <1>a, <1>b DEF Push, Attentive, FinishAs, Goto
  <1>33. ASSUME NEW w \in Workers, PushFails(w) PROVE Attentive
    BY <1>33, <1>a, <1>b DEF PushFails, Attentive, FinishAs, Goto
  <1>34. ASSUME NEW w \in Workers, OpenPull(w) PROVE Attentive
    BY <1>34, <1>a, <1>b DEF OpenPull, Attentive, FinishAs, Goto
  <1>35. ASSUME NEW w \in Workers, LinkPull(w) PROVE Attentive
    BY <1>35, <1>a, <1>b DEF LinkPull, Attentive, FinishAs, Goto
  <1>36. ASSUME NEW w \in Workers, Ask(w) PROVE Attentive
    BY <1>36, <1>a, <1>b DEF Ask, Attentive, Leave, Goto
  <1>37. ASSUME NEW w \in Workers, AddLabel(w) PROVE Attentive
    BY <1>37, <1>a, <1>b DEF AddLabel, Attentive, FinishAs, Goto
  <1>38. ASSUME NEW w \in Workers, PublishBreaks(w) PROVE Attentive
    BY <1>38, <1>a, <1>b DEF PublishBreaks, Attentive, FinishAs, Goto
  <1>39. ASSUME NEW w \in Workers, PublishAbandoned(w) PROVE Attentive
    BY <1>39, <1>a, <1>b DEF PublishAbandoned, Attentive, Leave, Goto
  <1>40. ASSUME NEW w \in Workers, Finish(w) PROVE Attentive
    BY <1>40, <1>a, <1>b DEF Finish, Attentive, Leave, record_transition, Goto, SILENT
  <1>41. ASSUME NEW w \in Workers, SoftTimeLimit(w) PROVE Attentive
    BY <1>41, <1>a, <1>b DEF SoftTimeLimit, Attentive, Goto
  <1>42. ASSUME NEW w \in Workers, TimeOut(w) PROVE Attentive
    BY <1>42, <1>a, <1>b DEF TimeOut, Attentive, Leave, FinishAs, Goto
  <1>43. ASSUME NEW w \in Workers, Crash(w) PROVE Attentive
    BY <1>43, <1>a, <1>b DEF Crash, Attentive, Die
  <1>44. ASSUME NEW w \in Workers, Restart(w) PROVE Attentive
    BY <1>44, <1>a, <1>b DEF Restart, Attentive, Goto, PUBLISHING
  <1>45. ASSUME NEW w \in Workers, Redeliver(w) PROVE Attentive
    BY <1>45, <1>a, <1>b DEF Redeliver, Attentive, Goto
  <1>46. ASSUME ReaperScans PROVE Attentive
    BY <1>46, <1>a, <1>b DEF ReaperScans, Attentive
  <1>47. ASSUME Recreate PROVE Attentive
    BY <1>47, <1>a, <1>b DEF Recreate, Attentive, Die
  <1>48. CASE UNCHANGED vars
    BY <1>48, <1>a, <1>b DEF vars, Attentive
  <1> QED
    BY <1>1, <1>2, <1>3, <1>4, <1>5, <1>6, <1>7, <1>8, <1>9, <1>10, <1>11, <1>12, <1>13,
       <1>14, <1>15, <1>16, <1>17, <1>18, <1>19, <1>20, <1>21, <1>22, <1>23, <1>24, <1>25,
       <1>26, <1>27, <1>28, <1>29, <1>30, <1>31, <1>32, <1>33, <1>34, <1>35, <1>36, <1>37,
       <1>38, <1>39, <1>40, <1>41, <1>42, <1>43, <1>44, <1>45, <1>46, <1>47, <1>48
    DEF Next, Api, Sandbox, Time, Work, Trouble

\* Every step keeps KeptHeard; Collect itself sends the first heartbeat.
LEMMA KeptHeardStep ==
  ASSUME TypeOK, Supervision, KeptHeard, [Next]_vars
  PROVE  KeptHeard'
  <1>1. CASE Attentive
    <2>1. \A r \in Runs : KeptAlive(r)' => KeptAlive(r)
      BY <1>1 DEF Attentive, KeptAlive, KeptHeard
    <2> QED
      BY <1>1, <2>1 DEF Attentive, KeptHeard
  <1>2. ASSUME NEW w \in Workers, Collect(w) PROVE KeptHeard'
    <2>1. /\ job[w] \in Runs /\ heard' = [heard EXCEPT ![job[w]] = @ \/ status[job[w]] \in SILENT]
          /\ status' = status /\ job' = job /\ pc'[w] = "conclude"
          /\ \A v \in Workers : v # w => pc'[v] = pc[v] /\ found'[v] = found[v]
      BY <1>2 DEF Collect, Goto, TypeOK, WorkersOK
    <2>2. heard \in [Runs -> BOOLEAN]
      BY DEF TypeOK, TableOK
    <2>3. \A v \in Workers : found'[v] \in Results => pc'[v] \in PUBLISHING
      BY <2>1 DEF KeptHeard, PUBLISHING
    <2>4. ASSUME NEW r \in Runs, KeptAlive(r)', status'[r] \in SILENT PROVE heard'[r]
      <3>1. CASE r = job[w]
        BY <2>1, <2>2, <2>4, <3>1
      <3>2. CASE r # job[w]
        BY <2>1, <2>2, <2>4, <3>2 DEF KeptHeard, KeptAlive
      <3> QED
        BY <3>1, <3>2
    <2> QED
      BY <2>3, <2>4 DEF KeptHeard
  <1> QED
    BY <1>1, <1>2, AttentiveStep

\* The reaper never fails a run whose worker is publishing it: _keep_alive speaks for the
\* run, and the second look under the row lock hears it.
THEOREM PublishingIsNotReaped == Spec => PublishingRunsAreNotReaped
  <1>1. Init => KeptHeard
    BY DEF Init, KeptHeard, KeptAlive, Results, SILENT, Absent
  <1>2. TypeOK /\ Supervision /\ KeptHeard /\ [Next]_vars
          => (TypeOK /\ Supervision /\ KeptHeard)'
    BY TypeStep, SupervisionStep, KeptHeardStep
  <1>3. TypeOK /\ Supervision /\ KeptHeard /\ [Next]_vars =>
          [\A r \in Runs :
             r \in candidates \ candidates' /\ status'[r] # status[r] => ~KeptAlive(r)]_vars
    <2> SUFFICES ASSUME TypeOK, Supervision, KeptHeard, [Next]_vars,
                        NEW r \in Runs, r \in candidates, r \notin candidates',
                        status'[r] # status[r]
                 PROVE  ~KeptAlive(r)
      OBVIOUS
    <2>1. ASSUME NEW w \in Workers, Collect(w) PROVE candidates' = candidates
      BY <2>1 DEF Collect
    <2>2. Reap(r)
      BY <2>1, AttentiveStep DEF Attentive
    <2> QED
      BY <2>2 DEF Reap, KeptHeard, table
  <1> QED
    BY SupervisionInit, <1>1, <1>2, <1>3, PTL DEF Spec, PublishingRunsAreNotReaped
=============================================================================
