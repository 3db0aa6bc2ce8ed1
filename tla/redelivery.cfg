\* One run whose message comes back while it is worked on, with every fault the runner meets.
CONSTANTS
  r1 = r1  r2 = r2  t1 = t1  t2 = t2  p1 = p1
  w1 = w1  w2 = w2
  NoRun = NoRun  NoWorker = NoWorker
  Runs = {r1}
  Tickets = {t1}
  Repos = {p1}
  TicketOf <- OneRun
  RepoOf <- OneRepo
  Workers = {w1, w2}
  MaxRunsPerRepo = 1
  ReaperHasSocket = TRUE
  LostReplies = TRUE
  Faults = {"crash", "abandon", "limit"}
  MaxFaults = 2
  MaxCopies = 1
SPECIFICATION FairSpec
INVARIANT OneSupervisorPerRun
 
INVARIANT TypeOK
PROPERTY PublishingRunsAreNotReaped
PROPERTY WorkingRunsEnd
 
PROPERTY SweepSparesTheSupervised

CHECK_DEADLOCK FALSE
