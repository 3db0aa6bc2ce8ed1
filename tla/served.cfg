\* Two tickets of one repository, one worker, an API handler that dies: nobody queues for ever.
CONSTANTS
  r1 = r1  r2 = r2  t1 = t1  t2 = t2  p1 = p1
  w1 = w1  w2 = w2
  NoRun = NoRun  NoWorker = NoWorker
  Runs = {r1, r2}
  Tickets = {t1, t2}
  Repos = {p1}
  TicketOf <- RunEach
  RepoOf <- SameRepo
  Workers = {w1}
  MaxRunsPerRepo = 1
  ReaperHasSocket = FALSE
  LostReplies = FALSE
  Faults = {"api", "abandon"}
  MaxFaults = 1
  MaxCopies = 0
SPECIFICATION FairSpec
PROPERTY QueuedRunsAreServed
CHECK_DEADLOCK FALSE
