\* Two tickets of one repository, two workers that claim at once, one of them recreated or unable to sweep.
CONSTANTS
  r1 = r1  r2 = r2  t1 = t1  t2 = t2  p1 = p1
  w1 = w1  w2 = w2
  NoRun = NoRun  NoWorker = NoWorker
  Runs = {r1, r2}
  Tickets = {t1, t2}
  Repos = {p1}
  TicketOf <- RunEach
  RepoOf <- SameRepo
  Workers = {w1, w2}
  MaxRunsPerRepo = 1
  ReaperHasSocket = FALSE
  LostReplies = FALSE
  Faults = {"recreate", "sweep"}
  MaxFaults = 1
  MaxCopies = 0
SPECIFICATION Spec
INVARIANT RunsPerRepoAreCapped
SYMMETRY AnyWorker
CHECK_DEADLOCK FALSE
