\* Two attempts on one ticket, two workers, one crash at any point.
CONSTANTS
  r1 = r1  r2 = r2  t1 = t1  t2 = t2  p1 = p1
  w1 = w1  w2 = w2
  NoRun = NoRun  NoWorker = NoWorker
  Runs = {r1, r2}
  Tickets = {t1}
  Repos = {p1}
  TicketOf <- OneTicket
  RepoOf <- OneRepo
  Workers = {w1, w2}
  MaxRunsPerRepo = 1
  ReaperHasSocket = FALSE
  LostReplies = FALSE
  Faults = {"crash"}
  MaxFaults = 1
  MaxCopies = 0
SPECIFICATION Spec
INVARIANT OneActiveRunPerTicket
INVARIANT SecretExactlyWhileWorking
INVARIANT SucceededRunsArePublished
PROPERTY LifecycleSpec
 
PROPERTY EndedRunsStayUnpublished
CHECK_DEADLOCK FALSE
SYMMETRY AnyWorkerOrRun
