\* Two requests with the same key or one of them without, the same body or not, and two faults.
CONSTANTS
  Callers = {q1, q2}
  NoOne = NoOne
  Keys = {k1}
  NoKey = NoKey
  Bodies = {b1, b2}
  Triaged = {b1}
  Keyless = {b2}
  MaxFaults = 2
  FaultKinds = {"github", "token", "crash", "triage", "comment"}
SPECIFICATION FairSpec
INVARIANT TypeOK
INVARIANT OldRevocationsAreHarmless
INVARIANT SecondIssueNeedsAFreedKey
INVARIANT AnswersAreTrue
INVARIANT KeysTellTheTruth
PROPERTY EveryRequestEnds
PROPERTY NoKeyIsStuckForEver
CHECK_DEADLOCK FALSE
