\* Two reviews, another run in their way, a worker and the reaper, an outage: a run follows.
CONSTANTS
  Reviews = {v1, v2}
  Comments = {}
  Asks = {a1}
  Workers = {w1}
  Reapers = {b1}
  Nothing = Nothing
  Faults = {"broker", "github"}
  MaxFaults = 1
SPECIFICATION FairSpec
INVARIANT FeedbackIsKept
PROPERTY FeedbackIsServed
CHECK_DEADLOCK FALSE
