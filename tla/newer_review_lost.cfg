\* No faults at all: two reviews that arrive together while a run is active.
CONSTANTS
  Reviews = {v1, v2}
  Comments = {}
  Asks = {a1}
  Workers = {w1}
  Reapers = {b1}
  Nothing = Nothing
  Faults = {}
  MaxFaults = 0
SPECIFICATION Spec
INVARIANT NewestFeedbackIsKept
CHECK_DEADLOCK FALSE
