\* Three events in batches of two, two attempts each, and two faults.
CONSTANTS
  MaxEvents = 3
  max_batch = 2
  Attempts = 2
  MaxFaults = 2
  Nothing = Nothing
SPECIFICATION FairSpec
INVARIANT NothingAcknowledgedIsLost
INVARIANT NoSilentGap
PROPERTY TranscriptSpec
PROPERTY EveryEventArrives
CHECK_DEADLOCK FALSE
