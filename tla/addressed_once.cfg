\* One starter at a time, and every fault: no review or comment gets two runs.
CONSTANTS
  Reviews = {v1, v2}
  Comments = {c1}
  Asks = {a1}
  Workers = {}
  Reapers = {b1}
  Nothing = Nothing
  Faults = {"broker", "github", "crash"}
  MaxFaults = 2
SPECIFICATION Spec
INVARIANT TypeOK
INVARIANT AddressedOnce
SYMMETRY AnyDelivery
CHECK_DEADLOCK FALSE
