\* Two requests with the same key, one fault.
CONSTANTS
  Callers = {q1, q2}
  NoOne = NoOne
  Keys = {k1}
  NoKey = NoKey
  Bodies = {b1}
  Triaged = {b1}
  Keyless = {}
  MaxFaults = 1
  FaultKinds = {"comment"}
SPECIFICATION Spec
INVARIANT OneIssuePerKey
CHECK_DEADLOCK FALSE
