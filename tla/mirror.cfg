\* Two pull requests, four changes on GitHub, three deliveries on their way and one fault, with
\* every writer.
CONSTANTS
  MaxPulls = 2
  MaxChanges = 4
  MaxDeliveries = 3
  MaxFaults = 1
  FaultKinds = {"lost", "overtaken", "redelivered", "suspended"}
  Writers = {"create", "clear", "ask", "conclude"}
SPECIFICATION Spec
INVARIANT TypeOK
 
PROPERTY SyncRepairs
CHECK_DEADLOCK FALSE
