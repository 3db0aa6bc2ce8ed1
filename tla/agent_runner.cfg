\* A run of 100 minutes, a fast and a slow clone, every project configuration.
CONSTANTS
  Timeouts = {100}
  CloneTimes = {0, 120}
  GitTime = 5
  MaxSetup = 1
  Edits = {{}, {"source", "workflow"}, {"lockfile", "generated"}}
SPECIFICATION FairSpec
CHECK_DEADLOCK FALSE
INVARIANTS
  TypeOK
  ShippedWasChecked
  OnlySuccessLeavesABundle
  
  
  
PROPERTIES
  RunnerExits
