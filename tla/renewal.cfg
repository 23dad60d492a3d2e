SPECIFICATION FairSpec
CONSTANTS
  Procs <- ProcsMC
  Cycles <- CyclesMC
  Requests <- RequestsMC
  MaxDrafts = 3
  MaxEpoch = 1
  MaxAttempts = 2
  Scenarios <- ScenariosMC
INVARIANTS ChargedOnce
PROPERTIES ConsentKept  PastDueSettles
CHECK_DEADLOCK FALSE
