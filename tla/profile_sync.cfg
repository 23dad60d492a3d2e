SPECIFICATION FairSyncSpec
CONSTANTS
  SyncWorkers = {w1, w2}
  MaxJobs = 4
  MaxProfiles = 2
  MaxTerm = 3
  MaxTries = 2
  MaxRounds = 2
  Scenarios <- SyncScenarios
INVARIANTS SyncConsistent Converged RemovalOnRecord
PROPERTIES JobSettles
CHECK_DEADLOCK FALSE
