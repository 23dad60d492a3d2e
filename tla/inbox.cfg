SPECIFICATION FairSpec
CONSTANTS
  Ingress = {i1, i2}
  Workers = {w1, w2}
  LastPayload = 2
  Scenarios <- InboxScenarios
INVARIANTS InboxConsistent PaidNotLost
 
CHECK_DEADLOCK FALSE
