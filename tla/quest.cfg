SPECIFICATION FairSpec
CONSTANTS
  u1 = u1
  u2 = u2
  c1 = c1
  c2 = c2
  Users = {u1, u2}
  Codes = {c1, c2}
  Requests = {r1, r2}
  MaxEdits = 1
  Workers = {w1, w2}
  Batch = 2
  Scenarios <- QuestScenarios
INVARIANTS CodesConsistent PaidOnce BudgetKept
PROPERTIES NoClaimAfterLeaving ClaimIsPaid
CHECK_DEADLOCK FALSE
