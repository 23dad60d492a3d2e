SPECIFICATION FairSpec
CONSTANTS
  p1 = p1
  p2 = p2
  x1 = x1
  u1 = u1
  u2 = u2
  Partners = {p1, p2}
  Payments = {t1, t2}
  Withdrawals = {x1}
  Purchases = {u1, u2}
  Workers = {w1, w2}
  Earn <- MCEarn
  Amount <- MCAmount
  Owner <- MCOwner
  OncePerUser = {p2}
  Scenarios <- PartnerScenarios
  MaxRows = 6
INVARIANTS AccountsConsistent  
PROPERTIES OwedIsRestored
CHECK_DEADLOCK FALSE
