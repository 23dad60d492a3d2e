SPECIFICATION ReferralSpec
CONSTANTS
  a = a
  b = b
  c = c
  t1 = t1
  t2 = t2
  t3 = t3
  Members = {a, b, c}
  Referrer <- MCReferrer
  Payments = {t1, t2, t3}
  Payer <- MCPayer
  First = 2
  Second = 1
  ActivePartners = {}
  Keys = {k1}
  Cost = 2
  Days = 1
  Opening = 5
  Callers = {w1, w2}
  Situations <- ReferralScenarios
SYMMETRY Symmetry
INVARIANTS EdgesConsistent  ExchangedOnce ReversalHolds
CHECK_DEADLOCK FALSE
