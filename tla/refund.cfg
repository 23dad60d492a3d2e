SPECIFICATION FairSpec
CONSTANTS
  r1 = r1
  r2 = r2
  r3 = r3
  Refunds = {r1, r2, r3}
  Amount <- HalvesAndWhole
  Paid = 2
  Panels = {a1}
  Workers = {w1, w2}
  MaxCrashes = 1
  NamelessEvents = FALSE
INVARIANTS ReversedOnlyInFull AckedIsReversed
PROPERTIES FullRefundReverses
CHECK_DEADLOCK FALSE
