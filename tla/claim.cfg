SPECIFICATION Spec
CONSTANTS
  Claimants = {c1, c2, c3}
  Kinds = {"NEW", "RENEW", "ADDON"}
  LeaseMayBeOvertaken = FALSE
  MaxStamp = 9
SYMMETRY Symmetry
INVARIANTS AtMostOnce DeliveredStaysClaimed
 
CHECK_DEADLOCK FALSE
