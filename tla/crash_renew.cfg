SPECIFICATION Spec
CONSTANTS
  e1 = e1
  e2 = e2
  e3 = e3
  Procs = {p1, p2}
  Events = {e1, e2, e3}
  Scenarios <- OneFailedRenewal
  LeaseMayBeOvertaken = FALSE
  MaxStamp = 6
INVARIANTS NeverStranded
CHECK_DEADLOCK FALSE
