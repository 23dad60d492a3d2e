SPECIFICATION FairSpec
CONSTANTS
  e1 = e1
  e2 = e2
  e3 = e3
  Procs = {p1, p2}
  Events = {e1, e2, e3}
  Scenarios <- OneFailure
  LeaseMayBeOvertaken = FALSE
  MaxStamp = 6
PROPERTIES CapturedIsDelivered
CHECK_DEADLOCK FALSE
