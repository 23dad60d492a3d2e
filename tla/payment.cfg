SPECIFICATION Spec
CONSTANTS
  e1 = e1
  e2 = e2
  e3 = e3
  Procs = {p1, p2}
  Events = {e1, e2, e3}
  Scenarios <- PaymentScenarios
  LeaseMayBeOvertaken = FALSE
  MaxStamp = 6
SYMMETRY Symmetry
INVARIANTS RowConsistent NewNeverStranded 
PROPERTIES ImplementsClaim NothingTakenBack
CHECK_DEADLOCK FALSE
