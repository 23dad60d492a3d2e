SPECIFICATION FairSpec
CONSTANTS
  Requests = {c1, c2}
  Drafts = {d1, d2}
  Gateways = {"YOOKASSA", "OTHER"}
  NoRequest = nobody
  NoDraft = nothing
  Scenarios <- TrialScenarios
INVARIANTS DraftsConsistent QuotaKept
PROPERTIES DeliveredStays ReservationSettles
CHECK_DEADLOCK FALSE
