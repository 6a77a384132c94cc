CONSTANTS
  HourTicks = 2
  NoTime = NoTime
  Tasks = {t1, t2}
  Trackers = {}
  Approvals = {a1}
  Policies <- AttestedPolicy
  Published = 0
  Reported <- OneReport
  Findings <- Found
  ApprovalTTLs = {1}
  VerdictTTL = 2
  ListingChanges = TRUE
  Faults = FALSE
  MaxNow = 0
  NoPolicy = NoPolicy
  NoVerdict = NoVerdict
  NoInput = NoInput
SPECIFICATION HSpec
SYMMETRY Slots
INVARIANTS
  ComputedRespectsFacts
  CachedRespectsFacts
CHECK_DEADLOCK FALSE
