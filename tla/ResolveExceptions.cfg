CONSTANTS
  HourTicks = 2
  NoTime = NoTime
  Tasks = {t1}
  Trackers = {w}
  Approvals = {a1}
  Policies <- CooldownPolicy
  Published = 0
  Reported <- OneReport
  Findings <- Clean
  ApprovalTTLs = {1}
  VerdictTTL = 3
  ListingChanges = TRUE
  Faults = TRUE
  MaxNow = 3
  NoPolicy = NoPolicy
  NoVerdict = NoVerdict
  NoInput = NoInput
SPECIFICATION Spec
INVARIANTS
  HardBlockNeverReleased
  ExceptionIsBacked
  CacheOutlivesNothing
CHECK_DEADLOCK FALSE
