CONSTANTS
  HourTicks = 2
  NoTime = NoTime
  Tasks = {t1}
  Trackers = {w}
  Approvals = {}
  Policies <- CooldownPolicy
  Published = 0
  Reported <- OneReport
  Findings <- Clean
  ApprovalTTLs = {1}
  VerdictTTL = 2
  ListingChanges = FALSE
  Faults = FALSE
  MaxNow = 2
  NoPolicy = NoPolicy
  NoVerdict = NoVerdict
  NoInput = NoInput
SPECIFICATION PSpec
INVARIANTS
  FlaggedIsNeverServed
CHECK_DEADLOCK FALSE
