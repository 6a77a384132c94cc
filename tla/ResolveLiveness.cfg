CONSTANTS
  HourTicks = 2
  NoTime = NoTime
  Tasks = {t1, t2}
  Trackers = {w}
  Approvals = {}
  Policies <- AttestedPolicy
  Published = 0
  Reported <- Nothing
  Findings <- Attested
  ApprovalTTLs = {1}
  VerdictTTL = 3
  ListingChanges = FALSE
  Faults = FALSE
  MaxNow = 1
  NoPolicy = NoPolicy
  NoVerdict = NoVerdict
  NoInput = NoInput
SPECIFICATION FairSpec
PROPERTIES
  RequestsAreAnswered
  PendingHoldIsDropped
CHECK_DEADLOCK FALSE
