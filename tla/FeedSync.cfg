CONSTANTS
  Names = {feed}
  Whats <- Ecosystems
  Listings = {listed}
  Manual = manual
  Handlers = {r1, r2}
  Worker = worker
  Batch = 1
  MaxEdits = 4
  MaxFaults = 1
SPECIFICATION Spec
INVARIANTS
  OrphansAreOverlaps
PROPERTIES
  NoGap
CHECK_DEADLOCK FALSE
