CONSTANTS
  Names = {feed}
  Whats <- Ecosystems
  Listings = {listed}
  Manual = manual
  Handlers = {syncing, deleting}
  Worker = worker
  Batch = 1
  MaxEdits = 3
  MaxFaults = 0
SPECIFICATION Spec
INVARIANTS
  DeletedSourceListsNothing
CHECK_DEADLOCK FALSE
