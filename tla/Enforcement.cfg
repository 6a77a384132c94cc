CONSTANTS
  Versions = {v1, v2}
  Fetchers = {fetch}
  Runs = {ci}
  Concurrency = 1
SPECIFICATION FairSpec
PROPERTIES
  ImplementsGate
  RequestsEnd
CHECK_DEADLOCK FALSE
