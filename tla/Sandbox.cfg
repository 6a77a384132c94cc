CONSTANTS
  Setups <- BothOrNeither
  Tasks = {t1, t2}
  Main = t1
  Hosts = {good, bad}
  Calls <- KindsOfCalls
  Allowed = {good}
  Window = 1
  MaxTime = 2
  MaxCalls = 3
  MaxFaults = 1
SPECIFICATION FairSpec
INVARIANTS
  NothingSlipsOut
  BlockedAccounts
  ChainsAreTheFirst
PROPERTIES
  CallsAreAnswered
  RunEnds
CHECK_DEADLOCK FALSE
