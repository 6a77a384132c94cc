CONSTANTS
  Names = {n1, n2}
  Whats <- KindsOfTargets
  Batch = 1
  MaxEdits = 4
  MaxFaults = 1
  Operators = {o1, o2}
  Engines = {e1}
  MaxStamps = 4
  Kids <- AnyKid
  NoKid = NoKid
  KeyPairs = {p1, p2}
  Roles = {"a", "r"}
  admin_roles = {"a"}
  responder_roles = {"r"}
  MaxKeys = 2
  Writers = {handler}
  WriteFaults = TRUE
  Entries = {d1, d2}
  NoEntry = NoEntry
  MaxRows = 6
SPECIFICATION TablesSpec
INVARIANTS
  ChecksAreOwn
  TwoActiveOverlapped
  NoPolicyReturns
  BootstrapOnlyFills
  OnlySignersEnter
  HoldersEnter
PROPERTIES
  ImplementsLinearLog
  EveryRowIsChecked
CHECK_DEADLOCK FALSE
