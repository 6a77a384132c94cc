CONSTANTS
  Writers = {w1, w2}
  Users = {u1, u2}
  Ids = {a}
  Entries <- Recordable
  NoEntry = NoEntry
  Nobody = Nobody
  WriteFaults = TRUE
  GrpcRevokes = TRUE
  RoleChanges = TRUE
  MaxRows = 3
SPECIFICATION Spec
SYMMETRY Symmetric
INVARIANTS
  ForksAreOverlaps
  LogAgreesWithTable
PROPERTIES
  DecisionsStand
CHECK_DEADLOCK FALSE
