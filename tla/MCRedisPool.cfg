SPECIFICATION FairSpec
CONSTANTS
  Clients = {c1, c2, c3}
  Askers = {k1, k2}
  None = None
CHECK_DEADLOCK FALSE
INVARIANTS
  TypeOK
  OnePlace
  NoLeak
  RecordsFrozen
PROPERTIES
  OldOnesClosed
