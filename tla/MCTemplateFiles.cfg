SPECIFICATION FairSpec
CONSTANTS
  Files = {f1, f2}
  Contents = {c1, c2}
  None = None
  Empty = Empty
  CallFaults = {"refused", "applied"}
  MaxTroubles = 6
INVARIANTS
  TypeOK
  CachedIsStored
PROPERTIES
  FilesSettle
