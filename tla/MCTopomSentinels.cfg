SPECIFICATION FairSpec
CONSTANTS
  Groups = {g1}
  Addrs = {a1, a2}
  Sentinels = {s1}
  Ports = {p1, p2}
  None = None
  WriteFaults = {}
  MaxPending = 1
INVARIANTS
  InSyncMeansMonitored
PROPERTIES
  RequestsReturn
  MasterChangesAreMarked
