SPECIFICATION Spec
CONSTANTS
  Groups = {g1}
  Addrs = {a1, a2}
  Sentinels = {s1}
  Ports = {p1, p2}
  None = None
  WriteFaults = {"refused", "applied"}
  MaxPending = 1
SYMMETRY Symmetry
INVARIANTS
  TypeOK
  GroupsWellFormed
  SyncFollowsStore
