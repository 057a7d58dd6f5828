SPECIFICATION FairSpec
CONSTANTS
  Groups = {g1}
  Addrs = {a1}
  Sentinels = {}
  Ports = {p1, p2}
  None = None
  WriteFaults = {"refused"}
  MaxPending = 0
PROPERTIES
  ResyncGroupAllReturns
