SPECIFICATION FairSpec
CONSTANTS
  Groups = {g1}
  Addrs = {a1, a2}
  Ports = {p1, p2}
  None = None
  PortPairs <- SamePorts
  Names = {"haproxy", "lvs"}
  GslbAddrs = {x1}
  WithSentinels = TRUE
  Links <- Replicated
  WriteFaults = {}
  MaxWriters = 2
INVARIANTS
  WritesToOneServer
PROPERTIES
  RecordsSettle
