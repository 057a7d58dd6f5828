SPECIFICATION Spec
CONSTANTS
  Groups = {g1}
  Addrs = {a1}
  Ports = {p1, p2}
  None = None
  PortPairs <- AnyPorts
  Names = {"haproxy"}
  GslbAddrs = {x1}
  WithSentinels = TRUE
  Links <- Unreplicated
  WriteFaults = {}
  MaxWriters = 1
PROPERTIES
  AcceptedMeansStored
