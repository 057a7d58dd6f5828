SPECIFICATION Spec
CONSTANTS
  Groups = {g1, g2}
  Addrs = {a1, a2}
  Ports = {p1, p2, p3, p4}
  None = None
  PortPairs <- TwoPairs
  Names = {"haproxy", "other"}
  GslbAddrs = {x1}
  WithSentinels = FALSE
  Links <- Steady
  WriteFaults = {"refused"}
  MaxWriters = 1
SYMMETRY Symmetry
INVARIANTS
  TypeOK
  BackendsMirrored
  
