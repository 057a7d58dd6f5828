SPECIFICATION Spec
CONSTANTS
  Groups = {g1, g2}
  Addrs = {a1, a2, a3}
  Sentinels = {}
  Ports = {p1, p2, p3, p4}
  None = None
  WriteFaults = {}
  MaxPending = 0
SYMMETRY Symmetry
INVARIANTS
  ServersDisjoint
  PortsDisjoint
PROPERTIES
  RefinesRegistry
  PromotesTheNamedServer
