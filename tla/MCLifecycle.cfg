SPECIFICATION FeSpec
CONSTANTS
  Dashboards = {d1, d2}
  None = None
  CallFaults = {"refused", "applied"}
  MaxLost = 1
INVARIANTS
  TypeOK
  OneRefresher
PROPERTIES
  StopsUnlessHeldUp
  RoutesSettle
