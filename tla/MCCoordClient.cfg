SPECIFICATION FairSpec
CONSTANTS
  Callers = {c1, c2}
  Values = {v1, v2}
  Nothing = Nothing
  MaxSlips = 1
  MaxDenials = 1
INVARIANTS
  UpdateRefused
  RecordHasDirectory
PROPERTIES
  KeepsPromise
  Recovers
