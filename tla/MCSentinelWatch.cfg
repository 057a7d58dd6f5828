SPECIFICATION FairSpec
CONSTANTS
  s1 = s1
  s2 = s2
  Sentinels = {s1, s2}
  Servers <- TwoServers
  Tries = 2
  MaxEpoch = 1
  MaxFaults = 1
  MaxDeleted = 1
INVARIANTS
  TypeOK
  NoLostSwitch
PROPERTIES
  FollowsTheSentinels
  WatcherEnds
CHECK_DEADLOCK FALSE
