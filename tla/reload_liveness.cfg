CONSTANTS
  i1 = i1
  i2 = i2
  v1 = v1
  v2 = v2
  bad = bad
  Ings <- MCIngs
  Main = Main
  Versions <- MCValid
  MainVersions <- MCMainVersions
  Valid <- MCValid
  Clashing <- MCClashing
  ImageConf = v1
  DefaultConf = v1
  Absent = Absent
  Empty = Empty
  Torn = Torn
  EventCap = 1
  MaxChanges = 3
  MaxFaults = 0
  SlowRetry = TRUE
SPECIFICATION StartedFairSpec
INVARIANT NothingMissed
PROPERTY Converges
CHECK_DEADLOCK FALSE
