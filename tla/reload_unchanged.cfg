CONSTANTS
  i1 = i1
  i2 = i2
  v1 = v1
  v2 = v2
  bad = bad
  Ings <- MCOne
  Main = Main
  Versions <- MCVersions
  MainVersions <- MCVersions
  Valid <- MCValid
  Clashing <- MCDisjoint
  ImageConf = v1
  DefaultConf = v1
  Absent = Absent
  Empty = Empty
  Torn = Torn
  EventCap = 1
  MaxChanges = 2
  MaxFaults = 0
  SlowRetry = TRUE
SPECIFICATION Spec
INVARIANT UnchangedIsLoaded
CHECK_DEADLOCK FALSE
