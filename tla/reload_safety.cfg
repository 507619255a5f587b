CONSTANTS
  i1 = i1
  i2 = i2
  v1 = v1
  v2 = v2
  bad = bad
  Ings <- MCIngs
  Main = Main
  Versions <- MCVersions
  MainVersions <- MCVersions
  Valid <- MCValid
  Clashing <- MCDisjoint
  ImageConf = v1
  DefaultConf = v1
  Absent = Absent
  Empty = Empty
  Torn = Torn
  EventCap = 1
  MaxChanges = 2
  MaxFaults = 1
  SlowRetry = FALSE
SPECIFICATION Spec
INVARIANTS TypeOK IdleClean NoFalseReject GoodCopyKept ReloadInv
PROPERTY ImplementsStore
CHECK_DEADLOCK FALSE
