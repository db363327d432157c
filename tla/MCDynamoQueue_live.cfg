SPECIFICATION DFairSpec
CONSTANTS
  VideoTasks = {t1, t2}
  ImageTasks = {}
  Keys = {k1}
  NoKey = NoKey
  Durations = {6}
  v1 = v1
  v2 = v2
  i1 = i1
  Workers = {v1, v2}
  WorkerKind <- MCWorkerKind
  NoTask = NoTask
  MaxMedia = 1
  GenBudget = 1
  StaleCutoff = 1
  MaxTime = 1
  MaxCrashes = 0
  MaxFaults = 0
  QueryLimit = 1
PROPERTIES DEveryTaskEnds
CHECK_DEADLOCK FALSE
