SPECIFICATION FairSpec
CONSTANTS
  VideoTasks = {t1, t2}
  ImageTasks = {}
  Keys = {k1}
  NoKey = NoKey
  Durations = {6}
  v1 = v1
  v2 = v2
  i1 = i1
  Workers = {v1, v2, i1}
  WorkerKind <- MCWorkerKind
  NoTask = NoTask
  MaxMedia = 1
  GenBudget = 1
  StaleCutoff = 1
  MaxTime = 2
  MaxCrashes = 1
  MaxFaults = 0
PROPERTIES EveryTaskEnds StaleOrphanRecovered ImplementsJobQueue
CHECK_DEADLOCK FALSE
