SPECIFICATION Spec
CONSTANTS
  VideoTasks = {t1}
  ImageTasks = {t3}
  Keys = {k1}
  NoKey = NoKey
  Durations = {6}
  v1 = v1
  v2 = v2
  i1 = i1
  Workers = {v1, i1}
  WorkerKind <- MCWorkerKind
  NoTask = NoTask
  MaxMedia = 1
  GenBudget = 1
  StaleCutoff = 1
  MaxTime = 2
  MaxCrashes = 0
  MaxFaults = 1
PROPERTIES FailedMeansGenerationFailed
CHECK_DEADLOCK FALSE
