SPECIFICATION Spec
CONSTANTS
  VideoTasks = {t1, t2}
  ImageTasks = {t3}
  Keys = {k1}
  NoKey = NoKey
  Durations = {6}
  v1 = v1
  v2 = v2
  i1 = i1
  Workers = {v1, v2, i1}
  WorkerKind <- MCWorkerKind
  NoTask = NoTask
  MaxMedia = 2
  GenBudget = 1
  StaleCutoff = 1
  MaxTime = 2
  MaxCrashes = 1
  MaxFaults = 1
SYMMETRY Alike
INVARIANTS TypeOK SingleExecutor NoStolenKind OldestFirst MeterMatchesVerdicts RerunsNeedTrouble ChargedOnce FewGivenAway
PROPERTIES NeverYanked VerdictIsFinal 
CHECK_DEADLOCK FALSE
