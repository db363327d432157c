SPECIFICATION BoxFairSpec
CONSTANTS
  Tasks = {t1, t2}
  NoTask = NoTask
  MaxErrors = 2
INVARIANTS CompletedHasFiles
PROPERTIES StopSparesWork IdleBoxStops TasksEndOrAreOrphaned
CHECK_DEADLOCK FALSE
