SPECIFICATION Spec
CONSTANTS
  Clients = {c1, c2}
  Limit = 2
  Window = 3
  MaxDelay = 1
  MaxTime = 3
  MaxLost = 0
PROPERTIES RefusedOnlyAtLimit
CHECK_DEADLOCK FALSE
