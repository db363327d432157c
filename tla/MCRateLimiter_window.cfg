SPECIFICATION Spec
CONSTANTS
  Clients = {c1, c2, c3}
  Limit = 2
  Window = 3
  MaxDelay = 1
  MaxTime = 7
  MaxLost = 1
SYMMETRY Alike
INVARIANTS LTypeOK AdmittedWithinLimit BurstBounded
PROPERTIES ImplementsFixedWindow
CHECK_DEADLOCK FALSE
