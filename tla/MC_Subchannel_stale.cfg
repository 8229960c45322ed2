SPECIFICATION Spec
CONSTANTS
  k1 = k1
  k2 = k2
  w1 = w1
  w2 = w2
  None = None
  Transports = {k1, k2}
  Watchers = {w1}
  MaxPending = 2
  MaxDrains = 1
PROPERTY HealthyIsKept
CHECK_DEADLOCK FALSE
