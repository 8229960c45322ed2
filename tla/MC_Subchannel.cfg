SPECIFICATION FairSpec
CONSTANTS
  k1 = k1
  k2 = k2
  w1 = w1
  w2 = w2
  None = None
  Transports = {k1, k2}
  Watchers = {w1}
  MaxPending = 3
  MaxDrains = 2
INVARIANTS
  StateMeaning
  WatchersAreCurrent
PROPERTIES
  WatchersSeeEveryStep
  FailureIsNoticed
  BackoffEnds
CHECK_DEADLOCK FALSE
