SPECIFICATION BothSpec
CONSTANTS
  t1 = t1
  t2 = t2
  t3 = t3
  c1 = c1
  c2 = c2
  c3 = c3
  c4 = c4
  e1 = e1
  e2 = e2
  None = None
  Threads = {t1, t2, t3}
  Closures = {c1, c2, c3, c4}
  CancelThreads = {t1, t2}
  CancelClosures = {c1, c2}
  Errors = {e1, e2}
  MaxRegistrations = 2
INVARIANTS
  Exclusive
  SizeCounts
  StartOrder
  ScheduledOnce
  OneError
PROPERTIES
  EventuallyScheduled
  CancelledLeavesNone
CHECK_DEADLOCK FALSE
