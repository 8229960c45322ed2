SPECIFICATION FairSpec
CONSTANTS
  t1 = t1
  t2 = t2
  t3 = t3
  c1 = c1
  c2 = c2
  c3 = c3
  c4 = c4
  None = None
  Threads = {t1, t2, t3}
  Callbacks = {c1, c2, c3}
  CallbacksHoldRef = TRUE
INVARIANTS
  TypeOK
  RefCounts
  MutualExclusion
  DeletedIsUnused
  NoStrandedCallback
  OrphanedIsFreed
  
PROPERTIES
  EventuallyRuns
CHECK_DEADLOCK FALSE
