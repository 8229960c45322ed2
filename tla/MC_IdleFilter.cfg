SPECIFICATION FairSpec
CONSTANTS
  u1 = u1
  u2 = u2
  i1 = i1
  i2 = i2
  i3 = i3
  i4 = i4
  None = None
  App = App
  Users = {u1, u2}
  Timers = {i1, i2, i3}
  MaxCalls = 3
INVARIANTS
  OneTimer
  IdleIsWatched
PROPERTIES
  FullCycle
  FirstIdle
CHECK_DEADLOCK FALSE
