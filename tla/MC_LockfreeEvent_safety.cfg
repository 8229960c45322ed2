SPECIFICATION Spec
CONSTANTS
  p1 = p1
  p2 = p2
  c1 = c1
  c2 = c2
  Pollers = {p1, p2}
  Closers = {c1, c2}
  Order <- ReadWrite
SYMMETRY Symmetry
INVARIANTS
  ScheduledOnce
  NoLostWakeup
  ShutdownIsComplete
PROPERTY ShutdownIsFinal
