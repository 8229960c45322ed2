SPECIFICATION FairSpec
CONSTANTS
  p1 = p1
  p2 = p2
  c1 = c1
  c2 = c2
  Pollers = {p1}
  Closers = {c1}
  Order <- ReadWrite
PROPERTIES
  InputIsRead
  ShutdownWakes
