SPECIFICATION FairSpec
CONSTANTS
  n1 = n1
  n2 = n2
  n3 = n3
  p1 = p1
  p2 = p2
  p3 = p3
  Nodes = {n1, n2, n3}
  Producers = {p1, p2, p3}
  Stub = Stub
  Null = Null
INVARIANTS
  TypeOK

PROPERTIES
  ImplementsQueue
  
  EventuallyPopped
