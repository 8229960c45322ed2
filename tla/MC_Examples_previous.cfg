SPECIFICATION Spec
CONSTANTS
  s1 = s1
  s2 = s2
  t1 = t1
  t2 = t2
  c1 = c1
  c2 = c2
  c3 = c3
  c4 = c4
  c5 = c5
  None = None
  Streams = {s1, s2}
  Notes <- MCNotes
  Locations = {"near", "far"}
  At <- MCAt
  Threads = {t1, t2}
  CallDatas = {c1, c2, c3, c4, c5}
  MaxCalls = 3
INVARIANT AllPreviousSent
CHECK_DEADLOCK FALSE
