SPECIFICATION FairSpec
CONSTANTS
  p1 = p1  p2 = p2  c1 = c1  c2 = c2  k = k
  Threads = {p1, p2, c1, k}
  Msgs = {m1, m2, m3}
  NoMsg = NoMsg
  NoThread = NoThread
  Ops <- WorkOps
  MaxLen = 1
  SizeMax = 15
INVARIANT PendingBound
PROPERTIES Delivered Progress
