SPECIFICATION Spec
CONSTANTS
  p1 = p1  p2 = p2  c1 = c1  c2 = c2  k = k
  Threads = {p1, p2, c1, c2, k}
  Msgs = {m1, m2, m3}
  NoMsg = NoMsg
  NoThread = NoThread
  Ops <- AllOps
  MaxLen = 2
  SizeMax = 15
INVARIANTS Consistent SwapSafe WakeupNotLost
PROPERTIES ImplementsTaskQueue
