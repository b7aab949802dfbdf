SPECIFICATION FairSpec
CONSTANTS
  Workers = {w1, w2, w3}
  Tasks = {k1, k2}
  Owner = Owner
  ExitTask = ExitTask
  NoThread = NoThread
  InitThreads = 2
  MaxExits = 1
CHECK_DEADLOCK FALSE
INVARIANTS Consistent  NothingLeftBehind
PROPERTIES DestroyReturns QueuedServed
