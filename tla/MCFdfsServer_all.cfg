CONSTANTS
  Methods = {"upload", "delete"}
  Requests <- MCRequests
  MethodOf <- MCMethodOf
  NoReq = 0
  Threads = {11, 12}
  PoolSize = 1
SPECIFICATION Spec
CHECK_DEADLOCK FALSE
INVARIANTS Consistent PoolExact AnsweredIsStored
PROPERTIES IsService AllAnswered
