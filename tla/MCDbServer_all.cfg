CONSTANTS
  Methods = {"upload", "share"}
  Async = {"upload"}
  Requests <- MCRequests
  MethodOf <- MCMethodOf
  NoReq = 0
  Workers = {1, 2}
  MaxChain = 2
  MaxLost = 1
SPECIFICATION Spec
CHECK_DEADLOCK FALSE
INVARIANT Consistent
PROPERTIES IsService Answered CloseEnds
