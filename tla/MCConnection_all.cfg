SPECIFICATION FairSpec
CONSTANTS
    Conns = {c1, c2}
    Fds = {f1}
    Handlers = {h1, h2}
    None = None
    Kinds <- MCKinds
    MaxRequests = 2
CHECK_DEADLOCK FALSE
INVARIANTS Consistent RefExact
PROPERTY Answered
