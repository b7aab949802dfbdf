SPECIFICATION Spec
CONSTANTS
    Users = {u1, u2}
    Files = {f1, f2}
    Blobs = {b1, b2}
    Links = {l1}
    Calls = {c1, c2}
    None = None
    ShareKey = ShareKey
    Kinds <- KindNames
    MaxCount = 2
    MaxRequests = 4
    MaxFaults = 1
SYMMETRY Symmetry
INVARIANTS TypeOK RowHasBlob NumbersExact ShareExact
CHECK_DEADLOCK FALSE
